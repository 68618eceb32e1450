---------------------------- MODULE WindowMerger ----------------------------
(***************************************************************************)
(* The per-window latency histograms of src/scripts/plot_bdev.py:          *)
(* load_histograms reads every file hist_s<size>_q<qd>_r<run>.csv row by   *)
(* row; plot_histograms sums the counts per window midpoint, overall and   *)
(* per (IO size, queue depth, midpoint), and turns each series into        *)
(* percentages of its total.                                               *)
(*                                                                         *)
(* A file is its name's tag [io, qd, run], whether the regex of line 135 *)
(* matches the name ("matched"), and its rows.  A field is a record      *)
(* of kind "num" (an integer, in us), "empty" (float(... or 0) gives 0) or *)
(* "garbled" (float raises).                                               *)
(* A midpoint (start + end) / 2.0 is kept doubled, as start + end, so it   *)
(* stays an exact integer; a percentage is the fraction [num, den].        *)
(***************************************************************************)
EXTENDS Integers, Sequences, SequencesExt, FiniteSets

CONSTANTS
    Files,      \* the files glob may return, each [tag, rows]
    MaxFiles    \* bound: files in the histogram directory

\* float(row.get(field, 0) or 0): an empty cell is 0.
FieldOK(v)    == v.kind # "garbled"
FieldValue(v) == IF v.kind = "empty" THEN 0 ELSE v.val

\* The try block of lines 147-157: a row with a field float() rejects is skipped.
RowOK(row) == FieldOK(row.start) /\ FieldOK(row.end) /\ FieldOK(row.count)

Sample(tag, row) ==
    [io |-> tag.io, qd |-> tag.qd, run |-> tag.run,
     start |-> FieldValue(row.start), end |-> FieldValue(row.end),
     count |-> FieldValue(row.count)]

\* Fault variant: the midpoint taken as start + end / 2.0 (a missing bracket).
MidNoBrackets(s) == 2 * s.start + s.end

\* mid = (row["start_us"] + row["end_us"]) / 2.0, doubled.
Mid(s) == s.start + s.end

\* d.get(k, 0.0) + c stored back into d[k]
AddTo(d, k, c) ==
    [x \in DOMAIN d \cup {k} |-> (IF x \in DOMAIN d THEN d[x] ELSE 0) + (IF x = k THEN c ELSE 0)]

\* The sum of a dict's values.
Total(d) == FoldFunction(+, 0, d)

\* (c / (total or 1.0)) * 100.0 for every value c of a series
Percentages(d) ==
    LET den == IF Total(d) = 0 THEN 1 ELSE Total(d)
    IN [x \in DOMAIN d |-> [num |-> 100 * d[x], den |-> den]]

-----------------------------------------------------------------------------
VARIABLES
    files,      \* sorted(glob(...)): the histogram files
    f,          \* the file load_histograms reads
    r,          \* the next row of that file
    hist_rows,  \* the samples loaded so far
    m,          \* the next sample the merge loop reads
    overall,    \* overall_counts: midpoint -> count
    agg,        \* agg_counts: [io, qd, mid] -> count
    overallPct, \* the percentages of hist_overall.png
    seriesPct,  \* per [io, qd]: the percentages of its curve in hist_io_<io>.png
    plots,      \* the charts plot_histograms returns: those save_plot saved
    pc          \* "load", "merge" or "done"

vars == <<files, f, r, hist_rows, m, overall, agg, overallPct, seriesPct, plots, pc>>

Empty == [x \in {} |-> 0]

Init ==
    /\ files \in UNION {[1..n -> Files] : n \in 0..MaxFiles}
    /\ f = 1 /\ r = 1 /\ hist_rows = <<>> /\ m = 1
    /\ overall = Empty /\ agg = Empty /\ overallPct = Empty /\ seriesPct = Empty
    /\ plots = <<>> /\ pc = "load"

Loading == pc = "load" /\ f <= Len(files)

\* if not m: continue
SkipFile ==
    /\ Loading /\ ~files[f].matched
    /\ f' = f + 1
    /\ UNCHANGED <<files, r, hist_rows, m, overall, agg, overallPct, seriesPct, plots, pc>>

\* for row in reader: try: rows.append({...})
LoadRow ==
    /\ Loading /\ files[f].matched /\ r <= Len(files[f].rows)
    /\ LET row == files[f].rows[r]
       IN hist_rows' = IF RowOK(row) THEN Append(hist_rows, Sample(files[f].tag, row))
                       ELSE hist_rows
    /\ r' = r + 1
    /\ UNCHANGED <<files, f, m, overall, agg, overallPct, seriesPct, plots, pc>>

\* The reader of a file is exhausted: on to the next path.
EndFile ==
    /\ Loading /\ files[f].matched /\ r > Len(files[f].rows)
    /\ f' = f + 1 /\ r' = 1
    /\ UNCHANGED <<files, hist_rows, m, overall, agg, overallPct, seriesPct, plots, pc>>

\* plot_histograms(load_histograms(...)): if not hist_rows: return plots
EndLoad ==
    /\ pc = "load" /\ f > Len(files)
    /\ pc' = IF hist_rows = <<>> THEN "done" ELSE "merge"
    /\ UNCHANGED <<files, f, r, hist_rows, m, overall, agg, overallPct, seriesPct, plots>>

\* Fault variant: the run tag used where the queue depth belongs in the key.
MergeRowRunKey ==
    /\ pc = "merge" /\ m <= Len(hist_rows)
    /\ LET s == hist_rows[m]
       IN /\ overall' = AddTo(overall, Mid(s), s.count)
          /\ agg' = AddTo(agg, [io |-> s.io, qd |-> s.run, mid |-> Mid(s)], s.count)
    /\ m' = m + 1
    /\ UNCHANGED <<files, f, r, hist_rows, overallPct, seriesPct, plots, pc>>

\* One iteration of the loop of lines 172-176.
MergeRow ==
    /\ pc = "merge" /\ m <= Len(hist_rows)
    /\ LET s == hist_rows[m]
       IN /\ overall' = AddTo(overall, Mid(s), s.count)
          /\ agg' = AddTo(agg, [io |-> s.io, qd |-> s.qd, mid |-> Mid(s)], s.count)
    /\ m' = m + 1
    /\ UNCHANGED <<files, f, r, hist_rows, overallPct, seriesPct, plots, pc>>

\* The midpoints of the (io, qd) series: {k[2] for k in agg_counts if ...}
SeriesOf(a, io, qd) ==
    [x \in {k.mid : k \in {k \in DOMAIN a : k.io = io /\ k.qd = qd}} |->
        a[[io |-> io, qd |-> qd, mid |-> x]]]

\* The charts in the order they are saved: hist_overall.png, then
\* hist_io_<io>.png for io in sorted(...).
ChartOrder(a) ==
    <<[kind |-> "overall"]>>
      \o [q \in 1..Cardinality({k.io : k \in DOMAIN a}) |->
            [kind |-> "io", io |-> SetToSortSeq({k.io : k \in DOMAIN a}, <)[q]]]

\* Lines 179-211: the overall curve, then one curve per IO size and QD.
\* save_plot catches any error of savefig and returns False; only the
\* charts it saved are appended to plots.
Plot ==
    /\ pc = "merge" /\ m > Len(hist_rows)
    /\ overallPct' = Percentages(overall)
    /\ seriesPct' = [t \in {[io |-> k.io, qd |-> k.qd] : k \in DOMAIN agg} |->
                        Percentages(SeriesOf(agg, t.io, t.qd))]
    /\ \E saved \in SUBSET Range(ChartOrder(agg)) :
          plots' = SelectSeq(ChartOrder(agg), LAMBDA c : c \in saved)
    /\ pc' = "done"
    /\ UNCHANGED <<files, f, r, hist_rows, m, overall, agg>>

Next == SkipFile \/ LoadRow \/ EndFile \/ EndLoad \/ MergeRow \/ Plot

Spec == Init /\ [][Next]_vars

-----------------------------------------------------------------------------
(***************************************************************************)
(* spec.md 4.7, written from the files: the samples are the rows of the    *)
(* files whose name matches, except rows with a field that is not a number *)
(* (empty fields count as 0, section 4.1); a sample's midpoint is          *)
(* (start + end) / 2 (doubled here, as in Mid).                            *)
(***************************************************************************)
SpecSamples ==
    LET named == SelectSeq(files, LAMBDA fl : fl.matched)
    IN FlattenSeq([j \in DOMAIN named |->
           LET ok == SelectSeq(named[j].rows, RowOK)
           IN [q \in DOMAIN ok |-> Sample(named[j].tag, ok[q])]])

SpecMid(s) == s.start + s.end

\* The summed count of the samples that satisfy P.
CountWhere(P(_)) == FoldLeft(LAMBDA a, s : a + s.count, 0, SelectSeq(SpecSamples, P))

\* pct is the fraction count * 100 / total (when the total is not zero).
IsShare(pct, count, total) == total # 0 => pct.num * total = 100 * count * pct.den

(***************************************************************************)
(* The overall curve (spec 4.7 a): one point per distinct midpoint of all  *)
(* samples, whatever their tags, at the summed count of that midpoint as a *)
(* percentage of the grand total.  No file at all gives no curve.          *)
(***************************************************************************)
OverallMatchesSpec ==
    pc = "done" =>
        /\ DOMAIN overallPct = {SpecMid(SpecSamples[q]) : q \in DOMAIN SpecSamples}
        /\ \A x \in DOMAIN overallPct :
              IsShare(overallPct[x], CountWhere(LAMBDA s : SpecMid(s) = x),
                      CountWhere(LAMBDA s : TRUE))

(***************************************************************************)
(* The per-IO-size curves (spec 4.7 b): one curve per (IO size, queue       *)
(* depth) present, one point per midpoint of that series, at the count     *)
(* summed over all runs as a percentage of the series' own total.          *)
(***************************************************************************)
SeriesMatchesSpec ==
    pc = "done" =>
        /\ DOMAIN seriesPct = {[io |-> s.io, qd |-> s.qd] : s \in ToSet(SpecSamples)}
        /\ \A t \in DOMAIN seriesPct :
              LET InSeries(s) == s.io = t.io /\ s.qd = t.qd
              IN /\ DOMAIN seriesPct[t] = {SpecMid(s) : s \in {s \in ToSet(SpecSamples) : InSeries(s)}}
                 /\ \A x \in DOMAIN seriesPct[t] :
                       IsShare(seriesPct[t][x],
                               CountWhere(LAMBDA s : InSeries(s) /\ SpecMid(s) = x),
                               CountWhere(InSeries))

=============================================================================
