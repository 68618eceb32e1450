# TLA+ models of the benchmark post-processing scripts

The repository's own code (`src/scripts/`) is the Python post-processing that
turns the CSV files of the SPDK/gem5 benchmarks into charts and a report. It
also includes one configuration patcher. Everything is sequential, single-threaded batch code:
there are no processes, no messages and no callbacks. What is hard about
it is data that arrives garbled: physical lines glued back into rows, cells
whose embedded line breaks are escaped, and histogram cells in a small text
format that is parsed tolerantly. The models therefore check that no measurement is lost, counted twice,
moved or invented on the way from a CSV cell to an aggregate, under every
input TLC can enumerate within the bounds.

## Inventory of the system

| Component | Code | State and operations | Interacts with |
|---|---|---|---|
| Tolerant row reconstructor | `plot_multicore.py` `read_multicore_csv` 44-117 | lines, `row_lines`, `data_rows`, the DataFrame; a scan loop (blank / row start / orphan / continuation), a parse loop (csv tokenize + right-pad), DataFrame build, column conversions | feeds the per-core decoder with cells containing the `\n` marker it wrote |
| Per-core decoder | `parse_per_core_values`, `per_core_mean` 14-41 | pure: cell -> list of floats -> mean or NaN | called per latency cell by the reconstructor |
| Histogram parser + bucketizer | `plot_phase1.py` `parse_hist` 33-48, `bucket_hist_simplified` 51-82 | pure: `"k:v, ..."` -> dict -> six buckets | the aggregation loop of `main` 535-541 and the per-QD chart 170-209 |
| Per-QD normalisation, phase-1 report loop | `plot_phase1.py` 170-209, 543-573 | per-IO-size subsets, percentages per queue depth | histogram parser |
| Stage breakdown | `plot_phase1.py` 212-340, calls in `main` 429-532 | group means turned into shares of a total | pandas groupby |
| Scalar coercion, grouped aggregator, bdev charts | `plot_bdev.py` 13-130, `plot_one` 216-293 | string cells coerced to float (missing -> 0.0), group means, the seven charts in order, `save_plot` that may fail, the report's links | the time-window merger, whose charts `plot_one` adds to the report |
| Time-window merger | `plot_bdev.py` 133-213 | windows keyed by midpoint, bucket percentages | - |
| SSD profile patcher | `apply_ssd_profile.py` | config file, `.bak` backup, in-place rewrite | the simulator config (file system) |
| Multi-core chart driver | `plot_multicore.py` 118-312 | the single-core reader, `pd.concat`, five seaborn chart loops | the row reconstructor |
| Rendering, report text, argparse | all scripts | pure output | - |

The hard behaviours are these. A continuation line can look like a row start. A row can be wider than
the header. The `\n` marker can be lost or counted twice. Keys can sit on bucket boundaries,
and a key can repeat. A NaN IO size can select an empty subset. A missing value
can be coerced to 0. The patcher can crash between the backup and the rewrite.
`PROJECT.json` lists each hazard at its source line.

## Modules

* `CsvText`: the character alphabet of the text models (digit, comma,
  quote, dot, other, escaped `\n`). It holds `IsRowStart` (the `^\d+,` regex) and
  `Tokenize`, Python's excel-dialect csv reader as a four-state machine. In
  non-strict mode an unterminated quoted field is still emitted at the end.
* `PerCoreDecoder`: `ParsePerCoreValues` and `PerCoreMean`. Numbers are
  exact integers scaled by 10^4. A mean is the pair `[sum, n]`, and NaN is `n = 0`,
  so "missing" and "measured 0" stay distinct.
* `MCPerCoreDecoder`: a one-step machine that decodes one cell. It is checked
  against a reference scanner written from spec.md 4.3.
* `RowReconstructor`: `read_multicore_csv` as a state machine. Each
  iteration of either loop is one action (`ScanBlank`, `ScanRowStart`,
  `ScanOrphan`, `ScanContinue`, `ParseRow`). `BuildFrame` is the DataFrame plus
  `to_numeric` and the latency means, and `FrameMismatch` is the ValueError
  pandas raises. `EmptyFile` is the empty-file error. The file content is chosen in `Init`.
* `HistFormat`: the pure histogram operators. A part of a histogram cell is a record: a
  well-formed pair, a count `float()` rejects, or junk. It holds `ParseHist`
  (`parse_hist`), `BucketOf` and `BucketHist` (`bucket_hist_simplified`).
* `CompletionsHistogram`: the aggregation loop of `main` (535-541) as the actions
  `EnterLoop`, `AddRow` and `EndLoop`, over rows whose cells are drawn from `Cells`.
  `Init` chooses whether the table has the histogram column (`main` 536).
* `HistogramTotal`: the bucket totals in the words of spec.md 3 and 4.5, with no
  loop. It reads a parsed cell as a dictionary on its own terms (`EntryKeys`,
  `LastCount`): a key text given twice keeps its last count. This is written without
  the recursive `ParseFrom`, so a slip in the parser shows. `PrefixCount(t, n, l)` is the
  spec's total of rows 1..n under label l; `CompletionsHistogram` takes it through
  `Ref == INSTANCE HistogramTotal` and compares the loop's running total with it after
  every row.
* `Phase1Report`: `main` of `plot_phase1.py` from the table to the report. First come the six
  stage-breakdown charts (429-532): `stage_breakdown_bar` (212-272) and
  `_stacked_stage_bar` (274-340) as the actions `NoDataChart` (no row of that
  size), `MissingColumn` (the KeyError for a missing stage column), `StageBreakdownBar`
  and `StackedStageBar`. Their values are exact fractions with a NaN flag.
  The per-QD means skip NaN as pandas does, the device wait is
  `max(0, cycles/5.3 - submit - completion)`, and each segment is a share of the
  NaN-skipping row sum. `EndStages` moves to the histogram section.
  `Init` chooses the header (which stage columns and whether the histogram column exist). Without the histogram column `NoHistColumn` ends the run (536). Otherwise come the per-IO-size loop (548-555) and
  `plot_completions_stacked_by_qd` (170-187). `StartLoop` takes `unique()`
  of the sizes, with NaN kept once. `PlotSize` draws one chart per size:
  `Subset` filters the rows, `RowShares` normalises a row, and `QDBars` is the
  per-QD mean as exact fractions, with NaN depths dropped. `EmptySubset` is the
  KeyError that `groupby` raises on an empty frame. `SaveRaises` is a `savefig`
  that raises in `save_plot` (85-88), which has no `try`: at any chart main() is
  about to save, main() ends in `failed`. The constant `SaveMayRaise` turns
  this fault on.
* `GroupMean`: `plot_one` of `plot_bdev.py` for the results table.
  `LoadRow` (`load_results`) coerces a cell: a number, NaN, or 0.0 for a missing or garbled
  value. With `make_plots`, the charts of the constant `Charts` are drawn in order. Each
  chart lists its metric columns: one for `lineplot`, several for `lineplot_melt`.
  `SkipChart` is the early return when there are no rows or none of the chart's
  columns (`ValidY`). `StartChart` and `PlotLine` draw one line per metric and hue
  value, using `_group_mean` (`GroupMeanOp`, which skips a row lacking a column
  as the `KeyError` handler does). `SaveChart` and `SaveFailed` are `save_plot`
  succeeding or swallowing an exception and returning None. This is the fault model:
  any save may fail. `WriteReport` links the paths that came back.
  A NaN is tagged with the row it came from. TLA+ equality is then Python's
  container identity (a set or dict key), and `PyEq` is `==`.
* `WindowMerger`: `load_histograms` and `plot_histograms` of `plot_bdev.py`.
  `SkipFile`/`LoadRow`/`EndFile` read the files, skip a name the regex
  rejects, and drop a row with a field `float()` rejects. `MergeRow` is one
  iteration of the summing loop, and `Plot` turns each series into
  percentages of its total (`or 1.0`). A midpoint is kept doubled, so it stays an integer.
  `Plot` also saves the charts in `ChartOrder` (the overall chart, then one per IO size in
  ascending order). Any save may fail, because `save_plot` returns False on any error, and
  `plots` keeps the charts that were saved.
* `SsdProfile`: `apply_ssd_profile.py`. `load_profile` (units, `round` to even)
  and the line patcher are operators. A run is the actions `StartRun` (or
  `ProfileRejected`), `OpenBackup`/`SkipBackup`, `WriteBakLine`,
  `CloseBackup`, `OpenConfig`, `WriteConfigLine` and `FinishRun`. `Crash` may end a run
  at any point and leaves both files as written so far. The script may be run
  again and again (`MaxRuns`).

`MC*` modules give the constants finite values. The fault variants in the
modules (`UnescapeSkipped`, `PadRowShort`, `PadRowWithNone`,
`ScanContinueNoMarker`, `BucketOfNineToFifteen`, `ParseFromFirstWins`, `SubsetUnfiltered`, `ColMeanKeepNaN`, `SaveSwallowed`,
`GroupMeanOverwrite`, `MidNoBrackets`, `MergeRowRunKey`, `OpenBackupAlways`,
`PatchKeepingOld`, `ToNsTruncated`) are plausible slips of the
same code. Substituting one of them makes the property of its run fail.

## Runs

| Run | Checks | Result |
|---|---|---|
| `MCPerCoreDecoder.cfg` | `DecoderMatchesSpec`: for every cell (None, NaN, number, or any text of up to 4 symbols over the whole alphabet), `per_core_mean` equals the spec's decoding. The `\n` marker separates like a comma, and a cell with no number is NaN. | passes |
| `MCRowReconstructor.cfg` | `TypeOK`. `LinesConserved`: at every step the logical rows are one per row-start line, and joined they spell exactly the non-blank lines since the first row start. `FrameMatchesHeader`: every frame row is its csv tokens right-padded with empty cells to the header width. | passes (about 90k states) |
| `MCRowReconstructor_RowsCloseQuotes.cfg` | no closed logical row ends inside an open quote | **violated**: `1,"` followed by `1,` makes the second line of a quoted per-core list a new row |
| `MCRowReconstructor_NoRowRaises.cfg` | a garbled row never aborts the read (spec.md section 7) | **violated**: the line `1,,` under a two-column header has 3 cells, so `pd.DataFrame` raises |
| `MCCompletionsHistogram.cfg` | `AggregateMatchesSpec`: after every row, each of the six totals equals the sum of the parsed counts whose key the spec's range table puts in that bucket. | passes (about 66k states) |
| `MCPhase1Report.cfg` | `BarsMatchSpec`: every stacked bar of an IO size and queue depth is, per bucket, the mean share over exactly the rows with that pair. No bar is drawn for a pair no row has. No bar at all is drawn if the table lacks the histogram column. `StagesMatchSpec`: every stage-breakdown chart has one bar per queue depth of its size's rows, and each segment is that stage's NaN-skipping mean (the wait clamped at 0) as a share of the bar's total. Any `savefig` may raise, and the properties hold anyway: a save that fails ends `main()`, so it never goes past a chart it did not save. | passes (about 910k states) |
| `MCPhase1Report_ReportNeverAborts.cfg` | `main()` never ends in an exception (spec.md sections 6 and 7: an empty series is tolerated, and a missing column is a skip) | **violated** (save failures off): the shortest trace is a table without the `detect` column and with a 4096 B row. `_stacked_stage_bar` raises KeyError before `report.md` is written. With every column present, a row with a NaN IO size does the same: NaN in `unique()` selects an empty subset and `groupby` raises |
| `MCGroupMean.cfg` | `MeansMatchSpec`: in every chart, for every metric of it the table has, each (IO size, queue depth) pair with numbers is one point at the mean over all its rows. A NaN metric makes the mean NaN, and a missing metric counts as 0.0. | passes (about 910k states) |
| `MCGroupMean_EveryRecordPlotted.cfg` | every record appears in some line of every chart drawn for a metric it has | **violated**: rows whose IO size is NaN match no hue value (`NaN == NaN` is False) and vanish |
| `MCWindowMerger.cfg` | `OverallMatchesSpec` and `SeriesMatchesSpec`: the overall curve and each (IO size, QD) curve have one point per midpoint. Each point is that midpoint's summed count as a share of the curve's total, over the rows of matching files with well-formed fields. | passes (about 100k states) |
| `MCSsdProfile.cfg` | `BackupHoldsOriginal`: through any runs and crashes, the `.bak` is the original config or a prefix of it. `ConfigLinesFromOriginal`: the config never gains or reorders lines, and each line is the original or the original patched by a profile. `PatchedValuesNearest`: every changed value is within half a nanosecond of the latency the profile gives for that operation. | passes (about 910k states) |
| `MCSsdProfile_OriginalRecoverable.cfg` | the original config is always held by the backup or by the config | **violated**: a crash while the `.bak` is written, then a run that skips the existing partial `.bak` and rewrites the config, loses the original |

### Bounds

* Decoder: cells of up to 4 symbols over all six symbols. That covers every
  pair of separators, a dot before, after and between digits, and a marker
  at both ends.
* Reconstructor: up to 2 data lines of up to 3 symbols over digit, comma,
  quote and marker. The headers have 2 or 3 columns and include a latency column.
  This reaches blank lines, orphans, continuations, quoted fields,
  padding, too-wide rows and quote-spanning rows, each in both orders.
* Histogram: up to 3 rows. A cell is empty, a single part (keys at every bucket
  boundary 0, 1, 2, 4, 5, 8, 9, 16, 17, a leading-zero key, two overflow keys,
  a count `float()` rejects, junk), or one of 7 curated two-part cells: a repeated
  key with two different counts, two keys of one bucket, a key beside its overflow, and junk or a bad count
  beside a good pair. Three rows make the total a sum of sums, which is where a dropped or
  repeated row would show.
* Phase-1 report: up to 3 rows over depths {1, 8, NaN} and sizes {4096, 16384, NaN}. Each row
  has one of 3 cells, each a histogram cell paired with stage values. One is
  busy. One is clamped (submit + completion exceed cycles/5.3). One has
  gaps: NaN submit, cycles and preamble, so the mean of that stage is
  NaN or skips the NaN. There are three headers: all columns, no `detect` column, or no histogram column. Without the histogram column, `NoHistColumn` skips the whole histogram section (`main` 536).
  Save failures are on in the passing run.
  Three rows give two rows of one (size, depth) pair, so a mean over a NaN and a
  number occurs.
* Group mean: up to 3 rows over depths {1, 2, NaN}, IOPS {10, blank, the text "nan"},
  a latency {5, "nan"} and sizes {512, 4096, NaN}. There are two charts: IOPS alone (`lineplot`) and
  IOPS with the latency (`lineplot_melt`). There are four headers: both keys, no IO size, no
  metric at all (both charts skip), and the latency without IOPS (the line chart
  skips and the melt draws one metric). `make_plots` is either value, and either save may fail.
  10 and a blank give a mean of 5, which differs from either value, so an overwritten bucket shows.
* Window merger: up to 2 files out of 3 tags (two runs of one series and
  another QD) and an unmatched name, with up to 2 rows per file out of 5: two windows with one
  midpoint, an empty start that falls on the same midpoint, a garbled count and an empty count.
* Profile patcher: in the passing run, configs of up to 3 lines over 2 keys, in either spacing,
  plus a line that is not a key. There are 3 profiles: a half-ns tie that `round` sends to even,
  an upper-case unit, and an unsupported unit. Up to 4 runs and 2 crashes, so
  a run can crash while writing the backup and another while rewriting the config, each
  followed by a re-run with a different profile. The violation run keeps 2 lines, 3 runs and 1 crash,
  which is enough for its shortest trace.

### Fairness

No model assumes fairness, and no run checks a liveness property. Every loop in these
scripts is a Python `for` over a finite list, file or column, with no lock, wait or
external event, so it ends by construction; a `<>done` would hold by the shape of the
model and say nothing about the code.
The models end in a final state with
`CHECK_DEADLOCK FALSE`, because stopping there is the program's normal exit.
The patcher model also stops once `MaxRuns` runs have been made. Nothing
forces a crash or a re-run, so no liveness claim about recovery would be justified.

## Not modelled

The multi-core chart driver (`plot_multicore.py` 118-312) is not modelled. Each of its charts is
one `sns.lineplot` call. Its grouping, its hue levels and its handling of NaN keys are
seaborn's estimator, which is not in this repository, so a model of those charts would be
written from seaborn, not from this code. The code around the calls is a sorted loop over IO sizes
and column checks. Its two hazards (the unchecked columns of `plot_iops`, and `Core_Count`
being added only for single-core tables) are listed in `PROJECT.json` without a property.
The basic line charts of `plot_phase1.py` (90-130, 372-428) are not modelled for the same
reason. Their `save_plot` calls can fail like any other, and `SaveRaises` models that for the charts `Phase1Report` has.
The histogram charts that `plot_bdev.py`'s `plot_one` appends to its report come from
`WindowMerger`. That module is not composed into `GroupMean`: its files are independent of the
results table, and the product of the two state spaces is far beyond the bounds used here.

Rendering, report text and argument parsing are not modelled: they are pure output with no state a
property could tell apart. pandas/numpy internals are abstracted to the
behaviour the code relies on: `to_numeric` with coerce, the row-width check
of the DataFrame constructor, and `np.mean` as an exact `[sum, n]`.

Some hazards in `PROJECT.json` have no property:

* Negative counts (`plot_phase1.py` 40, `plot_bdev.py` 180). The pattern admits `-`, so a
  bucket or a window total can be negative or zero while its counts are not, and a
  "percentage" can leave [0, 100]. The models admit negative counts (`Int`), but the instances
  use non-negative ones. Stating the spec's non-negative counts would take a run that is
  expected to fail, and this project uses all of its 12 runs.
* `PLOTS_DIR` against `--out` (`plot_phase1.py` 114, 342). Charts go to `./plots` and the
  report goes to `--out`. With another `--out` and no `./plots`, every save raises.
  `SaveRaises` covers a save that raises, but whether every save fails is a fact about the
  file system, outside the model's state.
* Rules the code picks where the spec is silent or contradicts itself: a repeated key
  keeps its last count (`plot_phase1.py` 45), a row without a parsable histogram is a 0%
  row in its bar (181), a coerced 0.0 is averaged in (`plot_bdev.py` 128), an empty start
  moves a window's midpoint (152), and a NaN queue depth is one bucket per row (53). The
  properties follow the code there, so they fix the rule rather than catch it.
* A failed save in `plot_one` (`plot_bdev.py` 18) and `plot_histograms`' list of saved
  charts. `SaveFailed` and `Plot` model them, but a property of the report or of `plots`
  would only restate `WriteReport`'s filter or `Plot`'s `SelectSeq`.
* Float midpoints (`plot_bdev.py` 173). Window bounds are integers in the model, so the
  rounding of fractional bounds is not represented.

## Open work, and why it is not done

1. Refinement for the window merger. `OverallMatchesSpec` and `SeriesMatchesSpec` already
   compare the final curves with the spec's sums over the files. A one-step abstract
   merger would say the same thing again.
2. Liveness. Every loop in these scripts is a Python `for` over a finite list or
   file, so each one ends by construction; no run states a `<>` property.
3. Composing `CompletionsHistogram` into `Phase1Report`. The `Phase1Report` run already has
   about 910k states and takes 85 s. A loop step per row inside it would multiply the
   states beyond what a mutant run can finish.
