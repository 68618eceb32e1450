------------------------ MODULE CompletionsHistogram ------------------------
(***************************************************************************)
(* The aggregation of the completions-per-poll histograms in main() of     *)
(* src/scripts/plot_phase1.py: every row's cell is parsed and bucketed     *)
(* (HistFormat) and summed into agg_hist_total.                            *)
(***************************************************************************)
EXTENDS Integers, Sequences, SequencesExt, FiniteSets, HistFormat

CONSTANTS
    Cells,      \* the histogram cells a row may hold (sequences of parts)
    MaxRows     \* bound: rows of the results table

ASSUME Cells \subseteq Seq(Part)

-----------------------------------------------------------------------------
(***************************************************************************)
(* main(), lines 535-541: if the histogram column exists, every row's cell *)
(* is parsed, bucketed and added into agg_hist_total, which starts as {}   *)
(* and holds all six labels after the first row.                           *)
(***************************************************************************)
VARIABLES
    rows,     \* df["Completions_Per_Poll_Hist"], one cell per row
    has_col,  \* "Completions_Per_Poll_Hist" in df.columns
    j,        \* the next row the loop reads
    agg,      \* agg_hist_total
    pc        \* "start", "sum" or "done"

vars == <<rows, has_col, j, agg, pc>>

Tables == UNION {[1..n -> Cells] : n \in 0..MaxRows}

\* Without the histogram column the table has no histogram cells.
Init ==
    /\ has_col \in BOOLEAN /\ rows \in IF has_col THEN Tables ELSE {<<>>}
    /\ j = 1 /\ agg = [b \in {} |-> 0] /\ pc = "start"

\* if "Completions_Per_Poll_Hist" in df.columns: (else the block is skipped)
EnterLoop ==
    /\ pc = "start"
    /\ pc' = IF has_col THEN "sum" ELSE "done"
    /\ UNCHANGED <<rows, has_col, j, agg>>

\* raw = parse_hist(str(v)); b_hist = bucket_hist_simplified(raw);
\* agg_hist_total[k] = agg_hist_total.get(k, 0.0) + val for every label
AddRow ==
    /\ pc = "sum" /\ j <= Len(rows)
    /\ LET b == BucketHist(ParseHist(rows[j]))
       IN agg' = [l \in Label |-> (IF l \in DOMAIN agg THEN agg[l] ELSE 0) + b[l]]
    /\ j' = j + 1
    /\ UNCHANGED <<rows, has_col, pc>>

EndLoop ==
    /\ pc = "sum" /\ j > Len(rows)
    /\ pc' = "done"
    /\ UNCHANGED <<rows, has_col, j, agg>>

Next == EnterLoop \/ AddRow \/ EndLoop

Spec == Init /\ [][Next]_vars

\* The spec's definitions of the bucket totals.
Ref == INSTANCE HistogramTotal

-----------------------------------------------------------------------------
TypeOK ==
    /\ rows \in Tables /\ has_col \in BOOLEAN
    /\ j \in 1..(MaxRows + 1) /\ pc \in {"start", "sum", "done"}
    /\ DOMAIN agg \in {{}, Label} /\ \A l \in DOMAIN agg : agg[l] \in Int

\* The count the rows read so far put in label l under the spec's ranges.
SpecTotal(l) == Ref!PrefixCount(rows, j - 1, l)

(***************************************************************************)
(* After every row the loop has read, agg_hist_total holds, per label,     *)
(* exactly the counts of the parsed entries of those rows whose key falls  *)
(* in that label's range: no count is lost (the sum of the six buckets is  *)
(* the sum of the parsed counts, spec.md section 3), none is counted       *)
(* twice, and none lands in a neighbouring bucket.                         *)
(***************************************************************************)
AggregateMatchesSpec ==
    /\ DOMAIN agg = IF j > 1 THEN Label ELSE {}
    /\ \A l \in DOMAIN agg : agg[l] = SpecTotal(l)

=============================================================================
