---------------------------- MODULE HistogramTotal ----------------------------
(***************************************************************************)
(* What the aggregation of the completions-per-poll histograms computes,  *)
(* in the words of spec.md 3 and 4.5 rather than of the code: the total    *)
(* per bucket label of rows 1..n is the sum, over those rows, of the       *)
(* parsed counts whose key the spec's range table puts under that label.   *)
(* CompletionsHistogram checks its loop against these definitions.         *)
(***************************************************************************)
EXTENDS Integers, Sequences, SequencesExt, HistFormat

(***************************************************************************)
(* spec.md 4.5 as a table of ranges: an overflow key, or a key above the   *)
(* last range, is "17+"; every other key falls in the one range that       *)
(* holds it.                                                               *)
(***************************************************************************)
SpecRanges == <<[lo |-> 0, hi |-> 0], [lo |-> 1, hi |-> 1], [lo |-> 2, hi |-> 4],
                [lo |-> 5, hi |-> 8], [lo |-> 9, hi |-> 16]>>

SpecBucket(k) ==
    IF k.plus \/ \A r \in 1..5 : IntOf(k.digits) > SpecRanges[r].hi THEN "17+"
    ELSE Labels[CHOOSE r \in 1..5 : SpecRanges[r].lo <= IntOf(k.digits)
                                    /\ IntOf(k.digits) <= SpecRanges[r].hi]

(***************************************************************************)
(* The parsed entry of a cell as a dictionary (spec.md 3: keys are unique  *)
(* within one entry).  Its keys are the key texts of the well-formed       *)
(* pairs; a key text given twice keeps the count of its last pair, as      *)
(* out[key] = float(val) of parse_hist overwrites.                         *)
(***************************************************************************)
KeyOf(p)       == [digits |-> p.digits, plus |-> p.plus]
PairsAt(c)     == {n \in DOMAIN c : c[n].kind = "pair"}
EntryKeys(c)   == {KeyOf(c[n]) : n \in PairsAt(c)}
LastCount(c, k) == c[Max({n \in PairsAt(c) : KeyOf(c[n]) = k})].count

\* The counts of cell c whose key falls under label l.
CellCount(c, l) ==
    SumFunctionOnSet([k \in EntryKeys(c) |-> LastCount(c, k)],
                     {k \in EntryKeys(c) : SpecBucket(k) = l})

\* The counts of rows 1..n under label l.
PrefixCount(t, n, l) == FoldLeft(LAMBDA acc, r : acc + CellCount(t[r], l), 0, [r \in 1..n |-> r])

=============================================================================
