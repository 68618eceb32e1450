--------------------------- MODULE MCPhase1Report ---------------------------
(***************************************************************************)
(* Two IO sizes and two queue depths, each possibly NaN; histogram cells   *)
(* that are empty (as is one whose only part float() drops), a single      *)
(* bucket, or two buckets.                                                 *)
(* Each histogram cell comes with one of three sets of stage cells: one    *)
(* whose device wait is positive, one whose submit and completion exceed   *)
(* the per-IO time (the wait is clamped) and whose detailed stages are all *)
(* zero, and one with NaN cells.  The detailed stage lists are cut to two  *)
(* submit columns and one completion column; the table has every stage     *)
(* column and the histogram column, lacks the completion one, or lacks   *)
(* the histogram column.                                                   *)
(***************************************************************************)
EXTENDS Phase1Report

Pair(ds, c) == [kind |-> "pair", digits |-> ds, plus |-> FALSE, count |-> c]

MCQDs   == {Num(1), Num(8), NaNV}
MCSizes == {Num(4096), Num(16384), NaNV}

Stages(sub, comp, cyc, pre, door, det) ==
    [submit |-> sub, completion |-> comp, cycles |-> cyc,
     preamble |-> pre, doorbell |-> door, detect |-> det]

Busy    == Stages(Num(2), Num(3), Num(53), Num(1), Num(3), Num(2))
Clamped == Stages(Num(6), Num(6), Num(53), Num(0), Num(0), Num(0))
Gaps    == Stages(NaNV, Num(1), NaNV, NaNV, Num(2), NaNV)

MCCells == {[hist |-> <<>>, stage |-> Gaps],
            [hist |-> <<Pair(<<1>>, 3)>>, stage |-> Busy],
            [hist |-> <<Pair(<<0>>, 1), Pair(<<1, 7>>, 1)>>, stage |-> Clamped]}

MCSubmitCols   == {"preamble", "doorbell"}
MCCompleteCols == {"detect"}

MCHeaders == {BasicCols \cup MCSubmitCols \cup MCCompleteCols \cup {HistCol},
              BasicCols \cup MCSubmitCols \cup {HistCol},
              BasicCols \cup MCSubmitCols \cup MCCompleteCols}

=============================================================================
