---------------------------- MODULE MCGroupMean -----------------------------
(***************************************************************************)
(* Queue depths 1 and 2, IO sizes 512 and 4096, an IOPS of 10, a latency   *)
(* of 5; any cell may also hold the text "nan", and an IOPS cell may be    *)
(* empty.  Two charts: IOPS alone (lineplot) and IOPS with the latency     *)
(* (lineplot_melt).  The header has both key columns, lacks the IO size,   *)
(* lacks every metric, or has the latency but not IOPS.                    *)
(***************************************************************************)
EXTENDS GroupMean

N(n)    == [kind |-> "num", val |-> n]
NaNText == [kind |-> "nan", val |-> 0]
Blank   == [kind |-> "empty", val |-> 0]

MCCells ==
    [qd   |-> {N(1), N(2), NaNText},
     iops |-> {N(10), Blank, NaNText},
     lat  |-> {N(5), NaNText},
     size |-> {N(512), N(4096), NaNText},
     hist |-> {Blank}]

MCCharts == <<<<"iops">>, <<"iops", "lat">>>>

MCHeaders == {{"qd", "iops", "size", "hist"}, {"qd", "iops", "hist"},
              {"qd", "size", "hist"}, {"qd", "lat", "size", "hist"}}

=============================================================================
