--------------------------- MODULE MCWindowMerger ---------------------------
(***************************************************************************)
(* Three tags (two runs of one IO size and QD, and a second QD) and a      *)
(* file whose name the regex rejects.  The rows give two different windows *)
(* with the same midpoint 5 ([0,10] and [4,6]), an empty start that makes  *)
(* [,10] fall on midpoint 5 as well, a garbled count and an empty count.   *)
(***************************************************************************)
EXTENDS WindowMerger

Tag(io, qd, run) == [io |-> io, qd |-> qd, run |-> run]

N(n)    == [kind |-> "num", val |-> n]
Blank   == [kind |-> "empty", val |-> 0]
Garbled == [kind |-> "garbled", val |-> 0]

Win(s, e, c) == [start |-> s, end |-> e, count |-> c]

MCTags == {Tag(512, 1, 1), Tag(512, 1, 2), Tag(512, 4, 1)}

MCRows == {Win(N(0), N(10), N(2)), Win(N(4), N(6), N(1)), Win(Blank, N(10), N(1)),
           Win(N(10), N(20), Garbled), Win(N(10), N(20), Blank)}

MCFiles ==
    [matched : {TRUE}, tag : MCTags, rows : UNION {[1..n -> MCRows] : n \in 0..2}]
      \cup {[matched |-> FALSE, tag |-> Tag(512, 1, 1), rows |-> <<Win(N(0), N(10), N(2))>>]}

=============================================================================
