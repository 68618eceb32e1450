---------------------------- MODULE MCSsdProfile ----------------------------
(***************************************************************************)
(* Two of the seven keys, one read and one erase key, and three profiles:  *)
(* one whose values round to a tie (2.5 ns -> 2, 0.5 ns -> 0), one with    *)
(* 4.6 ns (rounds up) and upper-case microseconds, and one with an         *)
(* unsupported unit.                                                       *)
(***************************************************************************)
EXTENDS SsdProfile

MCKeys == {"LSBRead", "Erase"}

MCKeyGroup == [LSBRead |-> "read", Erase |-> "erase"]

MCVals == {2, 7}

Entry(t, u) == [tenths |-> t, unit |-> u]

MCProfiles ==
    { [read |-> Entry(25, "ns"), program |-> Entry(10, "none"), erase |-> Entry(5, "ns")],
      [read |-> Entry(46, "ns"), program |-> Entry(10, "US"), erase |-> Entry(20, "US")],
      [read |-> Entry(10, "s"), program |-> Entry(10, "ns"), erase |-> Entry(10, "ms")] }

=============================================================================
