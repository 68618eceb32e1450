-------------------------- MODULE MCPerCoreDecoder --------------------------
(***************************************************************************)
(* Checks the per-core cell decoder against the definition of spec.md      *)
(* section 4.3, over every cell of at most MaxCellLen symbols.  The        *)
(* program decodes a cell in one call, so the state machine has a single   *)
(* step: the cell is chosen in Init and Decode applies per_core_mean.      *)
(***************************************************************************)
EXTENDS PerCoreDecoder

CONSTANTS MaxCellLen, NumVals

ASSUME MaxCellLen <= MaxFracDigits + 1

VARIABLES cell, mean, decoded

vars == <<cell, mean, decoded>>

Cells == [kind : {"none", "nan"}] \cup [kind : {"num"}, val : NumVals]
           \cup [kind : {"text"}, text : LinesUpTo(MaxCellLen, Alphabet)]

Init == cell \in Cells /\ mean = NaN /\ decoded = FALSE

\* df[col].apply(per_core_mean) applied to one cell.
Decode == ~decoded /\ mean' = PerCoreMean(cell) /\ decoded' = TRUE /\ UNCHANGED cell

Next == Decode

Spec == Init /\ [][Next]_vars

-----------------------------------------------------------------------------
(***************************************************************************)
(* Reference from spec.md 4.3, written as one left-to-right scan: a        *)
(* number token ends at a comma or at an escaped line break; tokens that   *)
(* do not parse are dropped; a numeric cell is a one-element list; a cell  *)
(* with no number is missing (NaN), never zero.                            *)
(***************************************************************************)
Emit(tok, acc) == IF FloatOK(tok) THEN Append(acc, FloatValue(tok)) ELSE acc

RECURSIVE ScanTokens(_, _, _)
ScanTokens(s, tok, acc) ==
    IF s = <<>> THEN Emit(tok, acc)
    ELSE IF Head(s) \in {COMMA, NL} THEN ScanTokens(Tail(s), <<>>, Emit(tok, acc))
    ELSE ScanTokens(Tail(s), Append(tok, Head(s)), acc)

RefValues(c) ==
    CASE c.kind = "num"  -> <<c.val>>
      [] c.kind = "text" -> ScanTokens(c.text, <<>>, <<>>)
      [] OTHER           -> <<>>

RefMean(c) ==
    IF RefValues(c) = <<>> THEN NaN
    ELSE [sum |-> FoldLeft(+, 0, RefValues(c)), n |-> Len(RefValues(c))]

(***************************************************************************)
(* per_core_mean agrees with the spec's decoding for every cell: the       *)
(* escaped "\n" marker separates values exactly like a comma, every number *)
(* on every line is counted once, and a cell with no parsable number is    *)
(* reported missing (NaN) rather than as a measured zero.                  *)
(***************************************************************************)
DecoderMatchesSpec == decoded => mean = RefMean(cell)

=============================================================================
