--------------------------- MODULE PerCoreDecoder ---------------------------
(***************************************************************************)
(* The per-core cell decoder of src/scripts/plot_multicore.py:            *)
(* parse_per_core_values and per_core_mean.  A cell is None, a number, a   *)
(* pandas NaN, or a text over the CsvText alphabet.  Numbers are kept      *)
(* exactly as integers scaled by 10^MaxFracDigits, so that means can be    *)
(* compared without rounding; a mean is the pair [sum, n] (n = 0: NaN).   *)
(***************************************************************************)
EXTENDS Naturals, Sequences, CsvText, SequencesExt

\* The largest number of digits after the decimal point a parsed token has.
MaxFracDigits == 4

\* The real line break that "\\n" is turned into.
BR == "br"

\* NaN, the missing value: the mean of no values, kept apart from a measured 0.
NaN == [sum |-> 0, n |-> 0]

Cell == [kind : {"none", "nan"}] \cup [kind : {"num"}, val : Nat]
          \cup [kind : {"text"}, text : Seq(Alphabet)]

(***************************************************************************)
(* float(part) on a stripped, non-empty part: digits with at most one      *)
(* decimal point and at least one digit ("1.", ".1" and "1" parse, "." and *)
(* "1.1." do not).  Any other character makes float() raise ValueError.    *)
(***************************************************************************)
FloatOK(p) ==
    /\ \A j \in DOMAIN p : p[j] \in {DIGIT, DOT}
    /\ \E j \in DOMAIN p : p[j] = DIGIT
    /\ \A i, j \in DOMAIN p : p[i] = DOT /\ p[j] = DOT => i = j

Repunit(n) == (10^n - 1) \div 9

\* The parsed value, scaled by 10^MaxFracDigits (every digit is a 1).
FloatValue(p) ==
    LET dot  == IF \E j \in DOMAIN p : p[j] = DOT
                THEN CHOOSE j \in DOMAIN p : p[j] = DOT ELSE Len(p) + 1
        frac == Len(p) - dot
    IN Repunit(dot - 1) * 10^MaxFracDigits
         + (IF frac > 0 THEN Repunit(frac) * 10^(MaxFracDigits - frac) ELSE 0)

\* s.split(sep): the pieces between separators, empty pieces included.
RECURSIVE SplitOn(_, _)
SplitOn(s, sep) ==
    IF \E j \in DOMAIN s : s[j] = sep
    THEN LET j == CHOOSE j \in DOMAIN s : s[j] = sep /\ \A m \in 1..(j - 1) : s[m] # sep
         IN <<SubSeq(s, 1, j - 1)>> \o SplitOn(SubSeq(s, j + 1, Len(s)), sep)
    ELSE <<s>>

\* Fault variant: the escaped marker is left in the text.
UnescapeSkipped(text) == text

\* text.replace("\\r", "\r").replace("\\n", "\n")
Unescape(text) == [j \in DOMAIN text |-> IF text[j] = NL THEN BR ELSE text[j]]

\* The values of one line: its non-empty comma-separated parts that parse.
LineValues(line) ==
    LET parts == SelectSeq(SplitOn(line, COMMA), LAMBDA p : p # <<>>)
        nums  == SelectSeq(parts, FloatOK)
    IN [j \in DOMAIN nums |-> FloatValue(nums[j])]

ParsePerCoreValues(cell) ==
    CASE cell.kind \in {"none", "nan"} -> <<>>
      [] cell.kind = "num"             -> <<cell.val>>
      [] OTHER ->
           LET text == Unescape(cell.text)
               lines == SplitOn(text, BR)
           IN IF text = <<>> THEN <<>>
              ELSE FlattenSeq([l \in DOMAIN lines |-> LineValues(lines[l])])

\* per_core_mean: NaN for no values, else the mean, as [sum, n].
PerCoreMean(cell) ==
    LET vs == ParsePerCoreValues(cell)
    IN IF vs = <<>> THEN NaN
       ELSE [sum |-> FoldLeft(+, 0, vs), n |-> Len(vs)]

=============================================================================
