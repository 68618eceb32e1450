------------------------------ MODULE CsvText ------------------------------
(***************************************************************************)
(* Character-level text operators shared by the multicore CSV reader       *)
(* (src/scripts/plot_multicore.py).  A physical line is a sequence of      *)
(* symbols over a six-letter alphabet  that keeps every distinction the    *)
(* code makes:                                                             *)
(*   DIGIT  a decimal digit ("1" stands for any of 0-9)                    *)
(*   COMMA  the field separator ","                                        *)
(*   QUOTE  the quote character '"'                                        *)
(*   DOT    the decimal point "."                                         *)
(*   ALPHA  any other non-blank character (a letter, a sign, a bracket)    *)
(*   NL     the two-character escaped line break "\n" that read_multicore  *)
(*          _csv writes between joined physical lines                      *)
(* Blanks are left out: every cell the code parses is .strip()-ed first,   *)
(* so leading and trailing blanks never reach a comparison.                *)
(***************************************************************************)
EXTENDS Naturals, Sequences

DIGIT == "1"
COMMA == ","
QUOTE == "q"
DOT   == "."
ALPHA == "x"
NL    == "n"

Alphabet == {DIGIT, COMMA, QUOTE, DOT, ALPHA, NL}

\* Every line of at most n symbols, the empty line included.
LinesUpTo(n, A) == UNION {[1..m -> A] : m \in 0..n}

(***************************************************************************)
(* row_start_re = re.compile(r"^\d+,") and row_start_re.match(line):       *)
(* one or more digits at the start, immediately followed by a comma.       *)
(***************************************************************************)
IsRowStart(line) ==
    \E j \in 2..Len(line) :
        /\ line[j] = COMMA
        /\ \A m \in 1..(j - 1) : line[m] = DIGIT

(***************************************************************************)
(* next(csv.reader([text], delimiter=",", quotechar='"')): the excel       *)
(* dialect of Python's csv module, non-strict, doublequote on.  The        *)
(* tokenizer is a four-state machine; at the end of the text the field     *)
(* being read is always saved, even inside an unterminated quoted field    *)
(* (non-strict mode), and an empty text yields no field at all.            *)
(***************************************************************************)
CsvNext(st, c) ==
    CASE c = QUOTE /\ st \in {"start", "qq"} -> "quoted"
      [] c = QUOTE /\ st = "quoted"          -> "qq"
      [] st = "quoted"                       -> "quoted"
      [] c = COMMA                           -> "start"
      [] OTHER                               -> "field"

\* A comma outside quotes ends the field being read.
Separates(st, c) == c = COMMA /\ st \in {"start", "field", "qq"}

\* The character becomes part of the field: all but separators and the
\* quotes that open a quoted field or may close it ('""' keeps one).
Keeps(st, c) == ~Separates(st, c) /\ ~(c = QUOTE /\ st \in {"start", "quoted"})

RECURSIVE TokenizeFrom(_, _, _, _)
TokenizeFrom(s, st, cur, acc) ==
    IF s = <<>> THEN Append(acc, cur)
    ELSE LET c == Head(s)
         IN TokenizeFrom(Tail(s), CsvNext(st, c),
                         IF Separates(st, c) THEN <<>>
                         ELSE IF Keeps(st, c) THEN Append(cur, c) ELSE cur,
                         IF Separates(st, c) THEN Append(acc, cur) ELSE acc)

Tokenize(text) == IF text = <<>> THEN <<>> ELSE TokenizeFrom(text, "start", <<>>, <<>>)

\* The tokenizer state after reading the whole text.
RECURSIVE QuoteStateFrom(_, _)
QuoteStateFrom(s, st) ==
    IF s = <<>> THEN st ELSE QuoteStateFrom(Tail(s), CsvNext(st, Head(s)))

\* The text ends inside a quoted field that has not been closed.
EndsInOpenQuote(text) == QuoteStateFrom(text, "start") = "quoted"

=============================================================================
