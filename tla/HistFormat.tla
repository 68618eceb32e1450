------------------------------ MODULE HistFormat ------------------------------
(***************************************************************************)
(* The completions-per-poll histogram mini-format of                       *)
(* src/scripts/plot_phase1.py: parse_hist ("key:count, ..." to a dict)     *)
(* and bucket_hist_simplified (six fixed buckets).                         *)
(*                                                                         *)
(* A histogram cell is abstracted to its comma-separated parts.  A part    *)
(* that matches ^(\d+\+?):\s*([0-9eE+.-]+)$ is a "pair" with the digits of *)
(* its key, whether the key ends in "+", and its count; it is "badnum"    *)
(* when the count text matches the pattern but float() rejects it ("1e",   *)
(* "--"); any other part is "junk".  Counts are integers (possibly         *)
(* negative: the pattern admits "-").                                      *)
(***************************************************************************)
EXTENDS Integers, Sequences, SequencesExt

Digits == Seq(0..9)

Part == [kind : {"pair"}, digits : Digits, plus : BOOLEAN, count : Int]
          \cup [kind : {"badnum"}, digits : Digits, plus : BOOLEAN]
          \cup [kind : {"junk"}]

Labels == <<"Empty (0)", "Single (1)", "2-4", "5-8", "9-16", "17+">>
Label  == {Labels[j] : j \in 1..6}

\* int(k) for a key text of decimal digits (leading zeros allowed).
IntOf(ds) == FoldLeft(LAMBDA acc, d : 10 * acc + d, 0, ds)

(***************************************************************************)
(* parse_hist: the parts that match and whose count parses, in order; a    *)
(* later part with the same key text overwrites the earlier one           *)
(* (out[key] = float(val)).                                                *)
(***************************************************************************)
Matches(p) == p.kind = "pair"

\* Fault variant: a repeated key keeps its first count (out.setdefault).
RECURSIVE ParseFromFirstWins(_, _)
ParseFromFirstWins(ps, out) ==
    IF ps = <<>> THEN out
    ELSE LET p == Head(ps)
             k == [digits |-> p.digits, plus |-> p.plus]
         IN IF Matches(p) /\ k \notin DOMAIN out
            THEN ParseFromFirstWins(Tail(ps), out @@ (k :> p.count))
            ELSE ParseFromFirstWins(Tail(ps), out)

RECURSIVE ParseFrom(_, _)
ParseFrom(ps, out) ==
    IF ps = <<>> THEN out
    ELSE LET p == Head(ps)
             k == [digits |-> p.digits, plus |-> p.plus]
         IN IF Matches(p)
            THEN ParseFrom(Tail(ps), [x \in DOMAIN out \cup {k} |->
                                         IF x = k THEN p.count ELSE out[x]])
            ELSE ParseFrom(Tail(ps), out)

ParseHist(cell) == ParseFrom(cell, [x \in {} |-> 0])

\* Fault variant: the "9-16" range written as 9 <= i <= 15.
BucketOfNineToFifteen(k) ==
    IF k.plus THEN "17+"
    ELSE LET n == IntOf(k.digits)
         IN CASE n = 0            -> "Empty (0)"
              [] n = 1            -> "Single (1)"
              [] 2 <= n /\ n <= 4  -> "2-4"
              [] 5 <= n /\ n <= 8  -> "5-8"
              [] 9 <= n /\ n <= 15 -> "9-16"
              [] OTHER            -> "17+"

(***************************************************************************)
(* bucket_hist_simplified: "+" keys go to "17+"; otherwise the bucket is   *)
(* chosen by int(k) in the order of the if/elif chain.                     *)
(***************************************************************************)
BucketOf(k) ==
    IF k.plus THEN "17+"
    ELSE LET n == IntOf(k.digits)
         IN CASE n = 0            -> "Empty (0)"
              [] n = 1            -> "Single (1)"
              [] 2 <= n /\ n <= 4  -> "2-4"
              [] 5 <= n /\ n <= 8  -> "5-8"
              [] 9 <= n /\ n <= 16 -> "9-16"
              [] OTHER            -> "17+"

BucketHist(h) ==
    [b \in Label |-> SumFunctionOnSet(h, {k \in DOMAIN h : BucketOf(k) = b})]

=============================================================================
