----------------------- MODULE MCCompletionsHistogram -----------------------
EXTENDS CompletionsHistogram

Pair(ds, plus, c) == [kind |-> "pair", digits |-> ds, plus |-> plus, count |-> c]

BadNum == [kind |-> "badnum", digits |-> <<2>>, plus |-> FALSE]
Junk   == [kind |-> "junk"]

\* Keys on both sides of every bucket boundary, "01" next to "1", two
\* overflow keys ("1+" and "32+"), a count float() rejects and a part
\* the pattern does not match.
MCParts ==
    {Pair(ds, FALSE, 1) : ds \in {<<0>>, <<1>>, <<0, 1>>, <<2>>, <<4>>, <<5>>,
                                  <<8>>, <<9>>, <<1, 6>>, <<1, 7>>}}
    \cup {Pair(<<1>>, TRUE, 1), Pair(<<3, 2>>, TRUE, 1)}
    \cup {BadNum, Junk}

\* Every part alone, and the two-part cells in which parse_hist's dict
\* matters: a repeated key with two counts, "01" and "1", "1" and "1+", a skipped part
\* before a pair, and two keys on either side of a bucket boundary.
MCCells ==
    {<<>>} \cup {<<p>> : p \in MCParts}
    \cup {<<Pair(<<0>>, FALSE, 1), Pair(<<0>>, FALSE, 2)>>,
          <<Pair(<<0, 1>>, FALSE, 1), Pair(<<1>>, FALSE, 1)>>,
          <<Pair(<<1>>, TRUE, 1), Pair(<<1>>, FALSE, 1)>>,
          <<Junk, Pair(<<9>>, FALSE, 1)>>, <<BadNum, Pair(<<1, 6>>, FALSE, 1)>>,
          <<Pair(<<1, 6>>, FALSE, 1), Pair(<<1, 7>>, FALSE, 1)>>,
          <<Pair(<<4>>, FALSE, 1), Pair(<<5>>, FALSE, 1)>>}
=============================================================================
