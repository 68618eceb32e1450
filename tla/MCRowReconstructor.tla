------------------------- MODULE MCRowReconstructor -------------------------
EXTENDS RowReconstructor

\* A numeric ID column, a per-core latency column and a plain text column.
MCHeaders == {<<"num", "lat">>, <<"num", "lat", "str">>}

\* The header row of the garbled-row run: one numeric ID and one latency.
MCNarrowHeaders == {<<"num", "lat">>}

MCLineAlphabet == {DIGIT, COMMA, QUOTE, NL}
=============================================================================
