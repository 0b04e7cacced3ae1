------------------------------- MODULE MCFraming -------------------------------
EXTENDS Framing

\* Distinct cells, so that a slice moved by one is seen.
Bytes(n, from) == [i \in 1 .. n |-> from + i]
Request(id, m, p) == [request_id |-> id, metadata |-> Bytes(m, 0), payload |-> Bytes(p, 2)]

\* A header that serializes to nothing, the smallest frame, the largest, one that is too
\* large, and one whose metadata makes the length wrap to that of a legal frame.
MCRequests == {Request(0, 0, 0), Request(2, 0, 0), Request(2, 1, 1), Request(2, 0, 3), Request(3, 5, 0)}
\* Answers up to the largest frame, one too large, and one whose length wraps.
MCPayloads == {<<>>, <<1, 2>>, <<1, 2, 3>>, Bytes(6, 0)}

\* Any two cells, and frames of a legal length whose inner lengths are at the edges.
Edge == {0, 1, 2, 7}
MCStrange ==
    {<<n, h>> : n, h \in Cells}
    \cup {<<4, h, 1, a, b>> : h \in {0, 2, 3, 4, 7}, a, b \in Edge}
    \cup {<<6, 3, 1, a, b, 1, 2>> : a, b \in Edge \cup {3}}
=============================================================================
