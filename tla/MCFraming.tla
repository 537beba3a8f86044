----------------------------- MODULE MCFraming ------------------------------
(* Files and script outputs to check Framing with. *)
EXTENDS Framing

\* Empty, within a buffer, exactly one and two buffers, and beyond.
MCFiles == {[i \in 1..n |-> "b"] : n \in {0, 1, BufferSize, BufferSize + 1, 2 * BufferSize}}

\* Header lines that fit in a buffer with the blank line and that do not, a
\* blank line or none, and a body that may hold line breaks and what looks like
\* a header.
Lines == Fields \union {"junk"}
Heads ==
    UNION {[1..n -> Lines] : n \in 0..2}
    \union {<<"field", "cookie", "field">>, <<"cookie", "field", "location">>}
Bodies == {<<>>, <<"b", "crlf">>, <<"field", "crlf", "crlf", "b">>}

Text(head) == FoldLeft(LAMBDA t, l : t \o <<l, "crlf">>, <<>>, head)

MCOutputs ==
    {Text(h) \o b : h \in Heads, b \in Bodies}
    \union {Text(h) \o <<"crlf">> \o b : h \in Heads, b \in Bodies}
=============================================================================
