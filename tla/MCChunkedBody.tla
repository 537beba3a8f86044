--------------------------- MODULE MCChunkedBody ---------------------------
(* Messages of up to three chunks, with right and wrong sizes. *)
EXTENDS ChunkedBody

Frame(size, data) == [size |-> size, data |-> data]

\* Data without CRLF, with lone CR and LF bytes and digits in it.
One == Frame("1", <<"x">>)
Two == Frame("2", <<"y", "0">>)
LoneLF == Frame("2", <<LF, "x">>)
EndsInCR == Frame("2", <<"x", CR>>)
Swapped == Frame("3", <<"a", LF, CR>>)
TooShort == Frame("3", <<"x", "y">>)
TooLong == Frame("1", <<"x", "y">>)
NoNumber == Frame("z", <<"x">>)

PlainFrames == {One, Two, LoneLF, EndsInCR, Swapped}
AnyFrames == PlainFrames \union {TooShort, TooLong, NoNumber}

AnyMessages == BoundedSeq(AnyFrames, 2)
    \union {<<a, b, c>> : a \in {One, EndsInCR}, b \in {Two, LoneLF},
                          c \in {One, Swapped, TooShort}}

\* The end of the body, and the start of a pipelined request.
Pipelined == {<<>>, CRLF, CRLF \o <<"G", "0", CR>>}
=============================================================================
