---------------------------- MODULE ChunkedBody ----------------------------
(***************************************************************************)
(* Request::_parseChunked byte by byte: a chunked body that arrives in     *)
(* reads of any length, the line that getLine stashes between two reads,   *)
(* and the counter that is compared with the host's body_max_size.         *)
(*                                                                         *)
(* The peer sends frames: a size line, data, CRLF.  After the last frame   *)
(* come the terminating "0" CRLF and whatever else the peer sends.  A size *)
(* is one byte here, a digit or not a number; data is any bytes.           *)
(***************************************************************************)
EXTENDS Integers, Sequences, SequencesExt

CONSTANTS
    Messages,       \* the sequences of frames the peer may send
    Followers,      \* what it may send after the terminating chunk
    BodyMaxSize     \* Request::_body_max_size

CR == "CR"
LF == "LF"
CRLF == <<CR, LF>>

ASSUME ChunkedAssumption ==
    /\ Messages \subseteq Seq([size : STRING, data : Seq(STRING)])
    /\ Followers \subseteq Seq(STRING)
    /\ BodyMaxSize \in Nat

\* Size lines and their values; "z" is not a number.
Digits == {"0", "1", "2", "3", "4"}
Value == [d \in Digits |->
    CASE d = "0" -> 0 [] d = "1" -> 1 [] d = "2" -> 2 [] d = "3" -> 3
      [] d = "4" -> 4]

VARIABLES
    message,    \* the frames sent
    wire,       \* their bytes, the terminating chunk and what follows
    sent,       \* bytes of wire read so far
    parser,     \* the fields of Request
    buffer      \* Client::_buffer after the last call

vars == <<message, wire, sent, parser, buffer>>

Bytes(frame) == <<frame.size>> \o CRLF \o frame.data \o CRLF

Encode(frames) == FlattenSeq([i \in DOMAIN frames |-> Bytes(frames[i])])

LastChunk == <<"0">> \o CRLF

-----------------------------------------------------------------------------
(***************************************************************************)
(* The parser.  A step has the new fields and what is left of the buffer.  *)
(***************************************************************************)
NewParser ==
    [line |-> <<>>,             \* _line
     len |-> 0,                 \* _len
     inChunk |-> FALSE,         \* _chunked_status
     size |-> 0,                \* _chunked_body_size
     done |-> FALSE,            \* _b_status = TERM
     error |-> 0,               \* status of a refusal
     written |-> <<>>]          \* what is in the body file

Step(p, buf) == [p |-> p, buf |-> buf]

FillError(p, st) == [p EXCEPT !.line = <<>>, !.error = st]

CheckSizes(p) == IF p.size > BodyMaxSize THEN FillError(p, 413) ELSE p

\* Where s has a CRLF.
Ends(s) == {i \in 1..(Len(s) - 1) : s[i] = CR /\ s[i + 1] = LF}

FirstEnd(s) == CHOOSE i \in Ends(s) : \A k \in Ends(s) : i <= k

\* Mutant: the stash is forgotten.
MutGetLine(p, buf) ==
    IF Ends(buf) = {} THEN Step([p EXCEPT !.line = buf], <<>>)
    ELSE Step([p EXCEPT !.line = SubSeq(buf, 1, FirstEnd(buf) - 1)],
              SubSeq(buf, FirstEnd(buf) + 2, Len(buf)))

\* Up to the first CRLF; without one everything is stashed.
GetLine(p, buf) ==
    LET all == p.line \o buf
    IN IF Ends(all) = {} THEN Step([p EXCEPT !.line = all], <<>>)
       ELSE Step([p EXCEPT !.line = SubSeq(all, 1, FirstEnd(all) - 1)],
                 SubSeq(all, FirstEnd(all) + 2, Len(all)))

HasLine(p, buf) == Ends(p.line \o buf) # {}

\* Mutant: the CRLF of the size line counts as body.
MutGetChunkedSize(p, buf) ==
    LET l == GetLine(p, buf)
    IN IF p.inChunk THEN Step(p, buf)
       ELSE IF ~HasLine(p, buf) THEN l
       ELSE IF l.p.line \notin {<<d>> : d \in Digits}
       THEN Step(FillError(l.p, 400), l.buf)
       ELSE Step([l.p EXCEPT !.size = @ - Len(l.p.line),
                             !.len = Value[l.p.line[1]],
                             !.line = <<>>, !.inChunk = TRUE], l.buf)

GetChunkedSize(p, buf) ==
    LET l == GetLine(p, buf)
    IN IF p.inChunk THEN Step(p, buf)
       ELSE IF ~HasLine(p, buf) THEN l
       ELSE IF l.p.line \notin {<<d>> : d \in Digits}
       THEN Step(FillError(l.p, 400), l.buf)
       ELSE Step([l.p EXCEPT !.size = @ - (Len(l.p.line) + Len(CRLF)),
                             !.len = Value[l.p.line[1]],
                             !.line = <<>>, !.inChunk = TRUE], l.buf)

\* Mutant: a chunk may be shorter than announced.
MutWriteChunk(p) ==
    IF Len(p.line) > p.len THEN FillError(p, 400)
    ELSE [p EXCEPT !.written = @ \o p.line, !.line = <<>>, !.len = -1,
                   !.inChunk = FALSE]

\* The line read is the data of the current chunk.
WriteChunk(p) ==
    IF Len(p.line) # p.len THEN FillError(p, 400)
    ELSE [p EXCEPT !.written = @ \o p.line, !.line = <<>>, !.len = -1,
                   !.inChunk = FALSE]

\* A turn of the loop of _parseChunked.  Without more it has returned.
Return(p, buf) == [p |-> p, buf |-> buf, more |-> FALSE]

Turn(p, buf) ==
    LET q == GetChunkedSize(p, buf)
        l == GetLine(q.p, q.buf)
        w == WriteChunk(l.p)
    IN IF buf = <<>> THEN Return(CheckSizes(p), buf)
       ELSE IF q.p.error # 0 THEN Return(q.p, q.buf)
       ELSE IF q.p.inChunk /\ q.p.len = 0
       THEN Return([q.p EXCEPT !.done = TRUE, !.line = <<>>], q.buf)
       ELSE IF ~HasLine(q.p, q.buf) THEN Return(CheckSizes(l.p), l.buf)
       ELSE IF w.error # 0 THEN Return(w, l.buf)
       ELSE [p |-> w, buf |-> l.buf, more |-> TRUE]

\* The loop; a turn that goes on has taken bytes from the buffer.
ParseChunks(p, buf) ==
    LET turn[n \in 0..(Len(buf) + 1)] ==
            IF n = 0 THEN [p |-> p, buf |-> buf, more |-> TRUE]
            ELSE LET s == turn[n - 1]
                 IN IF s.more THEN Turn(s.p, s.buf) ELSE s
    IN turn[Len(buf) + 1]

ParseChunked(p, buf) == ParseChunks([p EXCEPT !.size = @ + Len(buf)], buf)

-----------------------------------------------------------------------------
\* A read of n bytes, and Client::parseRequest on them.
Read ==
    /\ ~parser.done
    /\ parser.error = 0
    /\ \E n \in 1..(Len(wire) - sent) :
         LET r == ParseChunked(parser,
                               buffer \o SubSeq(wire, sent + 1, sent + n))
         IN /\ sent' = sent + n
            /\ parser' = r.p
            /\ buffer' = r.buf
    /\ UNCHANGED <<message, wire>>

Init ==
    /\ message \in Messages
    /\ \E f \in Followers : wire = Encode(message) \o LastChunk \o f
    /\ sent = 0
    /\ parser = NewParser
    /\ buffer = <<>>

Next == Read

Spec == Init /\ [][Next]_vars

-----------------------------------------------------------------------------
(***************************************************************************)
(* Properties.                                                             *)
(***************************************************************************)
Data == FlattenSeq([i \in DOMAIN message |-> message[i].data])

Exact(frame) == frame.size \in Digits /\ Value[frame.size] = Len(frame.data)

\* Bytes of the message and of the terminating chunk.
BodyEnd == Len(Encode(message)) + Len(LastChunk)

\* A body that is taken for complete is the one that was sent: each chunk had
\* the announced size, the file holds the data of all of them, and every byte
\* behind the terminating chunk is left for the next request.
AcceptedIsExact ==
    parser.done =>
        /\ \A i \in DOMAIN message : Exact(message[i])
        /\ parser.written = Data
        /\ buffer = SubSeq(wire, BodyEnd + 1, sent)

\* A body with the right sizes is complete in the read that brings its last
\* byte, wherever the reads cut it, unless it is refused as too large.
WellFormedAccepted ==
    /\ \A i \in DOMAIN message : Exact(message[i])
    /\ sent >= BodyEnd
    => parser.done \/ parser.error = 413

\* Between two reads the counter holds what is written, a CRLF for each chunk,
\* and the line that is stashed: size lines are taken out again once parsed.
CounterMatchesFile ==
    ~parser.done /\ parser.error = 0 =>
        \E n \in 0..Len(message) :
            /\ parser.written = FlattenSeq([i \in 1..n |-> message[i].data])
            /\ parser.size = Len(parser.written) + n * Len(CRLF)
                             + Len(parser.line)
=============================================================================
