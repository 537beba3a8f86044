------------------------------ MODULE Framing -------------------------------
(***************************************************************************)
(* What a peer can make of the bytes of a kept-alive connection: how the   *)
(* output of a script is cut into header lines and a body, how a response  *)
(* gets its head, its Content-Length and its body, and how it is queued in *)
(* buffers and taken apart at the other end.                               *)
(*                                                                         *)
(* A file is a sequence of symbols, "crlf" one of them; a text without a   *)
(* line break is one symbol.  When requests are accepted, and when the     *)
(* connection is closed, is Connection's.                                  *)
(***************************************************************************)
EXTENDS Integers, Sequences, SequencesExt

CONSTANTS
    BufferSize,     \* BUFFER_SIZE, in symbols
    Methods,        \* of requests
    Targets,        \* what requests lead to besides scripts
    RedirTargets,   \* what local redirections of scripts lead to
    Files,          \* contents of static files
    Outputs,        \* outputs of scripts
    Expects,        \* whether peers ask for "100 Continue": a set of BOOLEAN
    MaxAnswers,     \* responses on the connection; bound
    MaxCookies      \* cookies with which scripts redirect to scripts; bound

ASSUME FramingAssumption ==
    /\ BufferSize \in Nat \ {0} /\ MaxAnswers \in Nat /\ MaxCookies \in Nat
    /\ Methods \subseteq STRING
    /\ Targets \subseteq {"static", "created", "empty", "denied", "folder", "moved", "refused",
                          "bad"}
    /\ Files \subseteq Seq(STRING) /\ Outputs \subseteq Seq(STRING)
    /\ Expects \subseteq BOOLEAN

VARIABLES
    stage,          \* how far the request has come
    hints,          \* Request::resHints
    script,         \* what the running script writes
    outBuffers,
    got,            \* what the peer has received
    asked,          \* the methods of the requests, known to the peer
    meant           \* for each final response, the status and the body meant

vars == <<stage, hints, script, outBuffers, got, asked, meant>>

NoHints ==
    [status |-> 0, path |-> "none", file |-> <<>>, gone |-> FALSE, index |-> 0,
     location |-> FALSE, cookies |-> 0, dir |-> FALSE, cgiRedir |-> FALSE,
     method |-> "GET"]

-----------------------------------------------------------------------------
(***************************************************************************)
(* CGIProcess::parseHeaders.                                               *)
(***************************************************************************)
\* The fields the code tells apart: an absolute or a local Location, a Status
\* that is a number or not, Set-Cookie, any other, and a line without ":".
Fields == {"location", "path", "status", "badstatus", "cookie", "field"}

\* One symbol more of the output.
ReadSymbol(r, s) ==
    IF r.done THEN r
    ELSE IF s # "crlf" THEN [r EXCEPT !.line = Append(@, s)]
    ELSE [index |-> r.index + Len(r.line) + 1,
          line  |-> <<>>,
          lines |-> Append(r.lines, r.line),
          done  |-> r.line = <<>> \/ r.line[1] \notin Fields]

\* The loop over _getLine in the first buffer of the output: lines ends at the first
\* blank line, at one without ":" or with the last whole line.
ReadLines(o) ==
    LET n == Min({Len(o), BufferSize})
        L[i \in 0..n] ==
            IF i = 0 THEN [index |-> 0, line |-> <<>>, lines |-> <<>>, done |-> FALSE]
            ELSE ReadSymbol(L[i - 1], o[i])
    IN L[n]

\* _cgi_headers: of two lines with one key the second counts.
SameKey(k) ==
    CASE k \in {"location", "path"}    -> {"location", "path"}
      [] k \in {"status", "badstatus"} -> {"status", "badstatus"}
      [] OTHER                         -> {k}

Keys(lines) ==
    LET K[i \in 0..Len(lines)] ==
            IF i = 0 THEN {}
            ELSE IF lines[i] = <<>> THEN K[i - 1]
            ELSE (K[i - 1] \ SameKey(lines[i][1])) \union {lines[i][1]}
    IN K[Len(lines)]

Cookies(lines) == Cardinality({i \in DOMAIN lines : lines[i] = <<"cookie">>})

\* Mutant: a local redirection keeps the place where the script's body began.
MutInspectHeaders(h, keys) ==
    IF keys \ {"cookie"} = {} THEN [res |-> "error", h |-> h]
    ELSE IF "location" \in keys
    THEN [res |-> "redirect", h |-> [h EXCEPT !.status = 302, !.location = TRUE]]
    ELSE IF "path" \in keys THEN [res |-> "local", h |-> h]
    ELSE [res |-> "doc",
          h |-> [h EXCEPT !.status = IF "badstatus" \in keys THEN 500 ELSE 200]]

\* _inspectHeaders: the kind of the result, and the hints it leaves.  A Status
\* that is a number is read and then replaced by 200.
InspectHeaders(h, keys) ==
    IF keys \ {"cookie"} = {} THEN [res |-> "error", h |-> h]
    ELSE IF "location" \in keys
    THEN [res |-> "redirect", h |-> [h EXCEPT !.status = 302, !.location = TRUE]]
    ELSE IF "path" \in keys
    THEN [res |-> "local", h |-> [h EXCEPT !.index = 0]]
    ELSE [res |-> "doc",
          h |-> [h EXCEPT !.status = IF "badstatus" \in keys THEN 500 ELSE 200]]

ParseHeaders(h, o) ==
    LET r == ReadLines(o)
        keys == Keys(r.lines)
        d == [h EXCEPT !.cookies = @ + Cookies(r.lines)]
    IN IF ~(keys \subseteq Fields)
       THEN [res |-> "none", h |-> [d EXCEPT !.status = 500]]
       ELSE InspectHeaders([d EXCEPT !.index = r.index], keys)

-----------------------------------------------------------------------------
(***************************************************************************)
(* AResponse::genResponse and writeResponse.                               *)
(***************************************************************************)
\* fillResponse; the error page of a status is a file of two symbols.
FillResponse(h) ==
    IF h.status \in 401..417
    THEN [h EXCEPT !.path = "page", !.file = <<"html", "html">>]
    ELSE IF h.status \in {400, 500, 503}
    THEN [h EXCEPT !.path = "none", !.file = <<>>]
    ELSE h

Dynamic(h) == h.path = "none" \/ (h.status = 200 /\ h.dir)

\* DynamicResponse::generateBody: a listing, a redirection or a message.
GenerateBody(h) ==
    IF h.status = 200 /\ h.dir THEN <<"list", "html", "html">>
    ELSE IF h.status \in 300..399 THEN <<"moved", "html">>
    ELSE <<"html">>

\* What stat() gives for a folder.
FolderSize == 1

\* Mutant: the header lines of a script's output are counted in its length.
MutInspectFile(h) ==
    [length |-> Len(h.file), body |-> SubSeq(h.file, h.index + 1, Len(h.file))]

\* FileResponse::inspectFile: what is behind index, and its length.  A folder
\* can be opened, has a size, and nothing can be read from it.
InspectFile(h) ==
    IF h.dir THEN [length |-> FolderSize, body |-> <<>>]
    ELSE [length |-> Len(h.file) - h.index,
          body |-> SubSeq(h.file, h.index + 1, Len(h.file))]

Content(h) ==
    IF Dynamic(h)
    THEN [length |-> Len(GenerateBody(h)), body |-> GenerateBody(h)]
    ELSE InspectFile(h)

\* What a stream is made of: status lines, header fields, blank lines, bodies.
StatusLine(st) == [is |-> "status", v |-> st]
Length(n) == [is |-> "length", v |-> n]
Field(name) == [is |-> "field", v |-> name]
Blank == [is |-> "blank"]
Byte(s) == [is |-> "byte", v |-> s]

\* _formatHeaders.
FormatHeaders(h) ==
    <<StatusLine(h.status), Length(Content(h).length)>>
    \o (IF h.location \/ (Dynamic(h) /\ h.status \in 300..399)
        THEN <<Field("Location")>> ELSE <<>>)
    \o [i \in 1..h.cookies |-> Field("Set-Cookie")]
    \o <<Blank>>

\* At most BufferSize symbols a buffer.
Portions(s) ==
    [i \in 1..((Len(s) + BufferSize - 1) \div BufferSize) |->
        SubSeq(s, (i - 1) * BufferSize + 1, Min({i * BufferSize, Len(s)}))]

WriteResponse(h) ==
    Portions(FormatHeaders(h))
    \o (IF h.method = "HEAD" THEN <<>>
        ELSE Portions([i \in DOMAIN Content(h).body |-> Byte(Content(h).body[i])]))

\* generateResponse; a file or folder that cannot be opened makes it a 500.
GenerateResponse(h0) ==
    LET h == FillResponse(h0)
    IN IF h.gone /\ h.path # "none" THEN FillResponse([h EXCEPT !.status = 500]) ELSE h

-----------------------------------------------------------------------------
(***************************************************************************)
(* One request after the other.                                            *)
(***************************************************************************)
Init ==
    /\ stage = "idle"
    /\ hints = NoHints
    /\ script = <<>>
    /\ outBuffers = <<>>
    /\ got = <<>>
    /\ asked = <<>>
    /\ meant = <<>>

\* Client::clear and the next request; generateContinueResponse when its header
\* asks for it.
Ask ==
    /\ stage = "idle"
    /\ Len(asked) < MaxAnswers
    /\ \E m \in Methods :
          /\ hints' = [NoHints EXCEPT !.method = m]
          /\ asked' = Append(asked, m)
    /\ \E expects \in Expects :
          /\ stage' = IF expects THEN "expecting" ELSE "targeted"
          /\ outBuffers' = IF expects THEN <<<<StatusLine(100)>>>> ELSE <<>>
    /\ UNCHANGED <<script, got, meant>>

\* The body that is meant for a response made from h: of a script, what is
\* behind the blank line of its output; of a file, the file.
MeantBody(h) ==
    LET o == h.file
        blank == {i \in DOMAIN o : o[i] = "crlf" /\ (i = 1 \/ o[i - 1] = "crlf")}
    IN IF h.method = "HEAD" THEN <<>>
       ELSE IF Dynamic(h) THEN GenerateBody(h)
       ELSE IF h.path # "output" THEN o
       ELSE IF blank = {} THEN <<>>
       ELSE SubSeq(o, Min(blank) + 1, Len(o))

\* The header lines of o, up to the blank one, are within the one buffer that
\* parseHeaders looks at.
HeadFits(o) ==
    \E i \in 1..Min({Len(o), BufferSize}) :
        o[i] = "crlf" /\ (i = 1 \/ o[i - 1] = "crlf")

Answer(h0) ==
    LET h == GenerateResponse(h0)
    IN /\ stage' = "answered"
       /\ hints' = h
       /\ outBuffers' = outBuffers \o WriteResponse(h)
       /\ meant' = Append(meant, [status |-> h.status, body |-> MeantBody(h),
                                  fits |-> h.path # "output" \/ HeadFits(h.file)])

\* What only an upload can lead to: a file it creates, one it leaves empty, and
\* one that may not be written to although the upload has no body.
Uploaded == {"created", "empty", "denied"}

\* The hints that the checks of a request leave behind.  checkRessourceExistence
\* gives the path, but not of an upload, which has its file from
\* defineBodyParsing; handleRequestBodyDone gives the status.  Neither of the two
\* is called behind a local redirection: the status stays 0, and the path is
\* still the script's output when nothing else is put there.  An upload to a
\* folder has no path that can be opened.
Served(h, t, f, gone) ==
    LET upload == h.method \in {"POST", "PUT"}
        deletes == h.method = "DELETE" /\ ~h.cgiRedir
        done == IF h.cgiRedir THEN 0 ELSE 200
        found == [h EXCEPT !.path = t, !.gone = gone]
    IN CASE t = "static" /\ upload /\ h.cgiRedir -> h
         [] t = "static" /\ deletes -> [h EXCEPT !.status = 204]
         [] t = "static" /\ ~deletes /\ ~(upload /\ h.cgiRedir) ->
                [found EXCEPT !.status = done, !.file = f]
         [] t = "created" -> [found EXCEPT !.status = 201, !.file = f]
         [] t = "empty"   -> [found EXCEPT !.status = 204]
         [] t = "denied"  -> [h EXCEPT !.status = 204]
         [] t = "folder"  -> [found EXCEPT !.status = done, !.dir = TRUE, !.gone = @ \/ upload]
         [] t = "moved"   -> [h EXCEPT !.status = 301]
         [] t = "refused" -> [h EXCEPT !.status = 404, !.gone = gone]
         [] t = "bad"     -> [h EXCEPT !.status = 400]

\* checkRequest has found what is asked for.
Serve(t) ==
    /\ stage = "targeted"
    /\ hints.cgiRedir => t \in RedirTargets
    /\ t \in Uploaded => hints.method \in {"POST", "PUT"} /\ ~hints.cgiRedir
    /\ \E f \in Files, gone \in BOOLEAN : Answer(Served(hints, t, f, gone))
    /\ UNCHANGED <<script, got, asked>>

\* execCGI names the file of the output.
Launch ==
    /\ stage = "targeted"
    /\ hints.cookies <= MaxCookies
    /\ stage' = "running"
    /\ \E o \in Outputs : script' = o
    /\ hints' = [hints EXCEPT !.path = "output", !.gone = FALSE]
    /\ UNCHANGED <<outBuffers, got, asked, meant>>

\* handleCGIProcess, for a script that has ended.  A local redirection goes
\* through the checks again with the same hints, the path of the output among
\* them, which ~CGIProcess has unlinked.
ScriptEnds ==
    /\ stage = "running"
    /\ LET r == ParseHeaders([hints EXCEPT !.file = script], script)
       IN \/ r.res \in {"doc", "redirect"} /\ Answer(r.h)
          \/ r.res = "error" /\ Answer([r.h EXCEPT !.status = 503])
          \/ /\ r.res = "local"
             /\ stage' = "targeted"
             /\ hints' = [r.h EXCEPT !.file = <<>>, !.gone = TRUE, !.cgiRedir = TRUE]
             /\ UNCHANGED <<outBuffers, meant>>
          \/ /\ r.res = "none"
             /\ stage' = "stuck"
             /\ hints' = r.h
             /\ UNCHANGED <<outBuffers, meant>>
    /\ script' = <<>>
    /\ UNCHANGED <<got, asked>>

\* handleClientOut: one buffer a call.  Behind the last one of a success the
\* next request is taken; behind any other final response the connection ends.
Send ==
    /\ outBuffers # <<>>
    /\ got' = got \o Head(outBuffers)
    /\ outBuffers' = Tail(outBuffers)
    /\ stage' = IF Len(outBuffers) > 1 THEN stage
                ELSE IF stage = "expecting" THEN "targeted"
                ELSE IF hints.status \in 200..299 THEN "idle" ELSE "closed"
    /\ UNCHANGED <<hints, script, asked, meant>>

Next == Ask \/ Launch \/ ScriptEnds \/ Send \/ \E t \in Targets : Serve(t)

Spec == Init /\ [][Next]_vars

-----------------------------------------------------------------------------
(***************************************************************************)
(* The peer, by the rules of HTTP/1.1: a head up to its blank line; then   *)
(* no body for a HEAD, a 1xx or a 204, and Content-Length of it otherwise. *)
(* A 1xx announces another head for the same request.                      *)
(***************************************************************************)
NewMessage == [status |-> 0, length |-> 0, body |-> <<>>]

EndOfHead(r, methods) ==
    LET n == Len(r.messages) + 1
        bodiless == r.now.status = 204 \/ methods[n] = "HEAD"
    IN IF r.now.status \in 100..199 THEN [r EXCEPT !.at = "start"]
       ELSE IF bodiless \/ r.now.length = 0
       THEN [r EXCEPT !.at = "start", !.messages = Append(@, r.now)]
       ELSE [r EXCEPT !.at = "body"]

ReadBody(r, s) ==
    LET d == [r.now EXCEPT !.body = Append(@, s)]
    IN IF Len(d.body) < d.length THEN [r EXCEPT !.now = d]
       ELSE [r EXCEPT !.at = "start", !.messages = Append(@, d)]

\* A symbol that has no place where it stands loses the peer.
DecodeSymbol(r, s, methods) ==
    CASE r.at = "start" /\ s.is = "status" ->
             [r EXCEPT !.at = "head", !.now = [NewMessage EXCEPT !.status = s.v]]
      [] r.at = "head" /\ s.is = "length" -> [r EXCEPT !.now.length = s.v]
      [] r.at = "head" /\ s.is = "field" -> r
      [] r.at = "head" /\ s.is = "blank" -> EndOfHead(r, methods)
      [] r.at = "body" /\ s.is = "byte" -> ReadBody(r, s.v)
      [] OTHER -> [r EXCEPT !.at = "lost"]

NewPeer == [at |-> "start", now |-> NewMessage, messages |-> <<>>]

\* What the peer makes of a stream, knowing the methods it asked with.
Decode(stream, methods) ==
    LET D[n \in 0..Len(stream)] ==
            IF n = 0 THEN NewPeer ELSE DecodeSymbol(D[n - 1], stream[n], methods)
    IN D[Len(stream)]

-----------------------------------------------------------------------------
\* The peer never loses the boundaries of the responses: what it has taken apart
\* are the final responses made, in their order and with their status, and it has
\* all of them once the last buffer has left.
PeerInStep ==
    LET d == Decode(got, asked)
    IN /\ d.at # "lost"
       /\ Len(d.messages) <= Len(meant)
       /\ \A i \in DOMAIN d.messages : d.messages[i].status = meant[i].status
       /\ outBuffers = <<>> => d.at = "start" /\ Len(d.messages) = Len(meant)

\* A peer gets the whole body, and nothing else: of a file from its first byte,
\* even behind a script that redirected to it; of a script's output from behind
\* its header lines, as long as those are within one buffer.
BodiesIntact ==
    LET messages == Decode(got, asked).messages
    IN \A i \in DOMAIN messages :
           i \in DOMAIN meant /\ meant[i].fits => messages[i].body = meant[i].body
=============================================================================
