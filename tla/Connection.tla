----------------------------- MODULE Connection -----------------------------
(***************************************************************************)
(* One client connection of the server: the Client object with its         *)
(* Request, its ResHints, its AResponse, its CGIProcess and the temporary  *)
(* files they own, driven by the events that IControl::handleEpoll and     *)
(* Client::checkTO hand to it.  The server is one thread, so every event   *)
(* handler runs to its end before the next event: each is one action.      *)
(* Between two events the peer, the kernel, the CGI child and the clock    *)
(* move freely.                                                            *)
(*                                                                         *)
(* The byte stream is abstracted to units.  A request is its request line, *)
(* its header fields, the blank line, and kind.body pieces of body; a      *)
(* read() delivers any number of units, whatever requests they belong to.  *)
(* What the units of the next request say is chosen when its request line  *)
(* is parsed.                                                              *)
(*                                                                         *)
(* A handler of the code is an operator from the connection's record to a  *)
(* new record (or to a Result when the code looks at the return value).    *)
(* Its argument x holds what the outside world decides while the handler   *)
(* runs: see World.                                                        *)
(***************************************************************************)
EXTENDS Integers

CONSTANTS
    Kinds,          \* the requests the peer may send
    CgiOutputs,     \* what a CGI script that exits with status 0 may print
    RedirTargets,   \* where a CGI local redirection may lead
    Polite,         \* does the peer wait for "100 Continue" before the body?
    MaxUnits,       \* bound on the units the peer sends
    MaxOut          \* bound on the buffers one response is cut into

(***************************************************************************)
(* Where the server finds a reason to refuse a request: in its request     *)
(* line, in a header line, before or after checkBodyLength has run in      *)
(* handleRequestHeaders, in the last piece of its body, or nowhere.        *)
(***************************************************************************)
Stages == {"ok", "line", "field", "early", "late", "body"}

ReqTypes == {"none", "cgi", "static", "dir"}

\* POST is handled as PUT, HEAD as GET.
Methods == {"GET", "PUT", "DELETE"}

\* What checkFileExist and access find at the path of an upload.
Targets == {"new", "old", "denied"}

\* The statuses of a refusal or a redirection.
Refusals == 300..599

\* refuse counts only when at is not "ok".
KindType == [at : Stages, refuse : Refusals, body : Nat, type : ReqTypes,
             method : Methods, expect : BOOLEAN, close : BOOLEAN,
             target : Targets]

\* The request before its request line has been parsed.
NoKind == [at |-> "ok", refuse |-> 400, body |-> 0, type |-> "none",
           method |-> "GET", expect |-> FALSE, close |-> FALSE,
           target |-> "new"]

OutputTypes == {"doc", "badstatus", "redirect", "local", "malformed", "empty"}

RedirType == [at : {"ok", "late"}, refuse : Refusals, type : ReqTypes]

NoTarget == [at |-> "ok", refuse |-> 400, type |-> "none"]

ASSUME KindsAssumption == Kinds \subseteq KindType
ASSUME OutputsAssumption == CgiOutputs \subseteq OutputTypes
ASSUME RedirAssumption == RedirTargets \subseteq RedirType
ASSUME BoundsAssumption == /\ Polite \in BOOLEAN
                           /\ MaxUnits \in Nat
                           /\ MaxOut \in Nat \ {0}

VARIABLES client, received

vars == <<client, received>>

-----------------------------------------------------------------------------
(***************************************************************************)
(* State.                                                                  *)
(***************************************************************************)
\* Request line, header fields, blank line.
HeaderUnits == 3

Size(k) == HeaderUnits + k.body

NoResponse == -1

Modes == {"READ", "WRITE"}
HeaderStatuses == {"ONGOING", "READY", "DONE"}
BodyStatuses == {"NONE", "ONGOING", "DONE"}
ParserStatuses == {"NEW", "RLINE", "ONGOING", "TERM"}
Paths == {"none", "target", "errpage", "cgiout"}
BodyFiles == {"none", "tmp", "target"}
Responses == Nat \union {NoResponse}
Children == {"none", "running", "failed"} \union OutputTypes

ClientType ==
    [live : BOOLEAN,
     mode : Modes,
     headerStatus : HeaderStatuses,
     bodyStatus : BodyStatuses,
     buffer : Nat,              \* units of _buffer not parsed yet
     request : BOOLEAN,         \* _request != NULL
     kind : KindType,           \* what the parsed part of the request says
     pos : Nat,                 \* units of the request parsed so far
     parser : ParserStatuses,   \* Request::_status
     error : BOOLEAN,           \* Request::_final_status = ERROR
     expect : BOOLEAN,          \* the header "expect: 100-continue" is there
     type : ReqTypes,
     status : Nat,              \* resHints.status
     path : Paths,              \* resHints.path
     unlink : BOOLEAN,          \* resHints.unlink
     close : BOOLEAN,           \* resHints.headers["connection"] = "close"
     cgiRedir : BOOLEAN,        \* resHints.cgiRedir # CGI_RES_NONE
     response : Responses,      \* status of _response
     out : Nat,                 \* outBuffers.size()
     cgi : Children,            \* cgiProcess and its child
     bodyFile : BodyFiles,      \* the file behind _bodyStream
     tmpOut : BOOLEAN,          \* the CGI output file is on disk
     tmpBody : BOOLEAN,         \* the temporary body file is on disk
     foreign : BOOLEAN,         \* a file was removed that had to stay
     answers : Nat]             \* final responses made for this request

NewClient ==
    [live |-> TRUE, mode |-> "READ", headerStatus |-> "ONGOING",
     bodyStatus |-> "NONE", buffer |-> 0, request |-> FALSE, kind |-> NoKind,
     pos |-> 0, parser |-> "NEW", error |-> FALSE, expect |-> FALSE,
     type |-> "none", status |-> 0, path |-> "none", unlink |-> FALSE,
     close |-> FALSE, cgiRedir |-> FALSE, response |-> NoResponse, out |-> 0,
     cgi |-> "none", bodyFile |-> "none", tmpOut |-> FALSE,
     tmpBody |-> FALSE, foreign |-> FALSE, answers |-> 0]

Result(c, res) == [c |-> c, res |-> res]

(***************************************************************************)
(* What the world decides while one handler runs: the request whose line   *)
(* is parsed, how many buffers a response takes, whether the file to send  *)
(* is missing, whether fork() and write() succeed, whether the CGI child   *)
(* has run past CGI_TIME_OUT, and where a local redirection leads.         *)
(***************************************************************************)
World ==
    [kind : KindType, out : 1..MaxOut, missing : BOOLEAN, fork : BOOLEAN,
     writeError : BOOLEAN, late : BOOLEAN, to : RedirType]

-----------------------------------------------------------------------------
\* Mutant: a failed request does not remove its temporary body.
MutUnlinksBody(c) == c.unlink

\* The file behind the body stream is removed with it.
UnlinksBody(c) == c.unlink \/ c.status >= 300

(***************************************************************************)
(* Cleaning up: Client::clear and what it calls.                           *)
(***************************************************************************)
\* The client has been told, or will be, that its request succeeded.
Succeeded(c) == c.response \in 200..299

\* The file behind the stream may be the target of an upload, a file that was
\* there before included: it has to stay once the upload is answered as done.
DeleteBodyStream(c) ==
    IF c.bodyFile = "none" THEN c
    ELSE [c EXCEPT !.bodyFile = "none",
                   !.tmpBody = IF c.bodyFile = "tmp" /\ UnlinksBody(c)
                               THEN FALSE ELSE @,
                   !.foreign = IF /\ c.bodyFile = "target" /\ UnlinksBody(c)
                                  /\ Succeeded(c)
                               THEN TRUE ELSE @]

\* Mutant: the destructor leaves the output file.
MutDeleteCGIProcess(c) == [c EXCEPT !.cgi = "none"]

\* The destructor of CGIProcess removes whatever resHints.path names.
DeleteCGIProcess(c) ==
    IF c.cgi = "none" THEN c
    ELSE [c EXCEPT !.cgi = "none",
                   !.tmpOut = IF c.path = "cgiout" THEN FALSE ELSE @,
                   !.foreign = IF c.path \in {"target", "errpage"}
                               THEN TRUE ELSE @]

ClearResponse(c) == [c EXCEPT !.response = NoResponse]

\* delete _request, and with it the ResHints it holds.
DeleteRequest(c) ==
    [c EXCEPT !.request = FALSE, !.kind = NoKind, !.pos = 0, !.parser = "NEW",
              !.error = FALSE, !.expect = FALSE]

ResetHints(c) ==
    [c EXCEPT !.type = "none", !.status = 0, !.path = "none",
              !.unlink = FALSE, !.close = FALSE, !.cgiRedir = FALSE]

Clear(c) ==
    LET d == DeleteRequest(ClearResponse(DeleteCGIProcess(DeleteBodyStream(c))))
    IN [ResetHints(d) EXCEPT !.bodyStatus = "NONE",
                             !.headerStatus = "ONGOING", !.answers = 0]

\* The object, its buffers and its queue are gone.
Terminate(c) ==
    [Clear(c) EXCEPT !.live = FALSE, !.mode = "READ", !.buffer = 0, !.out = 0]

-----------------------------------------------------------------------------
(***************************************************************************)
(* Making a response.                                                      *)
(***************************************************************************)
\* The statuses answered with a file of the error page directory, and the
\* ones whose body is written by the server.
HasErrorPage(st) == st \in 401..417 \/ st = 505
HasVerboseBody(st) == st \in {400, 500, 503}

FillResponse(c, st) ==
    [c EXCEPT !.status = st,
              !.path = IF HasErrorPage(st) THEN "errpage"
                       ELSE IF HasVerboseBody(st) THEN "none" ELSE @,
              !.unlink = IF HasErrorPage(st) \/ HasVerboseBody(st)
                         THEN FALSE ELSE @,
              !.close = IF st \in 200..299 THEN c.kind.close ELSE TRUE]

\* genResponse throws when the file to send, or the directory to list, is
\* not there.
GenResponseThrows(c, x) ==
    \/ c.path \in {"target", "errpage"} /\ x.missing
    \/ c.path = "cgiout" /\ ~c.tmpOut

\* Mutant: the default status 0 is taken at its word.
MutStatusGenerateResponse(c, st, x) ==
    IF c.response # NoResponse THEN c
    ELSE LET d == FillResponse(c, st)
             e == IF GenResponseThrows(d, x) THEN FillResponse(d, 500) ELSE d
         IN [e EXCEPT !.response = e.status, !.out = @ + x.out,
                      !.mode = "WRITE", !.answers = @ + 1]

\* Mutant: a response that is already there is replaced.
MutTwiceGenerateResponse(c, st, x) ==
    LET d == FillResponse(c, IF st # 0 THEN st ELSE c.status)
        e == IF GenResponseThrows(d, x) THEN FillResponse(d, 500) ELSE d
    IN [e EXCEPT !.response = e.status, !.out = @ + x.out,
                 !.mode = "WRITE", !.answers = @ + 1]

GenerateResponse(c, st, x) ==
    IF c.response # NoResponse THEN c
    ELSE LET d == FillResponse(c, IF st # 0 THEN st ELSE c.status)
             e == IF GenResponseThrows(d, x) THEN FillResponse(d, 500) ELSE d
         IN [e EXCEPT !.response = e.status, !.out = @ + x.out,
                      !.mode = "WRITE", !.answers = @ + 1]

\* A pending response is overwritten, its queued buffers stay.
GenerateContinueResponse(c) ==
    [c EXCEPT !.response = 100, !.out = @ + 1, !.mode = "WRITE"]

(***************************************************************************)
(* CGIProcess::execCGI names the output file, then forks.  When fork()     *)
(* fails the CGIProcess is deleted at once and no file was made.           *)
(***************************************************************************)
GenerateCGIProcess(c, x) ==
    IF x.fork
    THEN Result([c EXCEPT !.path = "cgiout", !.cgi = "running",
                          !.tmpOut = TRUE, !.mode = "WRITE"], 0)
    ELSE Result([c EXCEPT !.path = "cgiout"], 500)

HandleClientResponse(c, res, x) ==
    IF c.type # "cgi" \/ res # 200 THEN GenerateResponse(c, res, x)
    ELSE LET r == GenerateCGIProcess(c, x)
         IN IF r.res = 0 THEN r.c ELSE GenerateResponse(r.c, 500, x)

-----------------------------------------------------------------------------
(***************************************************************************)
(* Checking the headers of a request.                                      *)
(***************************************************************************)
\* defineBodyParsing; its return value is ignored by its only caller.
DefineBodyParsing(c) ==
    IF c.type = "cgi"
    THEN [c EXCEPT !.unlink = TRUE,
                   !.bodyFile = IF c.bodyStatus # "NONE" THEN "tmp" ELSE "none",
                   !.tmpBody = IF c.bodyStatus # "NONE" THEN TRUE ELSE @]
    ELSE IF c.type = "static" /\ c.kind.method = "PUT"
    THEN IF c.kind.target = "denied" THEN [c EXCEPT !.status = 403]
         ELSE [c EXCEPT !.status = IF c.kind.target = "new" THEN 201 ELSE 200,
                        !.path = "target", !.bodyFile = "target",
                        !.unlink = FALSE]
    ELSE [c EXCEPT !.bodyFile = "none"]

\* checkBodyLength, when it accepts: a body is announced or not.
CheckBodyLength(c) ==
    IF ~c.cgiRedir /\ c.kind.body > 0 THEN [c EXCEPT !.bodyStatus = "ONGOING"]
    ELSE c

\* Host::checkRequest, when it accepts: the request has a type, and a path
\* unless it is an upload or a script.
CheckRequest(c) ==
    [c EXCEPT !.type = c.kind.type, !.status = 0,
              !.path = IF c.kind.type # "cgi" /\ c.kind.method # "PUT"
                       THEN "target" ELSE @]

HandleRequestHeaders(c) ==
    LET k == c.kind
        d == CheckBodyLength(c)
        e == CheckRequest(d)
        f == [IF c.cgiRedir THEN e ELSE DefineBodyParsing(e)
                 EXCEPT !.headerStatus = "DONE"]
    IN IF k.at = "early" THEN Result([c EXCEPT !.status = k.refuse], k.refuse)
       ELSE IF k.at = "late"
       THEN Result([d EXCEPT !.status = k.refuse, !.type = k.type], k.refuse)
       ELSE IF e.expect /\ e.bodyStatus = "NONE"
       THEN Result([e EXCEPT !.status = 400, !.expect = FALSE], 400)
       ELSE IF e.expect THEN Result(GenerateContinueResponse(f), 0)
       ELSE Result(f, 0)

\* The status to answer with once the whole request is there.  A DELETE
\* unlinks what resHints.path names by then.
HandleRequestBodyDone(c) ==
    IF c.type = "static" /\ c.kind.method = "PUT"
    THEN Result(c, IF c.kind.body > 0 THEN c.status ELSE 204)
    ELSE IF c.type = "static" /\ c.kind.method = "DELETE"
    THEN Result([c EXCEPT !.path = "none",
                          !.foreign = IF c.path \in {"errpage", "cgiout"}
                                      THEN TRUE ELSE @], 204)
    ELSE Result(c, 200)

-----------------------------------------------------------------------------
(***************************************************************************)
(* Parsing.  A result below 0 says that the header, or the body, is        *)
(* complete; above 0 it is the status of a refusal.                        *)
(***************************************************************************)
Consume(c, n) == [c EXCEPT !.pos = @ + n, !.buffer = @ - n]

FillError(c, st) == [c EXCEPT !.status = st, !.error = TRUE]

\* The header fields and the blank line.
ParseFields(c) ==
    IF c.buffer = 0 THEN Result(c, 0)
    ELSE IF c.pos = 1 /\ c.kind.at = "field"
    THEN Result(FillError(Consume(c, 1), c.kind.refuse), c.kind.refuse)
    ELSE IF c.pos + c.buffer >= HeaderUnits
    THEN Result([Consume(c, HeaderUnits - c.pos)
                    EXCEPT !.parser = "TERM", !.error = FALSE,
                           !.expect = c.kind.expect], -1)
    ELSE Result(Consume(c, c.buffer), 0)

(***************************************************************************)
(* Request::parseHeaders.  After a refused request line _status stays at   *)
(* RLINE, and the next parse takes the next line for a request line: the   *)
(* rest of the refused request, one refusal per line, then the request     *)
(* that follows it.                                                        *)
(***************************************************************************)
ParseHeaders(c, x) ==
    LET startLine == [c EXCEPT !.kind = x.kind, !.pos = 1, !.buffer = @ - 1]
    IN IF c.parser = "ONGOING" THEN ParseFields(c)
       ELSE IF c.parser = "TERM" \/ c.buffer = 0 THEN Result(c, 0)
       ELSE IF c.parser = "RLINE" /\ c.pos < Size(c.kind)
       THEN Result(FillError(Consume(c, 1), 501), 501)
       ELSE IF x.kind.at = "line"
       THEN Result(FillError([startLine EXCEPT !.parser = "RLINE"],
                             x.kind.refuse), x.kind.refuse)
       ELSE ParseFields([startLine EXCEPT !.parser = "ONGOING"])

\* Mutant: the body takes what it misses, not what was read.
MutCutParseInput(c) ==
    LET d == Consume(c, Size(c.kind) - c.pos)
    IN IF c.error \/ c.buffer = 0 THEN Result(c, 0)
       ELSE IF c.kind.at = "body"
       THEN Result(FillError(d, c.kind.refuse), c.kind.refuse)
       ELSE Result(d, -1)

\* Mutant: any piece of body completes it.
MutEarlyParseInput(c) ==
    LET left == Size(c.kind) - c.pos
        d == Consume(c, IF left < c.buffer THEN left ELSE c.buffer)
    IN IF c.error \/ c.buffer = 0 THEN Result(c, 0)
       ELSE IF c.kind.at = "body"
       THEN Result(FillError(d, c.kind.refuse), c.kind.refuse)
       ELSE Result(d, -1)

\* Request::parseInput: the body, measured or chunked.
ParseInput(c) ==
    LET left == Size(c.kind) - c.pos
        d == Consume(c, IF left < c.buffer THEN left ELSE c.buffer)
    IN IF c.error \/ c.buffer = 0 THEN Result(c, 0)
       ELSE IF d.pos # Size(c.kind) THEN Result(d, 0)
       ELSE IF c.kind.at = "body"
       THEN Result(FillError(d, c.kind.refuse), c.kind.refuse)
       ELSE Result(d, -1)

\* Client::parseRequest on n more units; getRequest makes the Request.
ParseRequest(c0, n, x) ==
    LET c == [c0 EXCEPT !.request = TRUE, !.buffer = @ + n]
        h == ParseHeaders(c, x)
        b == ParseInput(c)
    IN IF c.headerStatus = "ONGOING"
       THEN IF h.res < 0
            THEN Result([h.c EXCEPT !.headerStatus = "READY"], h.res)
            ELSE h
       ELSE IF c.headerStatus = "DONE" /\ c.bodyStatus = "ONGOING"
       THEN IF b.res < 0
            THEN Result([b.c EXCEPT !.bodyStatus = "DONE"], b.res)
            ELSE b
       ELSE Result(c, 0)

\* Mutant: an outstanding body is not waited for.
MutBodyDoneIfComplete(r) ==
    IF r.res <= 0 THEN HandleRequestBodyDone(r.c) ELSE r

\* The end of handleClientIn: is the request complete?
BodyDoneIfComplete(r) ==
    IF r.res <= 0 /\ r.c.bodyStatus # "ONGOING"
    THEN HandleRequestBodyDone(r.c) ELSE r

\* Mutant: a request without a body is left for the next event.
MutHandleHeadersReady(c, x) ==
    LET r == HandleRequestHeaders([c EXCEPT !.bodyStatus = "NONE"])
    IN IF r.res # 0 \/ r.c.bodyStatus = "NONE" THEN r
       ELSE BodyDoneIfComplete(ParseRequest(r.c, 0, x))

\* handleClientIn once the blank line has been met.
HandleHeadersReady(c, x) ==
    LET r == HandleRequestHeaders([c EXCEPT !.bodyStatus = "NONE"])
    IN IF r.res # 0 THEN r
       ELSE BodyDoneIfComplete(IF r.c.bodyStatus # "NONE"
                               THEN ParseRequest(r.c, 0, x) ELSE r)

HandleClientIn(c, n, x) ==
    LET r == ParseRequest(c, n, x)
    IN IF r.res >= 0 THEN r
       ELSE IF r.c.headerStatus = "READY" THEN HandleHeadersReady(r.c, x)
       ELSE BodyDoneIfComplete(r)

\* handleClientIn and, when it asks for one, the response.
ReadAndRespond(c, n, x) ==
    LET r == HandleClientIn(c, n, x)
    IN IF r.res > 0 THEN HandleClientResponse(r.c, r.res, x) ELSE r.c

-----------------------------------------------------------------------------
(***************************************************************************)
(* CGI.                                                                    *)
(***************************************************************************)
\* What CGIProcess::parseHeaders finds in the file that resHints.path names:
\* a file that is not the script's output has no CGI header.
OutputRead(c) == IF c.path = "cgiout" /\ c.tmpOut THEN c.cgi ELSE "empty"

\* setUri: the request goes on with another resource.
SetUri(c, to) ==
    [c EXCEPT !.kind.at = to.at, !.kind.refuse = to.refuse,
              !.kind.type = to.type]

\* Mutant: the CGIProcess goes, no response is made.
MutServiceUnavailable(c, x) == DeleteCGIProcess(c)

\* Delete the CGIProcess, then answer 503.
ServiceUnavailable(c, x) == GenerateResponse(DeleteCGIProcess(c), 503, x)

\* Answer with the script's output, then delete the CGIProcess.
SendOutput(c, st, x) ==
    DeleteCGIProcess(GenerateResponse([c EXCEPT !.status = st], 0, x))

\* Mutant: the old CGIProcess is deleted after the new path is known.
MutLocalRedirect(c, x) ==
    LET r == HandleRequestHeaders(SetUri(c, x.to))
        d == DeleteCGIProcess(r.c)
        g == GenerateCGIProcess(d, x)
    IN IF r.res # 0 \/ r.c.type # "cgi" THEN GenerateResponse(d, r.res, x)
       ELSE IF g.res = 0 THEN g.c ELSE GenerateResponse(g.c, 500, x)

LocalRedirect(c, x) ==
    LET r == HandleRequestHeaders(SetUri(DeleteCGIProcess(c), x.to))
        g == GenerateCGIProcess(r.c, x)
    IN IF r.res # 0 \/ r.c.type # "cgi" THEN GenerateResponse(r.c, r.res, x)
       ELSE IF g.res = 0 THEN g.c ELSE GenerateResponse(g.c, 500, x)

\* CGIProcess::checkEnd: below 0 when the child failed or ran too long, 0
\* while it runs, above 0 when it has ended well.
CheckEnd(c, x) ==
    CASE c.cgi = "running" -> IF x.late THEN -1 ELSE 0
      [] c.cgi = "failed"  -> -1
      [] OTHER             -> 1

\* The child has ended well: go by what it printed.
HandleOutput(c, x) ==
    LET o == OutputRead(c)
        d == [c EXCEPT !.cgiRedir = o # "malformed"]
    IN CASE o = "doc"       -> SendOutput(d, 200, x)
         [] o = "badstatus" -> SendOutput(d, 500, x)
         [] o = "redirect"  -> SendOutput(d, 302, x)
         [] o = "local"     -> LocalRedirect(d, x)
         [] o = "malformed" -> DeleteCGIProcess([d EXCEPT !.status = 500])
         [] OTHER           -> ServiceUnavailable(d, x)

HandleCGIProcess(c, x) ==
    IF CheckEnd(c, x) = 0 THEN c
    ELSE IF CheckEnd(c, x) < 0 THEN ServiceUnavailable(c, x)
    ELSE HandleOutput(c, x)

-----------------------------------------------------------------------------
\* Mutant: the 100 response stays when the client goes back to READ.
MutKeepHandleSent(c, x) ==
    IF c.expect /\ c.response = 100
    THEN [c EXCEPT !.expect = FALSE, !.mode = "READ"]
    ELSE IF c.close THEN Terminate(c)
    ELSE ReadAndRespond([Clear(c) EXCEPT !.mode = "READ"], 0, x)

\* Mutant: after the 100 response the client stays in WRITE.
MutModeHandleSent(c, x) ==
    IF c.expect /\ c.response = 100
    THEN [ClearResponse(c) EXCEPT !.expect = FALSE]
    ELSE IF c.close THEN Terminate(c)
    ELSE ReadAndRespond([Clear(c) EXCEPT !.mode = "READ"], 0, x)

(***************************************************************************)
(* Sending.                                                                *)
(***************************************************************************)
\* handleClientOut has sent the last buffer: go on, close, or continue.
HandleSent(c, x) ==
    IF c.expect /\ c.response = 100
    THEN [ClearResponse(c) EXCEPT !.expect = FALSE, !.mode = "READ"]
    ELSE IF c.close THEN Terminate(c)
    ELSE ReadAndRespond([Clear(c) EXCEPT !.mode = "READ"], 0, x)

\* Mutant: one buffer sent counts as the whole response.
MutHandleClientOut(c, x) ==
    LET d == [c EXCEPT !.out = IF @ = 0 THEN 0 ELSE @ - 1]
    IN IF c.out # 0 /\ x.writeError THEN Terminate(c) ELSE HandleSent(d, x)

HandleClientOut(c, x) ==
    LET d == [c EXCEPT !.out = IF @ = 0 THEN 0 ELSE @ - 1]
    IN IF c.out # 0 /\ x.writeError THEN Terminate(c)
       ELSE IF d.out = 0 THEN HandleSent(d, x) ELSE d

\* The EPOLLOUT branch of handleClientEvent.
WriteEvent(c, x) ==
    LET d == IF c.cgi # "none" THEN HandleCGIProcess(c, x) ELSE c
    IN IF d.response # NoResponse THEN HandleClientOut(d, x) ELSE d

-----------------------------------------------------------------------------
(***************************************************************************)
(* The events.                                                             *)
(***************************************************************************)
\* handleClientEvent looks at EPOLLIN only in these states.
ReadsInput(c) == c.mode = "READ" \/ c.bodyStatus # "ONGOING"

\* A polite peer holds the body back until it has seen "100 Continue".
HeldBack(c) ==
    /\ Polite
    /\ c.pos > 0
    /\ IF c.pos < HeaderUnits THEN c.kind.expect ELSE c.expect

MaySend(c, n) ==
    HeldBack(c) => c.pos + c.buffer + n <= HeaderUnits

\* The requests whose line may be the next unit, out of n buffered ones.
KindsSent(n) == {k \in Kinds : Polite /\ k.expect => n <= HeaderUnits}

StartsRequest(c) ==
    \/ c.parser = "NEW"
    \/ c.parser = "RLINE" /\ c.pos >= Size(c.kind)

InWorld(c, n) ==
    [kind : IF StartsRequest(c) THEN KindsSent(c.buffer + n) ELSE {NoKind},
     out : 1..MaxOut, missing : BOOLEAN, fork : BOOLEAN,
     writeError : {FALSE}, late : {FALSE},
     to : {NoTarget}]

OutWorld(c) ==
    [kind : IF c.buffer > 0 THEN KindsSent(c.buffer) ELSE {NoKind},
     out : 1..MaxOut, missing : BOOLEAN,
     fork : IF c.cgi = "local" \/ c.buffer > 0 THEN BOOLEAN ELSE {TRUE},
     writeError : BOOLEAN,
     late : IF c.cgi = "running" THEN BOOLEAN ELSE {FALSE},
     to : IF c.cgi = "local" THEN RedirTargets
          ELSE {NoTarget}]

\* EPOLLIN with n units to read.
EpollIn ==
    /\ client.live
    /\ ReadsInput(client)
    /\ \E n \in 1..(MaxUnits - received) :
         /\ MaySend(client, n)
         /\ received' = received + n
         /\ \E x \in InWorld(client, n) : client' = ReadAndRespond(client, n, x)

\* EPOLLIN, and read() returns 0 or fails.
PeerCloses ==
    /\ client.live
    /\ ReadsInput(client)
    /\ client' = Terminate(client)
    /\ UNCHANGED received

\* EPOLLOUT without an EPOLLIN that handleClientEvent would prefer.
EpollOut ==
    /\ client.live
    /\ client.mode = "WRITE"
    /\ \E x \in OutWorld(client) : client' = WriteEvent(client, x)
    /\ UNCHANGED received

\* EPOLLHUP, or a kill command of the operator.
EpollHup ==
    /\ client.live
    /\ client' = Terminate(client)
    /\ UNCHANGED received

\* Client::checkTO finds the client silent for CLIENT_TIME_OUT.
CheckTO ==
    /\ client.live
    /\ client.mode = "READ"
    /\ IF ~client.request THEN client' = Terminate(client)
       ELSE \E x \in InWorld(client, 0) :
              client' = GenerateResponse(
                          FillError([client EXCEPT !.mode = "WRITE"], 408),
                          408, x)
    /\ UNCHANGED received

\* The script ends, with an output or with a failure.
ChildExits ==
    /\ client.cgi = "running"
    /\ \E o \in CgiOutputs \union {"failed"} :
         client' = [client EXCEPT !.cgi = o]
    /\ UNCHANGED received

Init == client = NewClient /\ received = 0

Next == EpollIn \/ PeerCloses \/ EpollOut \/ EpollHup \/ CheckTO \/ ChildExits

Spec == Init /\ [][Next]_vars

(***************************************************************************)
(* Fairness.  A connection with something to write gets its EPOLLOUT as    *)
(* long as the peer reads, the event loop calls checkTO at least every     *)
(* 50 ms, and a child that never ends runs into CGI_TIME_OUT (the only     *)
(* way EpollOut can change a connection whose child is running).           *)
(*                                                                         *)
(* This is weak fairness of EpollOut and of CheckTO with ENABLED spelled   *)
(* out: CanWrite and CanTimeOut say when these actions can change the      *)
(* connection.                                                             *)
(***************************************************************************)
CanWrite ==
    /\ client.live
    /\ client.mode = "WRITE"
    /\ client.response # NoResponse \/ client.cgi # "none"

CanTimeOut == client.live /\ client.mode = "READ"

Fairness ==
    /\ []<>~CanWrite \/ []<><<EpollOut>>_vars
    /\ []<>~CanTimeOut \/ []<><<CheckTO>>_vars

FairSpec == Spec /\ Fairness

-----------------------------------------------------------------------------
(***************************************************************************)
(* Properties.                                                             *)
(***************************************************************************)
(***************************************************************************)
(* The inductive invariant behind ReadOwesNothing and WorkOnWholeRequest.  *)
(***************************************************************************)
\* All of the request is parsed and nothing of its body is outstanding.
Whole(c) ==
    /\ c.pos = Size(c.kind)
    /\ c.headerStatus = "DONE"
    /\ c.bodyStatus # "ONGOING"

\* A response is there exactly as long as it is needed: not in READ mode,
\* and never missing while buffers are queued.
ResponseMatchesMode(c) ==
    /\ c.mode = "READ" => c.response = NoResponse
    /\ c.response = NoResponse => c.out = 0

\* How far the parser is, by the status of the header and of the body.
ParserMatchesStatus(c) ==
    /\ c.headerStatus = "ONGOING" =>
         /\ c.bodyStatus = "NONE"
         /\ c.parser # "TERM"
         /\ c.parser = "NEW" => c.pos = 0
         /\ c.parser = "ONGOING" => c.pos \in 1..(HeaderUnits - 1)
    /\ c.headerStatus # "ONGOING" => c.pos \in HeaderUnits..Size(c.kind)
    /\ c.headerStatus = "READY" => c.pos = HeaderUnits
    /\ c.headerStatus # "DONE" => ~c.cgiRedir
    /\ c.headerStatus = "DONE" /\ c.bodyStatus # "ONGOING" => Whole(c)

WorkIsWhole(c) ==
    c.cgi # "none" \/ c.response \in 200..299 => Whole(c)

\* The inductive invariant, of the connection's record.
Good(c) ==
    /\ c \in ClientType
    /\ ResponseMatchesMode(c)
    /\ ParserMatchesStatus(c)
    /\ WorkIsWhole(c)

\* The record has its type, and the read bound is kept.
TypeOK == client \in ClientType /\ received \in 0..MaxUnits

\* A connection that waits for input owes the peer nothing: no response is
\* pending and no buffer is queued.  Whatever handler put it in READ mode,
\* nothing could be sent before checkTO moves it to WRITE again.
ReadOwesNothing ==
    client.live /\ client.mode = "READ" =>
        client.response = NoResponse /\ client.out = 0

\* A connection in WRITE mode has something to write or a child to wait for;
\* otherwise no event, and no timeout, would ever move it again.
WriteHasWork ==
    client.live /\ client.mode = "WRITE" =>
        client.response # NoResponse \/ client.cgi # "none"

\* A script runs, and a success is answered, only on a whole request: all
\* its units are parsed and no body is outstanding, however the reads cut
\* the stream and whatever was pipelined behind it.
WorkOnWholeRequest ==
    client.cgi # "none" \/ client.response \in 200..299 => Whole(client)

\* The invariant that makes the two above inductive.
ConnectionInv == Good(client) /\ received \in 0..MaxUnits

\* The temporary body file of a CGI request goes away with its stream,
\* whether the request succeeds, fails, times out or loses its peer:
\* deleteBodyStream decides by two hints that the response may rewrite.
TmpBodyOwned == client.tmpBody => client.bodyFile = "tmp"

\* The output file of a script goes away with its CGIProcess.
TmpOutOwned == client.tmpOut => client.cgi # "none"

\* No file is removed that has to stay: ~CGIProcess removes no file but the
\* script's output, deleteBodyStream removes the target of an upload only when
\* the upload has not been answered as done, and a DELETE removes the resource
\* it names, although each of them goes by hints that redirections, error
\* pages and timeouts rewrite.
ForeignFilesKept == ~client.foreign

\* A request is timed out (408) only while some of its input is missing.
TimeoutOnlyIncomplete ==
    [][client'.response = 408 /\ client.response # 408 =>
           client'.pos < Size(client'.kind)]_vars

\* What an upload of a body, of nothing included, is to be answered with.
UploadStatus(k) ==
    IF k.body = 0 THEN 204
    ELSE [new |-> 201, old |-> 200, denied |-> 403][k.target]

\* The statuses that are right for a request the server has taken in.  Behind
\* a local redirection to a file the status is the 0 that handleCGIProcess
\* passes on.
RightStatuses(c) ==
    CASE c.kind.at # "ok"                 -> {c.kind.refuse}
      [] c.kind.at = "ok" /\ c.kind.expect /\ c.kind.body = 0 -> {400}
      [] OTHER ->
           IF c.kind.type = "cgi" THEN {200, 302}
           ELSE IF c.cgiRedir THEN {0}
           ELSE IF c.kind.type = "dir" THEN {200}
           ELSE {[GET |-> 200, DELETE |-> 204,
                  PUT |-> UploadStatus(c.kind)][c.kind.method]}

\* The refusal of such a request is lost: the header is read on, and the 100
\* it asks for replaces the refusal that is still to be sent.
ContinuesRefused(k) == k.at = "field" /\ k.expect

\* A final response fits the request it answers: the status is the reason the
\* request was refused for, or the one its method, its resource and its body
\* call for, unless the server timed out or failed.  The status goes through
\* resHints.status, return values that are dropped and a default of 0 on its
\* way to the response.
AnswerFitsRequest ==
    [][/\ client.response \in {NoResponse, 100}
       /\ client'.response \notin {NoResponse, 100, 408, 500, 503}
       /\ ~ContinuesRefused(client'.kind)
       => client'.response \in RightStatuses(client')]_vars

\* The parser starts a new request on a live connection only at the end of
\* the one before, and only when that one was answered: pipelined requests
\* are neither cut in the middle nor left without their response.
NextRequestAtBoundary ==
    [][client'.live /\ client'.pos < client.pos =>
           /\ client.pos = Size(client.kind)
           /\ client.answers > 0 \/ client.cgi # "none"]_vars

\* A 2xx response is never taken back or replaced by another response while
\* the connection lives: it leaves only once its last buffer was written.
SuccessIsDelivered ==
    [][/\ client.response \in 200..299
       /\ client'.live
       /\ client'.response # client.response
       => client.out <= 1]_vars

(***************************************************************************)
(* The abstract exchange in terms of the connection's record.              *)
(***************************************************************************)
ExchangeStage(c) ==
    IF ~c.live THEN "closed"
    ELSE IF c.response # NoResponse THEN "answering"
    ELSE IF c.cgi # "none" THEN "working"
    ELSE IF c.pos = 0 THEN "idle" ELSE "reading"

E == INSTANCE Exchange WITH
        stage <- ExchangeStage(client),
        response <- client.response,
        left <- client.out

\* For a peer that expects no 100 the connection implements the exchange:
\* one answer per request, sent to its end before the next one is taken,
\* whatever is pipelined, times out or ends meanwhile, and nothing served
\* after a refusal or a redirection.
ImplementsExchange == E!Spec

\* No connection hangs: the peer's input is bounded, so sooner or later it
\* is answered, timed out and closed.
NoClientHangs == client.live ~> ~client.live
=============================================================================
