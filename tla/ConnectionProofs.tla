-------------------------- MODULE ConnectionProofs --------------------------
(***************************************************************************)
(* Proofs about Connection, for every set of requests, outputs and bounds, *)
(* in three parts.                                                         *)
(*                                                                         *)
(* First, Good is preserved by every handler, so the connection keeps its  *)
(* type, owes nothing while it reads, and works only on whole requests.    *)
(* Second, what one event may do; third, what a connection owes a peer     *)
(* that sends no early body, up to the refinement of Exchange.             *)
(*                                                                         *)
(* Each handler has a lemma about the record it returns.  The lemmas on    *)
(* single updates come first: the new record has its type, and the fields  *)
(* that Good looks at have the values they should.                         *)
(***************************************************************************)
EXTENDS Connection, TLAPS

\* d agrees with c on the fields that Good looks at, but for the CGIProcess.
SameButCgi(c, d) ==
    /\ d.mode = c.mode
    /\ d.headerStatus = c.headerStatus
    /\ d.bodyStatus = c.bodyStatus
    /\ d.kind = c.kind
    /\ d.pos = c.pos
    /\ d.parser = c.parser
    /\ d.cgiRedir = c.cgiRedir
    /\ d.response = c.response
    /\ d.out = c.out

Same(c, d) == SameButCgi(c, d) /\ d.cgi = c.cgi

\* A change to other fields keeps Good, and so does losing the CGIProcess.
LEMMA SameGood ==
    ASSUME NEW c, NEW d, Good(c), d \in ClientType, SameButCgi(c, d),
           d.cgi \in {c.cgi, "none"}
    PROVE  Good(d)
BY DEF Good, SameButCgi, ResponseMatchesMode, ParserMatchesStatus,
       WorkIsWhole, Whole

\* Whole looks at four fields only: a record that agrees on them is as whole.
LEMMA SameWhole ==
    ASSUME NEW c, NEW d, Whole(c), SameButCgi(c, d)
    PROVE  Whole(d)
BY DEF SameButCgi, Whole

-----------------------------------------------------------------------------
(***************************************************************************)
(* Cleaning up.                                                            *)
(***************************************************************************)

\* Client::deleteBodyStream keeps the type and touches the body file only.
LEMMA DeleteBodyStreamType ==
    ASSUME NEW c \in ClientType
    PROVE  /\ DeleteBodyStream(c) \in ClientType
           /\ Same(c, DeleteBodyStream(c))
<1>1. CASE c.bodyFile = "none"
  BY <1>1 DEF DeleteBodyStream, Same, SameButCgi
<1>2. CASE c.bodyFile # "none"
  <2> DEFINE t == IF c.bodyFile = "tmp" /\ UnlinksBody(c) THEN FALSE
                  ELSE c.tmpBody
             u == IF /\ c.bodyFile = "target" /\ UnlinksBody(c)
                     /\ Succeeded(c)
                  THEN TRUE ELSE c.foreign
             d == [c EXCEPT !.bodyFile = "none", !.tmpBody = t, !.foreign = u]
  <2>1. t \in BOOLEAN /\ u \in BOOLEAN
    BY DEF ClientType
  <2>2. DeleteBodyStream(c) = d
    BY <1>2 DEF DeleteBodyStream
  <2> HIDE DEF t, u
  <2>3. d \in ClientType
    BY <2>1 DEF ClientType, BodyFiles
  <2>4. Same(c, d)
    BY DEF ClientType, Same, SameButCgi
  <2> QED
    BY <2>2, <2>3, <2>4
<1> QED
  BY <1>1, <1>2

\* Deleting the CGIProcess keeps the type and all but the child and files.
LEMMA DeleteCGIProcessType ==
    ASSUME NEW c \in ClientType
    PROVE  /\ DeleteCGIProcess(c) \in ClientType
           /\ SameButCgi(c, DeleteCGIProcess(c))
           /\ DeleteCGIProcess(c).cgi = "none"
<1>1. CASE c.cgi = "none"
  BY <1>1 DEF DeleteCGIProcess, SameButCgi
<1>2. CASE c.cgi # "none"
  <2> DEFINE t == IF c.path = "cgiout" THEN FALSE ELSE c.tmpOut
             u == IF c.path \in {"target", "errpage"} THEN TRUE
                  ELSE c.foreign
             d == [c EXCEPT !.cgi = "none", !.tmpOut = t, !.foreign = u]
  <2>1. t \in BOOLEAN /\ u \in BOOLEAN
    BY DEF ClientType
  <2>2. DeleteCGIProcess(c) = d
    BY <1>2 DEF DeleteCGIProcess
  <2> HIDE DEF t, u
  <2>3. d \in ClientType
    BY <2>1 DEF ClientType, Children
  <2>4. SameButCgi(c, d) /\ d.cgi = "none"
    BY DEF ClientType, SameButCgi
  <2> QED
    BY <2>2, <2>3, <2>4
<1> QED
  BY <1>1, <1>2

\* Deleting the CGIProcess keeps the invariant: there is less to justify.
LEMMA DeleteCGIProcessGood ==
    ASSUME NEW c, Good(c)
    PROVE  Good(DeleteCGIProcess(c))
BY DeleteCGIProcessType, SameGood DEF Good

\* Deleting the Request keeps the type.
LEMMA DeleteRequestType ==
    ASSUME NEW c \in ClientType
    PROVE  /\ DeleteRequest(c) \in ClientType
           /\ DeleteRequest(c).pos = 0
           /\ DeleteRequest(c).parser = "NEW"
           /\ DeleteRequest(c).response = c.response
           /\ DeleteRequest(c).out = c.out
           /\ DeleteRequest(c).cgi = c.cgi
<1>1. NoKind \in KindType
  BY DEF NoKind, KindType, Stages, Refusals, ReqTypes, Methods, Targets
<1>2. DeleteRequest(c) \in ClientType
  BY <1>1 DEF ClientType, DeleteRequest, ParserStatuses
<1> QED
  BY <1>2 DEF ClientType, DeleteRequest

\* Fresh ResHints keep the type.
LEMMA ResetHintsType ==
    ASSUME NEW c \in ClientType
    PROVE  /\ ResetHints(c) \in ClientType
           /\ ResetHints(c).cgiRedir = FALSE
           /\ ResetHints(c).pos = c.pos
           /\ ResetHints(c).parser = c.parser
           /\ ResetHints(c).response = c.response
           /\ ResetHints(c).out = c.out
           /\ ResetHints(c).cgi = c.cgi
<1>1. ResetHints(c) = [c EXCEPT !.type = "none", !.status = 0, !.path = "none",
              !.unlink = FALSE, !.close = FALSE, !.cgiRedir = FALSE]
  BY DEF ResetHints
<1>2. [c EXCEPT !.type = "none", !.status = 0, !.path = "none",
              !.unlink = FALSE, !.close = FALSE, !.cgiRedir = FALSE] \in ClientType
  BY DEF ClientType, ReqTypes, Paths
<1>3. ResetHints(c) \in ClientType
  BY <1>1, <1>2
<1> QED
  BY <1>3 DEF ClientType, ResetHints

\* The statuses that Client::clear resets keep the type.
LEMMA ResetStatusType ==
    ASSUME NEW c \in ClientType
    PROVE  [c EXCEPT !.bodyStatus = "NONE", !.headerStatus = "ONGOING",
                     !.answers = 0] \in ClientType
BY DEF ClientType, BodyStatuses, HeaderStatuses

\* What Client::terminate leaves behind keeps the type.
LEMMA ClosedType ==
    ASSUME NEW c \in ClientType
    PROVE  [c EXCEPT !.live = FALSE, !.mode = "READ", !.buffer = 0,
                     !.out = 0] \in ClientType
BY DEF ClientType, Modes

\* What Client::clear leaves.
LEMMA ClearFacts ==
    ASSUME NEW c \in ClientType
    PROVE  /\ Clear(c) \in ClientType
           /\ Clear(c).headerStatus = "ONGOING"
           /\ Clear(c).bodyStatus = "NONE"
           /\ Clear(c).parser = "NEW"
           /\ Clear(c).pos = 0
           /\ ~Clear(c).cgiRedir
           /\ Clear(c).response = NoResponse
           /\ Clear(c).cgi = "none"
           /\ Clear(c).out = c.out
<1> DEFINE b == DeleteBodyStream(c)
           d == DeleteCGIProcess(b)
           e == ClearResponse(d)
           f == DeleteRequest(e)
           g == ResetHints(f)
<1>1. b \in ClientType /\ b.out = c.out
  BY DeleteBodyStreamType DEF Same, SameButCgi
<1>2. d \in ClientType /\ d.cgi = "none" /\ d.out = c.out
  BY <1>1, DeleteCGIProcessType DEF SameButCgi
<1> HIDE DEF d
<1>3. /\ e \in ClientType /\ e.response = NoResponse /\ e.out = c.out
      /\ e.cgi = "none"
  BY <1>2 DEF ClientType, ClearResponse, Responses
<1> HIDE DEF e
<1>4. /\ f \in ClientType /\ f.response = NoResponse /\ f.out = c.out
      /\ f.cgi = "none" /\ f.pos = 0 /\ f.parser = "NEW"
  BY <1>3, DeleteRequestType
<1> HIDE DEF f
<1>5. /\ g \in ClientType /\ g.response = NoResponse /\ g.out = c.out
      /\ g.cgi = "none" /\ g.pos = 0 /\ g.parser = "NEW"
  BY <1>4, ResetHintsType
<1>6. ~g.cgiRedir
  BY <1>4, ResetHintsType
<1> HIDE DEF g
<1> DEFINE h == [g EXCEPT !.bodyStatus = "NONE", !.headerStatus = "ONGOING",
                          !.answers = 0]
<1>7. Clear(c) = h
  BY DEF Clear, b, d, e, f, g
<1>8. h \in ClientType
  BY <1>5, ResetStatusType
<1>9. /\ h.headerStatus = "ONGOING" /\ h.bodyStatus = "NONE"
      /\ h.parser = g.parser /\ h.pos = g.pos /\ h.response = g.response
      /\ h.cgi = g.cgi /\ h.out = g.out
  BY <1>5 DEF ClientType
<1>10. ~h.cgiRedir
  BY <1>5, <1>6 DEF ClientType
<1> HIDE DEF h
<1> QED
  BY <1>5, <1>7, <1>8, <1>9, <1>10

\* A connection just cleared, with nothing queued, is good in READ mode.
LEMMA FreshGood ==
    ASSUME NEW c \in ClientType, c.headerStatus = "ONGOING",
           c.bodyStatus = "NONE", c.parser = "NEW", c.pos = 0, ~c.cgiRedir,
           c.response = NoResponse, c.cgi = "none", c.out = 0
    PROVE  Good(c)
BY DEF Good, ResponseMatchesMode, ParserMatchesStatus, WorkIsWhole, NoResponse

\* After the last buffer of a final response the connection may read on.
LEMMA ClearGood ==
    ASSUME NEW c \in ClientType, c.out = 0
    PROVE  Good([Clear(c) EXCEPT !.mode = "READ"])
<1> DEFINE d == Clear(c)
           e == [d EXCEPT !.mode = "READ"]
<1>1. /\ d \in ClientType /\ d.headerStatus = "ONGOING" /\ d.bodyStatus = "NONE"
      /\ d.parser = "NEW" /\ d.pos = 0
      /\ d.response = NoResponse /\ d.cgi = "none" /\ d.out = 0
  BY ClearFacts
<1>2. ~d.cgiRedir
  BY ClearFacts
<1> HIDE DEF d
<1>3. e \in ClientType
  BY <1>1 DEF ClientType, Modes
<1>4. /\ e.headerStatus = d.headerStatus /\ e.bodyStatus = d.bodyStatus
      /\ e.parser = d.parser /\ e.pos = d.pos /\ e.response = d.response
      /\ e.cgi = d.cgi /\ e.out = d.out
  BY <1>1 DEF ClientType
<1>5. ~e.cgiRedir
  BY <1>1, <1>2 DEF ClientType
<1> HIDE DEF e
<1>6. Good(e)
  BY <1>1, <1>3, <1>4, <1>5, FreshGood
<1> QED
  BY <1>6 DEF e, d

\* Client::terminate leaves a good record, from whatever state it starts.
LEMMA TerminateGood ==
    ASSUME NEW c \in ClientType
    PROVE  Good(Terminate(c))
<1> DEFINE d == Clear(c)
           e == [d EXCEPT !.live = FALSE, !.mode = "READ", !.buffer = 0,
                          !.out = 0]
<1>1. /\ d \in ClientType /\ d.headerStatus = "ONGOING" /\ d.bodyStatus = "NONE"
      /\ d.parser = "NEW" /\ d.pos = 0
      /\ d.response = NoResponse /\ d.cgi = "none"
  BY ClearFacts
<1>2. ~d.cgiRedir
  BY ClearFacts
<1> HIDE DEF d
<1>3. e \in ClientType
  BY <1>1, ClosedType
<1>4. /\ e.headerStatus = d.headerStatus /\ e.bodyStatus = d.bodyStatus
      /\ e.parser = d.parser /\ e.pos = d.pos /\ e.response = d.response
      /\ e.cgi = d.cgi /\ e.out = 0
  BY <1>1 DEF ClientType
<1>5. ~e.cgiRedir
  BY <1>1, <1>2 DEF ClientType
<1> HIDE DEF e
<1>6. Good(e)
  BY <1>1, <1>3, <1>4, <1>5, FreshGood
<1> QED
  BY <1>6 DEF e, d, Terminate

-----------------------------------------------------------------------------
(***************************************************************************)
(* Making a response.                                                      *)
(***************************************************************************)

\* IControl::fillResponse keeps the type and all but status, path, unlink
\* and close.
LEMMA FillResponseType ==
    ASSUME NEW c \in ClientType, NEW st \in Nat
    PROVE  /\ FillResponse(c, st) \in ClientType
           /\ Same(c, FillResponse(c, st))
           /\ FillResponse(c, st).status = st
<1> DEFINE p == IF HasErrorPage(st) THEN "errpage"
                ELSE IF HasVerboseBody(st) THEN "none" ELSE c.path
           u == IF HasErrorPage(st) \/ HasVerboseBody(st) THEN FALSE
                ELSE c.unlink
           v == IF st \in 200..299 THEN c.kind.close ELSE TRUE
<1>1. p \in Paths
  BY DEF ClientType, Paths
<1>2. u \in BOOLEAN
  BY DEF ClientType
<1>3. v \in BOOLEAN
  <2>1. c.kind \in KindType
    BY DEF ClientType
  <2>2. c.kind.close \in BOOLEAN
    BY <2>1 DEF KindType
  <2> QED
    BY <2>2
<1>4. FillResponse(c, st) =
        [c EXCEPT !.status = st, !.path = p, !.unlink = u, !.close = v]
  BY DEF FillResponse
<1> HIDE DEF p, u, v
<1>5. FillResponse(c, st) \in ClientType
  <2>1. [c EXCEPT !.status = st, !.path = p, !.unlink = u, !.close = v]
            \in ClientType
    BY <1>1, <1>2, <1>3 DEF ClientType
  <2> QED
    BY <1>4, <2>1
<1>6. Same(c, FillResponse(c, st)) /\ FillResponse(c, st).status = st
  <2>1. FillResponse(c, st).status = st
    BY DEF ClientType, FillResponse
  <2>2. Same(c, FillResponse(c, st))
    BY DEF ClientType, FillResponse, Same, SameButCgi
  <2> QED
    BY <2>1, <2>2
<1> QED
  BY <1>5, <1>6

\* A response of status st is pending from now on.
LEMMA PendingGood ==
    ASSUME NEW c, Good(c), NEW st \in Nat, NEW n \in Nat, NEW a \in Nat,
           st \in 200..299 => Whole(c)
    PROVE  Good([c EXCEPT !.response = st, !.out = n, !.mode = "WRITE",
                          !.answers = a])
<1> DEFINE d == [c EXCEPT !.response = st, !.out = n, !.mode = "WRITE",
                          !.answers = a]
<1>1. c \in ClientType
  BY DEF Good
<1>2. d \in ClientType
  BY <1>1 DEF ClientType, Responses, Modes
<1>3. /\ d.mode = "WRITE" /\ d.response = st
      /\ d.headerStatus = c.headerStatus /\ d.bodyStatus = c.bodyStatus
      /\ d.kind = c.kind /\ d.pos = c.pos /\ d.parser = c.parser
      /\ d.cgiRedir = c.cgiRedir /\ d.cgi = c.cgi
  BY <1>1 DEF ClientType
<1> HIDE DEF d
<1>4. Good(d)
  BY <1>2, <1>3 DEF Good, ResponseMatchesMode, ParserMatchesStatus,
                    WorkIsWhole, Whole, NoResponse
<1> QED
  BY <1>4 DEF d

\* IControl::generateResponse keeps the invariant when a success is only
\* asked for a whole request; it leaves the client in WRITE mode.
LEMMA GenerateResponseGood ==
    ASSUME NEW c, Good(c), NEW st \in Nat, NEW x \in World,
           (IF st # 0 THEN st ELSE c.status) \in 200..299 => Whole(c)
    PROVE  Good(GenerateResponse(c, st, x))
<1> DEFINE s == IF st # 0 THEN st ELSE c.status
           d == FillResponse(c, s)
           e == IF GenResponseThrows(d, x) THEN FillResponse(d, 500) ELSE d
<1>1. CASE c.response # NoResponse
  BY <1>1 DEF GenerateResponse
<1>2. CASE c.response = NoResponse
  <2>1. c \in ClientType /\ s \in Nat
    BY DEF Good, ClientType
  <2>2. d \in ClientType /\ Same(c, d) /\ d.status = s
    BY <2>1, FillResponseType
  <2>3. s \in 200..299 => Whole(c)
    OBVIOUS
  <2> HIDE DEF s, d
  <2>4. Good(d) /\ (s \in 200..299 => Whole(d))
    BY <2>2, <2>3, SameGood, SameWhole DEF Same
  <2>5. /\ e \in ClientType /\ Good(e) /\ e.status \in Nat
        /\ e.status \in 200..299 => Whole(e)
    <3>1. CASE GenResponseThrows(d, x)
      <4>1. /\ FillResponse(d, 500) \in ClientType /\ Same(d, FillResponse(d, 500))
            /\ FillResponse(d, 500).status = 500
        BY <2>2, FillResponseType
      <4>2. Good(FillResponse(d, 500))
        BY <2>4, <4>1, SameGood DEF Same
      <4> QED
        BY <3>1, <4>1, <4>2
    <3>2. CASE ~GenResponseThrows(d, x)
      BY <2>1, <2>2, <2>4, <3>2
    <3> QED
      BY <3>1, <3>2
  <2>6. e.out + x.out \in Nat /\ e.answers + 1 \in Nat
    <3>1. x.out \in Nat
      BY BoundsAssumption DEF World
    <3>2. e.out \in Nat /\ e.answers \in Nat
      <4> HIDE DEF e
      <4> QED
        BY <2>5 DEF ClientType
    <3> QED
      BY <3>1, <3>2
  <2>7. GenerateResponse(c, st, x) =
          [e EXCEPT !.response = e.status, !.out = e.out + x.out,
                    !.mode = "WRITE", !.answers = e.answers + 1]
    BY <1>2 DEF GenerateResponse, s, d
  <2> HIDE DEF e
  <2> QED
    <3> DEFINE t == e.status
               n == e.out + x.out
               a == e.answers + 1
    <3>1. t \in Nat /\ n \in Nat /\ a \in Nat /\ (t \in 200..299 => Whole(e))
      BY <2>5, <2>6
    <3>2. GenerateResponse(c, st, x) =
            [e EXCEPT !.response = t, !.out = n, !.mode = "WRITE", !.answers = a]
      BY <2>7
    <3> HIDE DEF t, n, a
    <3>3. Good([e EXCEPT !.response = t, !.out = n, !.mode = "WRITE",
                         !.answers = a])
      BY <2>5, <3>1, PendingGood
    <3> QED
      BY <3>2, <3>3
<1> QED
  BY <1>1, <1>2

\* The fields that Whole looks at, and the CGIProcess, stay.
LEMMA ContinueFacts ==
    ASSUME NEW c, Good(c)
    PROVE  /\ Good(GenerateContinueResponse(c))
           /\ Whole(c) => Whole(GenerateContinueResponse(c))
           /\ GenerateContinueResponse(c).headerStatus = c.headerStatus
<1> DEFINE d == GenerateContinueResponse(c)
<1>1. c \in ClientType
  BY DEF Good
<1>2. d \in ClientType
  <2>1. c.out + 1 \in Nat
    BY <1>1 DEF ClientType
  <2>2. d = [c EXCEPT !.response = 100, !.out = c.out + 1, !.mode = "WRITE"]
    BY DEF GenerateContinueResponse
  <2> QED
    <3> DEFINE n == c.out + 1
    <3>1. d = [c EXCEPT !.response = 100, !.out = n, !.mode = "WRITE"] /\ n \in Nat
      BY <2>1, <2>2
    <3> HIDE DEF n
    <3>2. [c EXCEPT !.response = 100, !.out = n, !.mode = "WRITE"] \in ClientType
      BY <1>1, <3>1, ZenonT(60) DEF ClientType, Responses, Modes
    <3> QED
      BY <3>1, <3>2
<1>3. /\ d.mode = "WRITE" /\ d.response = 100
      /\ d.headerStatus = c.headerStatus /\ d.bodyStatus = c.bodyStatus
      /\ d.kind = c.kind /\ d.pos = c.pos /\ d.parser = c.parser
      /\ d.cgiRedir = c.cgiRedir /\ d.cgi = c.cgi
  BY <1>1 DEF ClientType, GenerateContinueResponse
<1> HIDE DEF d
<1>4. Good(d)
  BY <1>2, <1>3 DEF Good, ResponseMatchesMode, ParserMatchesStatus,
                    WorkIsWhole, Whole, NoResponse
<1>5. Whole(c) => Whole(d)
  BY <1>3 DEF Whole
<1> QED
  BY <1>3, <1>4, <1>5 DEF d

\* Launching a script on a whole request keeps the invariant, and so does
\* a fork() that fails.
LEMMA GenerateCGIProcessGood ==
    ASSUME NEW c, Good(c), Whole(c), NEW x \in World
    PROVE  /\ Good(GenerateCGIProcess(c, x).c)
           /\ GenerateCGIProcess(c, x).res \in {0, 500}
<1>1. c \in ClientType
  BY DEF Good
<1>2. CASE x.fork
  <2> DEFINE d == [c EXCEPT !.path = "cgiout", !.cgi = "running",
                            !.tmpOut = TRUE, !.mode = "WRITE"]
  <2>1. d \in ClientType
    BY <1>1 DEF ClientType, Children, Paths, Modes
  <2>2. /\ d.mode = "WRITE" /\ d.response = c.response /\ d.out = c.out
        /\ d.headerStatus = c.headerStatus /\ d.bodyStatus = c.bodyStatus
        /\ d.kind = c.kind /\ d.pos = c.pos /\ d.parser = c.parser
        /\ d.cgiRedir = c.cgiRedir
    BY <1>1 DEF ClientType
  <2>3. GenerateCGIProcess(c, x) = [c |-> d, res |-> 0]
    BY <1>2 DEF GenerateCGIProcess, Result
  <2> HIDE DEF d
  <2>4. Good(d)
    BY <2>1, <2>2 DEF Good, ResponseMatchesMode, ParserMatchesStatus,
                      WorkIsWhole, Whole
  <2> QED
    BY <2>3, <2>4
<1>3. CASE ~x.fork
  <2> DEFINE d == [c EXCEPT !.path = "cgiout"]
  <2>1. d \in ClientType
    BY <1>1 DEF ClientType, Paths
  <2>2. Same(c, d)
    BY <1>1 DEF ClientType, Same, SameButCgi
  <2>3. GenerateCGIProcess(c, x) = [c |-> d, res |-> 500]
    BY <1>3 DEF GenerateCGIProcess, Result
  <2> HIDE DEF d
  <2> QED
    BY <2>1, <2>2, <2>3, SameGood DEF Same
<1> QED
  BY <1>2, <1>3

\* IControl::handleClientResponse keeps the invariant when the status asked
\* for is no success, or the request is whole.
LEMMA HandleClientResponseGood ==
    ASSUME NEW c, Good(c), NEW res \in Nat \ {0}, NEW x \in World,
           res \in 200..299 => Whole(c)
    PROVE  Good(HandleClientResponse(c, res, x))
<1>1. CASE c.type # "cgi" \/ res # 200
  <2>1. Good(GenerateResponse(c, res, x))
    BY GenerateResponseGood
  <2> QED
    BY <1>1, <2>1 DEF HandleClientResponse
<1>2. CASE ~(c.type # "cgi" \/ res # 200)
  <2> DEFINE r == GenerateCGIProcess(c, x)
  <2>1. Whole(c)
    BY <1>2
  <2>2. Good(r.c) /\ r.res \in {0, 500}
    BY <2>1, GenerateCGIProcessGood
  <2>3. HandleClientResponse(c, res, x) =
          IF r.res = 0 THEN r.c ELSE GenerateResponse(r.c, 500, x)
    BY <1>2 DEF HandleClientResponse
  <2> HIDE DEF r
  <2>4. Good(GenerateResponse(r.c, 500, x))
    BY <2>2, GenerateResponseGood
  <2> QED
    BY <2>2, <2>3, <2>4
<1> QED
  BY <1>1, <1>2

-----------------------------------------------------------------------------
(***************************************************************************)
(* Checking the headers.                                                   *)
(***************************************************************************)
\* d agrees with c on the fields that Good looks at, but for bodyStatus.
SameButBody(c, d) ==
    /\ d.mode = c.mode
    /\ d.headerStatus = c.headerStatus
    /\ d.kind = c.kind
    /\ d.pos = c.pos
    /\ d.parser = c.parser
    /\ d.cgiRedir = c.cgiRedir
    /\ d.response = c.response
    /\ d.out = c.out
    /\ d.cgi = c.cgi

\* checkBodyLength announces a body only when there is one to come.
LEMMA CheckBodyLengthFacts ==
    ASSUME NEW c \in ClientType
    PROVE  /\ CheckBodyLength(c) \in ClientType
           /\ SameButBody(c, CheckBodyLength(c))
           /\ CheckBodyLength(c).bodyStatus =
                IF ~c.cgiRedir /\ c.kind.body > 0 THEN "ONGOING" ELSE c.bodyStatus
<1>1. CASE ~c.cgiRedir /\ c.kind.body > 0
  <2> DEFINE d == [c EXCEPT !.bodyStatus = "ONGOING"]
  <2>1. CheckBodyLength(c) = d
    BY <1>1 DEF CheckBodyLength
  <2>2. d \in ClientType
    BY DEF ClientType, BodyStatuses
  <2>3. SameButBody(c, d) /\ d.bodyStatus = "ONGOING"
    BY DEF ClientType, SameButBody
  <2> QED
    BY <1>1, <2>1, <2>2, <2>3
<1>2. CASE ~(~c.cgiRedir /\ c.kind.body > 0)
  BY <1>2 DEF CheckBodyLength, SameButBody
<1> QED
  BY <1>1, <1>2

\* Host::checkRequest touches type, status and path only.
LEMMA CheckRequestFacts ==
    ASSUME NEW c \in ClientType
    PROVE  CheckRequest(c) \in ClientType /\ Same(c, CheckRequest(c))
<1> DEFINE t == c.kind.type
           p == IF c.kind.type # "cgi" /\ c.kind.method # "PUT"
                THEN "target" ELSE c.path
           d == [c EXCEPT !.type = t, !.status = 0, !.path = p]
<1>1. t \in ReqTypes
  BY DEF ClientType, KindType
<1>2. p \in Paths
  BY DEF ClientType, Paths
<1>3. CheckRequest(c) = d
  BY DEF CheckRequest
<1> HIDE DEF t, p
<1>4. d \in ClientType
  BY <1>1, <1>2 DEF ClientType
<1>5. Same(c, d)
  BY DEF ClientType, Same, SameButCgi
<1> QED
  BY <1>3, <1>4, <1>5

\* defineBodyParsing touches status, path, unlink and the body file only.
LEMMA DefineBodyParsingFacts ==
    ASSUME NEW c \in ClientType
    PROVE  DefineBodyParsing(c) \in ClientType /\ Same(c, DefineBodyParsing(c))
<1>1. CASE c.type = "cgi"
  <2> DEFINE f == IF c.bodyStatus # "NONE" THEN "tmp" ELSE "none"
             t == IF c.bodyStatus # "NONE" THEN TRUE ELSE c.tmpBody
             d == [c EXCEPT !.unlink = TRUE, !.bodyFile = f, !.tmpBody = t]
  <2>1. f \in BodyFiles /\ t \in BOOLEAN
    BY DEF ClientType, BodyFiles
  <2>2. DefineBodyParsing(c) = d
    BY <1>1 DEF DefineBodyParsing
  <2> HIDE DEF f, t
  <2>3. d \in ClientType
    BY <2>1 DEF ClientType
  <2>4. Same(c, d)
    BY DEF ClientType, Same, SameButCgi
  <2> QED
    BY <2>2, <2>3, <2>4
<1>2. CASE c.type # "cgi" /\ c.type = "static" /\ c.kind.method = "PUT"
  <2>1. CASE c.kind.target = "denied"
    <3> DEFINE d == [c EXCEPT !.status = 403]
    <3>1. DefineBodyParsing(c) = d
      BY <1>2, <2>1 DEF DefineBodyParsing
    <3>2. d \in ClientType
      BY DEF ClientType
    <3>3. Same(c, d)
      BY DEF ClientType, Same, SameButCgi
    <3> QED
      BY <3>1, <3>2, <3>3
  <2>2. CASE c.kind.target # "denied"
    <3> DEFINE st == IF c.kind.target = "new" THEN 201 ELSE 200
               d == [c EXCEPT !.status = st, !.path = "target",
                              !.bodyFile = "target", !.unlink = FALSE]
    <3>1. DefineBodyParsing(c) = d
      BY <1>2, <2>2 DEF DefineBodyParsing
    <3>2. st \in Nat
      OBVIOUS
    <3> HIDE DEF st
    <3>3. d \in ClientType
      BY <3>2 DEF ClientType, Paths, BodyFiles
    <3>4. Same(c, d)
      BY DEF ClientType, Same, SameButCgi
    <3> QED
      BY <3>1, <3>3, <3>4
  <2> QED
    BY <2>1, <2>2
<1>3. CASE c.type # "cgi" /\ ~(c.type = "static" /\ c.kind.method = "PUT")
  <2> DEFINE d == [c EXCEPT !.bodyFile = "none"]
  <2>1. DefineBodyParsing(c) = d
    BY <1>3 DEF DefineBodyParsing
  <2>2. d \in ClientType
    BY DEF ClientType, BodyFiles
  <2>3. Same(c, d)
    BY DEF ClientType, Same, SameButCgi
  <2> QED
    BY <2>1, <2>2, <2>3
<1> QED
  BY <1>1, <1>2, <1>3

\* What handleRequestHeaders needs of a request: its header is just read, or
\* it is whole and led on by a local redirection.
HeadersMayBeChecked(c) ==
    \/ /\ c.headerStatus = "READY"
       /\ c.bodyStatus = "NONE"
    \/ Whole(c) /\ c.cgiRedir

\* handleRequestHeaders keeps the invariant on a header just read, and on
\* the whole request of a script that redirects.
LEMMA HandleRequestHeadersGood ==
    ASSUME NEW c, Good(c), HeadersMayBeChecked(c)
    PROVE  LET r == HandleRequestHeaders(c)
           IN /\ Good(r.c)
              /\ r.res \in {0} \union Refusals
              /\ r.res = 0 => r.c.headerStatus = "DONE"
              /\ Whole(c) /\ c.cgiRedir => Whole(r.c)
<1> DEFINE k == c.kind
           d == CheckBodyLength(c)
           e == CheckRequest(d)
           g == IF c.cgiRedir THEN e ELSE DefineBodyParsing(e)
           f == [g EXCEPT !.headerStatus = "DONE"]
           r == HandleRequestHeaders(c)
<1>0. c \in ClientType /\ k \in KindType /\ k.refuse \in Refusals
      /\ k.body \in Nat /\ k.type \in ReqTypes
  BY DEF Good, ClientType, KindType
<1>1. /\ d \in ClientType /\ SameButBody(c, d)
      /\ d.bodyStatus = IF ~c.cgiRedir /\ k.body > 0 THEN "ONGOING"
                        ELSE c.bodyStatus
  BY <1>0, CheckBodyLengthFacts
<1> HIDE DEF d
<1>2. Good(d) /\ (Whole(c) /\ c.cgiRedir => Whole(d))
  BY <1>0, <1>1 DEF Good, ResponseMatchesMode, ParserMatchesStatus, WorkIsWhole,
                    Whole, SameButBody, HeadersMayBeChecked
<1>3. e \in ClientType /\ Same(d, e)
  BY <1>1, CheckRequestFacts
<1> HIDE DEF e
<1>4. Good(e) /\ (Whole(c) /\ c.cgiRedir => Whole(e))
  BY <1>2, <1>3, SameGood, SameWhole DEF Same
<1>5. g \in ClientType /\ Same(e, g)
  <2>1. CASE c.cgiRedir
    BY <1>3, <2>1 DEF Same, SameButCgi
  <2>2. CASE ~c.cgiRedir
    BY <1>3, <2>2, DefineBodyParsingFacts
  <2> QED
    BY <2>1, <2>2
<1> HIDE DEF g
<1>6. Good(g) /\ (Whole(c) /\ c.cgiRedir => Whole(g))
  BY <1>4, <1>5, SameGood, SameWhole DEF Same
<1>7. /\ f \in ClientType /\ f.headerStatus = "DONE"
      /\ f.mode = g.mode /\ f.bodyStatus = g.bodyStatus /\ f.kind = g.kind
      /\ f.pos = g.pos /\ f.parser = g.parser /\ f.response = g.response
      /\ f.out = g.out /\ f.cgi = g.cgi
  <2>1. f \in ClientType
    BY <1>5 DEF ClientType, HeaderStatuses
  <2> QED
    BY <1>5, <2>1 DEF ClientType
<1> HIDE DEF f
<1>8. /\ g.headerStatus = c.headerStatus /\ g.kind = k /\ g.pos = c.pos
      /\ g.bodyStatus = IF ~c.cgiRedir /\ k.body > 0 THEN "ONGOING"
                        ELSE c.bodyStatus
  BY <1>1, <1>3, <1>5 DEF Same, SameButCgi, SameButBody
<1>9. Good(f) /\ (Whole(c) /\ c.cgiRedir => Whole(f))
  <2>1. CASE Whole(c) /\ c.cgiRedir
    BY <2>1, <1>0, <1>6, <1>7, <1>8 DEF Good, ResponseMatchesMode,
         ParserMatchesStatus, WorkIsWhole, Whole
  <2>2. CASE ~(Whole(c) /\ c.cgiRedir)
    <3>1. c.headerStatus = "READY" /\ c.bodyStatus = "NONE" /\ ~c.cgiRedir
          /\ c.pos = HeaderUnits
      BY <2>2 DEF HeadersMayBeChecked, Good, ParserMatchesStatus
    <3>2. g.cgi = "none" /\ g.response \notin 200..299
      BY <3>1, <1>6, <1>8 DEF Good, WorkIsWhole, Whole
    <3>3. f.bodyStatus # "ONGOING" => f.pos = Size(f.kind)
      BY <3>1, <1>0, <1>7, <1>8 DEF Size, HeaderUnits
    <3>4. f.pos \in HeaderUnits..Size(f.kind)
      BY <3>1, <1>0, <1>7, <1>8 DEF Size, HeaderUnits
    <3> QED
      BY <2>2, <3>2, <3>3, <3>4, <1>6, <1>7 DEF Good, ResponseMatchesMode,
         ParserMatchesStatus, WorkIsWhole, Whole
  <2> QED
    BY <2>1, <2>2
<1>10. CASE k.at = "early"
  <2> DEFINE h == [c EXCEPT !.status = k.refuse]
  <2>1. r = [c |-> h, res |-> k.refuse]
    BY <1>10 DEF HandleRequestHeaders, Result
  <2>2. k.refuse \in Nat
    BY <1>0 DEF Refusals
  <2>3. h \in ClientType /\ Same(c, h)
    BY <1>0, <2>2 DEF ClientType, Same, SameButCgi
  <2> HIDE DEF h
  <2>4. Good(h) /\ (Whole(c) => Whole(h))
    BY <2>3, SameGood, SameWhole DEF Same
  <2> QED
    BY <1>0, <2>1, <2>4 DEF Refusals
<1>11. CASE k.at # "early" /\ k.at = "late"
  <2> DEFINE h == [d EXCEPT !.status = k.refuse, !.type = k.type]
  <2>1. r = [c |-> h, res |-> k.refuse]
    BY <1>11 DEF HandleRequestHeaders, Result, d
  <2>2. k.refuse \in Nat
    BY <1>0 DEF Refusals
  <2>3. h \in ClientType
    BY <1>0, <1>1, <2>2 DEF ClientType
  <2>4. Same(d, h)
    BY <1>1 DEF ClientType, Same, SameButCgi
  <2> HIDE DEF h
  <2>5. Good(h) /\ (Whole(c) /\ c.cgiRedir => Whole(h))
    BY <1>2, <2>3, <2>4, SameGood, SameWhole DEF Same
  <2> QED
    BY <1>0, <2>1, <2>5 DEF Refusals
<1>12. CASE k.at \notin {"early", "late"} /\ e.expect /\ e.bodyStatus = "NONE"
  <2> DEFINE h == [e EXCEPT !.status = 400, !.expect = FALSE]
  <2>1. r = [c |-> h, res |-> 400]
    BY <1>12 DEF HandleRequestHeaders, Result, d, e
  <2>2. h \in ClientType
    <3> DEFINE u == FALSE
               i == [e EXCEPT !.status = 400]
    <3>1. i \in ClientType
      BY <1>3 DEF ClientType
    <3>2. u \in BOOLEAN /\ h = [i EXCEPT !.expect = u]
      OBVIOUS
    <3> HIDE DEF i, u
    <3>3. [i EXCEPT !.expect = u] \in ClientType
      BY <3>1, <3>2 DEF ClientType
    <3> QED
      BY <3>2, <3>3
  <2>3. Same(e, h)
    BY <1>3 DEF ClientType, Same, SameButCgi
  <2> HIDE DEF h
  <2>4. Good(h) /\ (Whole(c) /\ c.cgiRedir => Whole(h))
    BY <1>4, <2>2, <2>3, SameGood, SameWhole DEF Same
  <2> QED
    BY <2>1, <2>4 DEF Refusals
<1>13. CASE k.at \notin {"early", "late"} /\ e.expect /\ e.bodyStatus # "NONE"
  <2> DEFINE h == GenerateContinueResponse(f)
  <2>1. r = [c |-> h, res |-> 0]
    BY <1>13 DEF HandleRequestHeaders, Result, d, e, g, f
  <2>2. /\ Good(h) /\ (Whole(c) /\ c.cgiRedir => Whole(h))
        /\ h.headerStatus = "DONE"
    BY <1>7, <1>9, ContinueFacts
  <2> HIDE DEF h
  <2> QED
    BY <2>1, <2>2
<1>14. CASE k.at \notin {"early", "late"} /\ ~e.expect
  <2>1. r = [c |-> f, res |-> 0]
    BY <1>14 DEF HandleRequestHeaders, Result, d, e, g, f
  <2> QED
    BY <1>7, <1>9, <2>1
<1> QED
  BY <1>10, <1>11, <1>12, <1>13, <1>14

\* What handleRequestBodyDone answers with.
LEMMA HandleRequestBodyDoneGood ==
    ASSUME NEW c, Good(c)
    PROVE  LET r == HandleRequestBodyDone(c)
           IN Good(r.c) /\ r.res \in Nat /\ (Whole(c) => Whole(r.c))
<1>1. c \in ClientType
  BY DEF Good
<1>2. CASE c.type = "static" /\ c.kind.method = "PUT"
  <2> DEFINE st == IF c.kind.body > 0 THEN c.status ELSE 204
  <2>1. HandleRequestBodyDone(c) = [c |-> c, res |-> st]
    BY <1>2 DEF HandleRequestBodyDone, Result
  <2>2. st \in Nat
    BY <1>1 DEF ClientType
  <2> HIDE DEF st
  <2> QED
    BY <2>1, <2>2
<1>3. CASE ~(c.type = "static" /\ c.kind.method = "PUT")
           /\ c.type = "static" /\ c.kind.method = "DELETE"
  <2> DEFINE u == IF c.path \in {"errpage", "cgiout"} THEN TRUE ELSE c.foreign
             d == [c EXCEPT !.path = "none", !.foreign = u]
  <2>1. HandleRequestBodyDone(c) = [c |-> d, res |-> 204]
    BY <1>3 DEF HandleRequestBodyDone, Result
  <2>5. u \in BOOLEAN
    BY <1>1 DEF ClientType
  <2> HIDE DEF u
  <2>2. d \in ClientType
    BY <1>1, <2>5 DEF ClientType, Paths
  <2>3. Same(c, d)
    BY <1>1 DEF ClientType, Same, SameButCgi
  <2> HIDE DEF d
  <2>4. Good(d) /\ (Whole(c) => Whole(d))
    BY <2>2, <2>3, SameGood, SameWhole DEF Same
  <2> QED
    BY <2>1, <2>4
<1>4. CASE ~(c.type = "static" /\ c.kind.method = "PUT")
           /\ ~(c.type = "static" /\ c.kind.method = "DELETE")
  <2>1. HandleRequestBodyDone(c) = [c |-> c, res |-> 200]
    BY <1>4 DEF HandleRequestBodyDone, Result
  <2> QED
    BY <2>1
<1> QED
  BY <1>2, <1>3, <1>4

-----------------------------------------------------------------------------
(***************************************************************************)
(* Parsing.                                                                *)
(***************************************************************************)

\* Taking one unit from the buffer moves pos by one and nothing else.
LEMMA ConsumeFacts ==
    ASSUME NEW c \in ClientType, NEW n \in 0..c.buffer
    PROVE  /\ Consume(c, n) \in ClientType
           /\ Consume(c, n).pos = c.pos + n
           /\ Consume(c, n).mode = c.mode
           /\ Consume(c, n).headerStatus = c.headerStatus
           /\ Consume(c, n).bodyStatus = c.bodyStatus
           /\ Consume(c, n).kind = c.kind
           /\ Consume(c, n).parser = c.parser
           /\ Consume(c, n).cgiRedir = c.cgiRedir
           /\ Consume(c, n).response = c.response
           /\ Consume(c, n).out = c.out
           /\ Consume(c, n).cgi = c.cgi
<1> DEFINE p == c.pos + n
           b == c.buffer - n
           d == [c EXCEPT !.pos = p, !.buffer = b]
<1>1. p \in Nat /\ b \in Nat
  BY DEF ClientType
<1>2. Consume(c, n) = d
  BY DEF Consume
<1> HIDE DEF p, b
<1>3. d \in ClientType
  BY <1>1 DEF ClientType
<1>4. /\ d.pos = p /\ d.mode = c.mode /\ d.headerStatus = c.headerStatus
      /\ d.bodyStatus = c.bodyStatus /\ d.kind = c.kind /\ d.parser = c.parser
      /\ d.cgiRedir = c.cgiRedir /\ d.response = c.response /\ d.out = c.out
      /\ d.cgi = c.cgi
  BY DEF ClientType
<1> HIDE DEF d
<1> QED
  BY <1>2, <1>3, <1>4 DEF p

\* Request::_fillError touches error, status and the stream's state only.
LEMMA FillErrorFacts ==
    ASSUME NEW c \in ClientType, NEW st \in Nat
    PROVE  FillError(c, st) \in ClientType /\ Same(c, FillError(c, st))
<1>1. FillError(c, st) \in ClientType
  BY DEF ClientType, FillError
<1>2. Same(c, FillError(c, st))
  BY DEF ClientType, FillError, Same, SameButCgi
<1> QED
  BY <1>1, <1>2

\* A step of the parser inside the header: the request is not whole, so
\* nothing has been done for it.
LEMMA HeaderStepGood ==
    ASSUME NEW c, Good(c), NEW d \in ClientType, c.headerStatus = "ONGOING",
           d.mode = c.mode, d.headerStatus = c.headerStatus,
           d.bodyStatus = c.bodyStatus, d.cgiRedir = c.cgiRedir,
           d.response = c.response, d.out = c.out, d.cgi = c.cgi,
           \/ d.parser = "RLINE"
           \/ d.parser = "ONGOING" /\ d.pos \in 1..(HeaderUnits - 1)
    PROVE  Good(d)
BY DEF Good, ResponseMatchesMode, ParserMatchesStatus, WorkIsWhole, Whole

\* The blank line has been parsed.
LEMMA HeaderEndGood ==
    ASSUME NEW c, Good(c), NEW d \in ClientType, c.headerStatus = "ONGOING",
           d.mode = c.mode, d.bodyStatus = c.bodyStatus,
           d.cgiRedir = c.cgiRedir, d.response = c.response, d.out = c.out,
           d.cgi = c.cgi, d.headerStatus = "READY", d.pos = HeaderUnits
    PROVE  Good(d)
<1>1. d.kind \in KindType
  BY DEF ClientType
<1>2. d.kind.body \in Nat
  BY <1>1 DEF KindType
<1>3. HeaderUnits \in HeaderUnits..Size(d.kind)
  BY <1>2 DEF HeaderUnits, Size
<1> QED
  BY <1>3 DEF Good, ResponseMatchesMode, ParserMatchesStatus, WorkIsWhole, Whole

\* What the parser of the header returns: a good record, or one that is good
\* once parseRequest has set the header status.
HeaderResult(r) ==
    /\ r.res \in {-1, 0} \union Refusals
    /\ r.res >= 0 => Good(r.c)
    /\ r.res < 0 => r.c \in ClientType
                    /\ Good([r.c EXCEPT !.headerStatus = "READY"])

\* Reading header lines keeps the invariant and ends before the blank line,
\* at it, or with a refusal.
LEMMA ParseFieldsGood ==
    ASSUME NEW c, Good(c), c.headerStatus = "ONGOING", c.parser = "ONGOING"
    PROVE  HeaderResult(ParseFields(c))
<1>1. /\ c \in ClientType /\ c.pos \in 1..(HeaderUnits - 1) /\ c.buffer \in Nat
      /\ c.kind \in KindType
  BY DEF Good, ParserMatchesStatus, ClientType
<1>2. c.kind.refuse \in Refusals /\ c.kind.refuse \in Nat
  BY <1>1 DEF KindType, Refusals
<1>3. CASE c.buffer = 0
  <2>1. ParseFields(c) = [c |-> c, res |-> 0]
    BY <1>3 DEF ParseFields, Result
  <2> QED
    BY <2>1 DEF HeaderResult
<1>4. CASE c.buffer # 0 /\ c.pos = 1 /\ c.kind.at = "field"
  <2> DEFINE d == Consume(c, 1)
             e == FillError(d, c.kind.refuse)
  <2>1. ParseFields(c) = [c |-> e, res |-> c.kind.refuse]
    BY <1>4 DEF ParseFields, Result
  <2>2. /\ d \in ClientType /\ d.pos = 2 /\ d.mode = c.mode
        /\ d.headerStatus = c.headerStatus
        /\ d.bodyStatus = c.bodyStatus /\ d.cgiRedir = c.cgiRedir
        /\ d.response = c.response /\ d.out = c.out /\ d.cgi = c.cgi
        /\ d.parser = c.parser
    BY <1>1, <1>4, ConsumeFacts
  <2> HIDE DEF d
  <2>3. Good(d)
    BY <1>1, <2>2, HeaderStepGood DEF HeaderUnits
  <2>4. e \in ClientType /\ Same(d, e)
    BY <1>2, <2>2, FillErrorFacts
  <2>5. Good(e)
    BY <2>3, <2>4, SameGood DEF Same
  <2> HIDE DEF e
  <2> QED
    BY <1>2, <2>1, <2>5 DEF HeaderResult, Refusals
<1>5. CASE /\ c.buffer # 0 /\ ~(c.pos = 1 /\ c.kind.at = "field")
           /\ c.pos + c.buffer >= HeaderUnits
  <2> DEFINE d == Consume(c, HeaderUnits - c.pos)
             u == c.kind.expect
             v == FALSE
             e == [d EXCEPT !.parser = "TERM", !.error = v, !.expect = u]
             f == [e EXCEPT !.headerStatus = "READY"]
  <2>1. ParseFields(c) = [c |-> e, res |-> -1]
    BY <1>5 DEF ParseFields, Result
  <2>2. u \in BOOLEAN /\ v \in BOOLEAN
    BY <1>1 DEF KindType
  <2>3. /\ d \in ClientType /\ d.pos = HeaderUnits /\ d.mode = c.mode
        /\ d.bodyStatus = c.bodyStatus /\ d.cgiRedir = c.cgiRedir
        /\ d.response = c.response /\ d.out = c.out /\ d.cgi = c.cgi
    <3>1. HeaderUnits - c.pos \in 0..c.buffer
          /\ c.pos + (HeaderUnits - c.pos) = HeaderUnits
      BY <1>1, <1>5 DEF HeaderUnits
    <3> QED
      BY <1>1, <3>1, ConsumeFacts
  <2> HIDE DEF d, u, v
  <2>4. e \in ClientType
    BY <2>2, <2>3 DEF ClientType, ParserStatuses
  <2>5. /\ e.pos = d.pos /\ e.mode = d.mode /\ e.bodyStatus = d.bodyStatus
        /\ e.cgiRedir = d.cgiRedir /\ e.response = d.response
        /\ e.out = d.out /\ e.cgi = d.cgi
    BY <2>3 DEF ClientType
  <2> HIDE DEF e
  <2>6. f \in ClientType
    BY <2>4 DEF ClientType, HeaderStatuses
  <2>7. /\ f.pos = e.pos /\ f.mode = e.mode /\ f.bodyStatus = e.bodyStatus
        /\ f.cgiRedir = e.cgiRedir /\ f.response = e.response
        /\ f.out = e.out /\ f.cgi = e.cgi /\ f.headerStatus = "READY"
    BY <2>4 DEF ClientType
  <2>8. Good(f)
    <3> HIDE DEF f
    <3> QED
      BY <2>3, <2>5, <2>6, <2>7, HeaderEndGood
  <2> QED
    BY <2>1, <2>4, <2>8 DEF HeaderResult
<1>6. CASE /\ c.buffer # 0 /\ ~(c.pos = 1 /\ c.kind.at = "field")
           /\ ~(c.pos + c.buffer >= HeaderUnits)
  <2> DEFINE d == Consume(c, c.buffer)
  <2>1. ParseFields(c) = [c |-> d, res |-> 0]
    BY <1>6 DEF ParseFields, Result
  <2>2. /\ d \in ClientType /\ d.pos = c.pos + c.buffer /\ d.mode = c.mode
        /\ d.headerStatus = c.headerStatus
        /\ d.bodyStatus = c.bodyStatus /\ d.cgiRedir = c.cgiRedir
        /\ d.response = c.response /\ d.out = c.out /\ d.cgi = c.cgi
        /\ d.parser = c.parser
    BY <1>1, ConsumeFacts
  <2> HIDE DEF d
  <2>3. d.pos \in 1..(HeaderUnits - 1)
    BY <1>1, <1>6, <2>2 DEF HeaderUnits
  <2>4. Good(d)
    BY <2>2, <2>3, HeaderStepGood
  <2> QED
    BY <2>1, <2>4 DEF HeaderResult
<1> QED
  BY <1>3, <1>4, <1>5, <1>6

\* Request::parseHeaders keeps the invariant wherever the read cuts the
\* header.
LEMMA ParseHeadersGood ==
    ASSUME NEW c, Good(c), c.headerStatus = "ONGOING", NEW x \in World
    PROVE  HeaderResult(ParseHeaders(c, x))
<1> DEFINE s == [c EXCEPT !.kind = x.kind, !.pos = 1, !.buffer = c.buffer - 1]
<1>1. /\ c \in ClientType /\ c.buffer \in Nat /\ c.pos \in Nat
      /\ x.kind \in KindType
  BY DEF Good, ClientType, World
<1>2. x.kind.refuse \in Refusals /\ x.kind.refuse \in Nat
  BY <1>1 DEF KindType, Refusals
<1>3. CASE c.parser = "ONGOING"
  BY <1>3, ParseFieldsGood DEF ParseHeaders
<1>4. CASE c.parser # "ONGOING" /\ (c.parser = "TERM" \/ c.buffer = 0)
  <2>1. ParseHeaders(c, x) = [c |-> c, res |-> 0]
    BY <1>4 DEF ParseHeaders, Result
  <2> QED
    BY <2>1 DEF HeaderResult
<1>5. CASE /\ c.parser # "ONGOING" /\ ~(c.parser = "TERM" \/ c.buffer = 0)
           /\ c.parser = "RLINE" /\ c.pos < Size(c.kind)
  <2> DEFINE d == Consume(c, 1)
             e == FillError(d, 501)
  <2>1. ParseHeaders(c, x) = [c |-> e, res |-> 501]
    BY <1>5 DEF ParseHeaders, Result
  <2>2. /\ d \in ClientType /\ d.mode = c.mode
        /\ d.headerStatus = c.headerStatus
        /\ d.bodyStatus = c.bodyStatus /\ d.cgiRedir = c.cgiRedir
        /\ d.response = c.response /\ d.out = c.out /\ d.cgi = c.cgi
        /\ d.parser = c.parser
    BY <1>1, <1>5, ConsumeFacts
  <2> HIDE DEF d
  <2>3. Good(d)
    BY <1>5, <2>2, HeaderStepGood
  <2>4. e \in ClientType /\ Same(d, e)
    BY <2>2, FillErrorFacts
  <2>5. Good(e)
    BY <2>3, <2>4, SameGood DEF Same
  <2> HIDE DEF e
  <2> QED
    BY <2>1, <2>5 DEF HeaderResult, Refusals
<1>6. CASE /\ c.parser # "ONGOING" /\ ~(c.parser = "TERM" \/ c.buffer = 0)
           /\ ~(c.parser = "RLINE" /\ c.pos < Size(c.kind))
  <2>1. c.buffer - 1 \in Nat
    BY <1>1, <1>6
  <2>2. s \in ClientType
    <3> DEFINE k == x.kind
               b == c.buffer - 1
    <3>1. s = [c EXCEPT !.kind = k, !.pos = 1, !.buffer = b] /\ b \in Nat
          /\ k \in KindType
      BY <1>1, <2>1
    <3> HIDE DEF k, b
    <3>2. [c EXCEPT !.kind = k, !.pos = 1, !.buffer = b] \in ClientType
      BY <1>1, <3>1 DEF ClientType
    <3> QED
      BY <3>1, <3>2
  <2>3. /\ s.pos = 1 /\ s.mode = c.mode /\ s.headerStatus = c.headerStatus
        /\ s.bodyStatus = c.bodyStatus /\ s.cgiRedir = c.cgiRedir
        /\ s.response = c.response /\ s.out = c.out /\ s.cgi = c.cgi
    BY <1>1 DEF ClientType
  <2> DEFINE d == [s EXCEPT !.parser = "RLINE"]
             e == [s EXCEPT !.parser = "ONGOING"]
             f == FillError(d, x.kind.refuse)
  <2>4. ParseHeaders(c, x) = IF x.kind.at = "line"
                             THEN [c |-> f, res |-> x.kind.refuse]
                             ELSE ParseFields(e)
    BY <1>6 DEF ParseHeaders, Result
  <2> HIDE DEF s
  <2>5. Good(d)
    <3>1. d \in ClientType
      BY <2>2 DEF ClientType, ParserStatuses
    <3>2. /\ d.parser = "RLINE" /\ d.mode = s.mode
          /\ d.headerStatus = s.headerStatus
          /\ d.bodyStatus = s.bodyStatus /\ d.cgiRedir = s.cgiRedir
          /\ d.response = s.response /\ d.out = s.out /\ d.cgi = s.cgi
      BY <2>2 DEF ClientType
    <3> HIDE DEF d
    <3> QED
      BY <2>3, <3>1, <3>2, HeaderStepGood
  <2>6. Good(e) /\ e.parser = "ONGOING" /\ e.headerStatus = "ONGOING"
    <3>1. e \in ClientType
      BY <2>2 DEF ClientType, ParserStatuses
    <3>2. /\ e.parser = "ONGOING" /\ e.mode = s.mode
          /\ e.headerStatus = s.headerStatus /\ e.pos = s.pos
          /\ e.bodyStatus = s.bodyStatus /\ e.cgiRedir = s.cgiRedir
          /\ e.response = s.response /\ e.out = s.out /\ e.cgi = s.cgi
      BY <2>2 DEF ClientType
    <3> HIDE DEF e
    <3>3. e.pos \in 1..(HeaderUnits - 1)
      BY <2>3, <3>2 DEF HeaderUnits
    <3> QED
      BY <2>3, <3>1, <3>2, <3>3, HeaderStepGood
  <2> HIDE DEF d, e
  <2>7. f \in ClientType /\ Same(d, f)
    BY <1>2, <2>5, FillErrorFacts DEF Good
  <2>8. Good(f)
    BY <2>5, <2>7, SameGood DEF Same
  <2> HIDE DEF f
  <2>9. HeaderResult([c |-> f, res |-> x.kind.refuse])
    BY <1>2, <2>8 DEF HeaderResult, Refusals
  <2>10. HeaderResult(ParseFields(e))
    BY <2>6, ParseFieldsGood
  <2> QED
    BY <2>4, <2>9, <2>10
<1> QED
  BY <1>3, <1>4, <1>5, <1>6

\* What the parser of the body returns.
BodyResult(r) ==
    /\ r.res \in {-1, 0} \union Refusals
    /\ Good(r.c)
    /\ r.c.headerStatus = "DONE"
    /\ r.res < 0 => Good([r.c EXCEPT !.bodyStatus = "DONE"])

\* A record whose body is outstanding stays good when the parser moves on,
\* and the body may be taken for done once it is all there.
LEMMA BodyStepGood ==
    ASSUME NEW c, Good(c), c.headerStatus = "DONE", c.bodyStatus = "ONGOING",
           NEW n \in 0..c.buffer, c.pos + n <= Size(c.kind)
    PROVE  /\ Good(Consume(c, n))
           /\ Consume(c, n).kind = c.kind
           /\ Consume(c, n).pos = c.pos + n
           /\ Consume(c, n).headerStatus = "DONE"
           /\ Consume(c, n).pos = Size(c.kind) =>
                Good([Consume(c, n) EXCEPT !.bodyStatus = "DONE"])
<1> DEFINE d == Consume(c, n)
           e == [d EXCEPT !.bodyStatus = "DONE"]
<1>1. c \in ClientType /\ c.pos \in Nat /\ c.kind \in KindType
  BY DEF Good, ClientType
<1>2. c.kind.body \in Nat
  BY <1>1 DEF KindType
<1>3. /\ d \in ClientType /\ d.pos = c.pos + n /\ d.mode = c.mode
      /\ d.headerStatus = c.headerStatus /\ d.bodyStatus = c.bodyStatus
      /\ d.kind = c.kind /\ d.parser = c.parser /\ d.cgiRedir = c.cgiRedir
      /\ d.response = c.response /\ d.out = c.out /\ d.cgi = c.cgi
  BY <1>1, ConsumeFacts
<1> HIDE DEF d
<1>4. d.pos \in HeaderUnits..Size(d.kind)
  BY <1>1, <1>2, <1>3 DEF Good, ParserMatchesStatus, Size, HeaderUnits
<1>5. c.cgi = "none" /\ c.response \notin 200..299
  BY DEF Good, WorkIsWhole, Whole
<1>6. Good(d)
  BY <1>3, <1>4, <1>5 DEF Good, ResponseMatchesMode, ParserMatchesStatus,
                          WorkIsWhole, Whole
<1>7. ASSUME d.pos = Size(c.kind) PROVE Good(e)
  <2>1. e \in ClientType
    BY <1>3 DEF ClientType, BodyStatuses
  <2>2. /\ e.pos = d.pos /\ e.mode = d.mode /\ e.headerStatus = d.headerStatus
        /\ e.bodyStatus = "DONE" /\ e.kind = d.kind /\ e.parser = d.parser
        /\ e.cgiRedir = d.cgiRedir /\ e.response = d.response
        /\ e.out = d.out /\ e.cgi = d.cgi
    BY <1>3 DEF ClientType
  <2> HIDE DEF e
  <2> QED
    BY <1>3, <1>4, <1>6, <1>7, <2>1, <2>2
    DEF Good, ResponseMatchesMode, ParserMatchesStatus, WorkIsWhole, Whole
<1> QED
  BY <1>3, <1>6, <1>7 DEF d

\* Request::parseInput keeps the invariant and reports the end of the body
\* only when every unit of it is parsed.
LEMMA ParseInputGood ==
    ASSUME NEW c, Good(c), c.headerStatus = "DONE", c.bodyStatus = "ONGOING"
    PROVE  BodyResult(ParseInput(c))
<1> DEFINE left == Size(c.kind) - c.pos
           n == IF left < c.buffer THEN left ELSE c.buffer
           d == Consume(c, n)
           e == FillError(d, c.kind.refuse)
<1>1. /\ c \in ClientType /\ c.pos \in Nat /\ c.kind \in KindType
      /\ c.buffer \in Nat
  BY DEF Good, ClientType
<1>2. c.kind.body \in Nat /\ c.kind.refuse \in Refusals /\ c.kind.refuse \in Nat
  BY <1>1 DEF KindType, Refusals
<1>3. n \in 0..c.buffer /\ c.pos + n <= Size(c.kind)
  BY <1>1, <1>2 DEF Good, ParserMatchesStatus, Size, HeaderUnits
<1>4. CASE c.error \/ c.buffer = 0
  <2>1. ParseInput(c) = [c |-> c, res |-> 0]
    BY <1>4 DEF ParseInput, Result
  <2> QED
    BY <2>1 DEF BodyResult
<1>5. CASE ~(c.error \/ c.buffer = 0)
  <2>1. ParseInput(c) =
          IF d.pos # Size(c.kind) THEN [c |-> d, res |-> 0]
          ELSE IF c.kind.at = "body" THEN [c |-> e, res |-> c.kind.refuse]
          ELSE [c |-> d, res |-> -1]
    BY <1>5 DEF ParseInput, Result
  <2> HIDE DEF n
  <2>2. /\ Good(d) /\ d.headerStatus = "DONE"
        /\ d.pos = Size(c.kind) => Good([d EXCEPT !.bodyStatus = "DONE"])
    BY <1>3, BodyStepGood
  <2> HIDE DEF d
  <2>3. e \in ClientType /\ Same(d, e)
    BY <1>2, <2>2, FillErrorFacts DEF Good
  <2>4. Good(e) /\ e.headerStatus = "DONE"
    BY <2>2, <2>3, SameGood DEF Same, SameButCgi
  <2> HIDE DEF e
  <2>5. BodyResult([c |-> d, res |-> 0])
    BY <2>2 DEF BodyResult
  <2>6. BodyResult([c |-> e, res |-> c.kind.refuse])
    BY <1>2, <2>4 DEF BodyResult, Refusals
  <2>7. d.pos = Size(c.kind) => BodyResult([c |-> d, res |-> -1])
    BY <2>2 DEF BodyResult
  <2> QED
    BY <2>1, <2>5, <2>6, <2>7
<1> QED
  BY <1>4, <1>5

\* Client::parseRequest keeps the invariant and sends each unit to the
\* header or to the body as headerStatus says.
LEMMA ParseRequestGood ==
    ASSUME NEW c, Good(c), NEW n \in Nat, NEW x \in World
    PROVE  LET r == ParseRequest(c, n, x)
           IN /\ Good(r.c)
              /\ r.res \in {-1, 0} \union Refusals
              /\ r.res < 0 => \/ r.c.headerStatus = "READY"
                              \/ /\ r.c.headerStatus = "DONE"
                                 /\ r.c.bodyStatus = "DONE"
              /\ c.headerStatus = "DONE" => r.c.headerStatus = "DONE"
<1> DEFINE b == c.buffer + n
           u == TRUE
           d == [c EXCEPT !.request = u, !.buffer = b]
           h == ParseHeaders(d, x)
           i == ParseInput(d)
           hh == [h.c EXCEPT !.headerStatus = "READY"]
           ii == [i.c EXCEPT !.bodyStatus = "DONE"]
<1>1. c \in ClientType /\ b \in Nat /\ u \in BOOLEAN
  BY DEF Good, ClientType
<1>2. ParseRequest(c, n, x) =
        IF d.headerStatus = "ONGOING"
        THEN IF h.res < 0 THEN [c |-> hh, res |-> h.res] ELSE h
        ELSE IF d.headerStatus = "DONE" /\ d.bodyStatus = "ONGOING"
        THEN IF i.res < 0 THEN [c |-> ii, res |-> i.res] ELSE i
        ELSE [c |-> d, res |-> 0]
  BY DEF ParseRequest, Result
<1> HIDE DEF b, u
<1>3. d \in ClientType
  BY <1>1 DEF ClientType
<1>4. Same(c, d)
  BY <1>1 DEF ClientType, Same, SameButCgi
<1> HIDE DEF d
<1>5. Good(d) /\ d.headerStatus = c.headerStatus
  BY <1>3, <1>4, SameGood DEF Same, SameButCgi
<1>6. CASE d.headerStatus = "ONGOING"
  <2>1. HeaderResult(h)
    BY <1>5, <1>6, ParseHeadersGood
  <2> HIDE DEF h
  <2>2. CASE h.res < 0
    <3>1. h.c \in ClientType /\ Good(hh)
      BY <2>1, <2>2 DEF HeaderResult
    <3>2. hh.headerStatus = "READY"
      BY <3>1 DEF ClientType
    <3> HIDE DEF hh
    <3> QED
      BY <1>2, <1>5, <1>6, <2>1, <2>2, <3>1, <3>2 DEF HeaderResult
  <2>3. CASE ~(h.res < 0)
    <3>1. h.res \in {-1, 0} \union Refusals /\ h.res >= 0 /\ Good(h.c)
      BY <2>1, <2>3 DEF HeaderResult, Refusals
    <3> QED
      BY <1>2, <1>5, <1>6, <2>3, <3>1 DEF Refusals
  <2> QED
    BY <2>2, <2>3
<1>7. CASE d.headerStatus = "DONE" /\ d.bodyStatus = "ONGOING"
  <2>1. BodyResult(i)
    BY <1>5, <1>7, ParseInputGood
  <2> HIDE DEF i
  <2>2. CASE i.res < 0
    <3>1. i.c \in ClientType /\ Good(ii)
      BY <2>1, <2>2 DEF BodyResult, Good
    <3>2. ii.bodyStatus = "DONE"
      BY <3>1 DEF ClientType
    <3>3. ii.headerStatus = i.c.headerStatus
      BY <3>1 DEF ClientType
    <3>4. ii.headerStatus = "DONE"
      BY <2>1, <3>3 DEF BodyResult
    <3> HIDE DEF ii
    <3> QED
      BY <1>2, <1>7, <2>1, <2>2, <3>1, <3>2, <3>4 DEF BodyResult
  <2>3. CASE ~(i.res < 0)
    <3>1. /\ i.res \in {-1, 0} \union Refusals /\ i.res >= 0 /\ Good(i.c)
          /\ i.c.headerStatus = "DONE"
      BY <2>1, <2>3 DEF BodyResult, Refusals
    <3> QED
      BY <1>2, <1>7, <2>3, <3>1 DEF Refusals
  <2> QED
    BY <2>2, <2>3
<1>8. CASE ~(d.headerStatus = "ONGOING")
           /\ ~(d.headerStatus = "DONE" /\ d.bodyStatus = "ONGOING")
  BY <1>2, <1>5, <1>8
<1> QED
  BY <1>6, <1>7, <1>8

\* What handleClientIn returns: a success is only reported for a request
\* that is whole.
InResult(r) ==
    /\ Good(r.c)
    /\ r.res \in Int
    /\ r.res \in 200..299 => Whole(r.c)

\* No refusal of a request is a success.
LEMMA RefusalNoSuccess ==
    ASSUME NEW r, Good(r.c), r.res \in {-1, 0} \union Refusals
    PROVE  InResult(r)
<1>1. \A n \in {-1, 0} \union Refusals : n \in Int /\ ~(n \in 200..299)
  BY SMTT(30) DEF Refusals
<1>2. r.res \in Int /\ ~(r.res \in 200..299)
  BY <1>1
<1> QED
  BY <1>2 DEF InResult

\* The answer to a complete request is chosen on a whole request.
LEMMA BodyDoneIfCompleteGood ==
    ASSUME NEW r, Good(r.c), r.res \in {-1, 0} \union Refusals,
           r.c.headerStatus = "DONE"
    PROVE  InResult(BodyDoneIfComplete(r))
<1>1. CASE r.res <= 0 /\ r.c.bodyStatus # "ONGOING"
  <2>1. Whole(r.c)
    BY <1>1 DEF Good, ParserMatchesStatus
  <2>2. BodyDoneIfComplete(r) = HandleRequestBodyDone(r.c)
    BY <1>1 DEF BodyDoneIfComplete
  <2> DEFINE q == HandleRequestBodyDone(r.c)
  <2>3. Good(q.c) /\ q.res \in Nat /\ Whole(q.c)
    BY <2>1, HandleRequestBodyDoneGood
  <2> HIDE DEF q
  <2> QED
    BY <2>2, <2>3 DEF InResult, q
<1>2. CASE ~(r.res <= 0 /\ r.c.bodyStatus # "ONGOING")
  <2>1. BodyDoneIfComplete(r) = r
    BY <1>2 DEF BodyDoneIfComplete
  <2>2. InResult(r)
    BY RefusalNoSuccess
  <2> QED
    BY <2>1, <2>2
<1> QED
  BY <1>1, <1>2

\* handleClientIn keeps the invariant after a blank line, with or without a
\* body behind it.
LEMMA HandleHeadersReadyGood ==
    ASSUME NEW c, Good(c), c.headerStatus = "READY", NEW x \in World
    PROVE  InResult(HandleHeadersReady(c, x))
<1> DEFINE d == [c EXCEPT !.bodyStatus = "NONE"]
           r == HandleRequestHeaders(d)
           q == IF r.c.bodyStatus # "NONE" THEN ParseRequest(r.c, 0, x) ELSE r
<1>1. c \in ClientType
  BY DEF Good
<1>2. d \in ClientType
  BY <1>1 DEF ClientType, BodyStatuses
<1>3. SameButBody(c, d) /\ d.bodyStatus = "NONE"
  BY <1>1 DEF ClientType, SameButBody
<1>4. HandleHeadersReady(c, x) =
        IF r.res # 0 THEN r ELSE BodyDoneIfComplete(q)
  BY DEF HandleHeadersReady
<1> HIDE DEF d
<1>5. Good(d)
  BY <1>2, <1>3 DEF Good, SameButBody, ResponseMatchesMode,
                    ParserMatchesStatus, WorkIsWhole, Whole
<1>6. HeadersMayBeChecked(d)
  BY <1>3 DEF HeadersMayBeChecked, SameButBody
<1>7. /\ Good(r.c) /\ r.res \in {0} \union Refusals
      /\ r.res = 0 => r.c.headerStatus = "DONE"
  BY <1>5, <1>6, HandleRequestHeadersGood
<1> HIDE DEF r
<1>8. CASE r.res # 0
  <2>1. InResult(r)
    BY <1>7, RefusalNoSuccess
  <2> QED
    BY <1>4, <1>8, <2>1
<1>9. CASE r.res = 0
  <2>1. /\ Good(q.c) /\ q.res \in {-1, 0} \union Refusals
        /\ q.c.headerStatus = "DONE"
    <3>1. CASE r.c.bodyStatus # "NONE"
      BY <1>7, <1>9, <3>1, ParseRequestGood
    <3>2. CASE r.c.bodyStatus = "NONE"
      BY <1>7, <1>9, <3>2
    <3> QED
      BY <3>1, <3>2
  <2> HIDE DEF q
  <2> QED
    BY <1>4, <1>9, <2>1, BodyDoneIfCompleteGood
<1> QED
  BY <1>8, <1>9

\* handleClientIn keeps the invariant and asks for a success only on a whole
\* request.
LEMMA HandleClientInGood ==
    ASSUME NEW c, Good(c), NEW n \in Nat, NEW x \in World
    PROVE  InResult(HandleClientIn(c, n, x))
<1> DEFINE r == ParseRequest(c, n, x)
<1>1. /\ Good(r.c) /\ r.res \in {-1, 0} \union Refusals
      /\ r.res < 0 => \/ r.c.headerStatus = "READY"
                      \/ r.c.headerStatus = "DONE" /\ r.c.bodyStatus = "DONE"
  BY ParseRequestGood
<1>2. HandleClientIn(c, n, x) =
        IF r.res >= 0 THEN r
        ELSE IF r.c.headerStatus = "READY" THEN HandleHeadersReady(r.c, x)
        ELSE BodyDoneIfComplete(r)
  BY DEF HandleClientIn
<1> HIDE DEF r
<1>3. CASE r.res >= 0
  <2>1. InResult(r)
    BY <1>1, RefusalNoSuccess
  <2> QED
    BY <1>2, <1>3, <2>1
<1>4. CASE ~(r.res >= 0) /\ r.c.headerStatus = "READY"
  <2>1. InResult(HandleHeadersReady(r.c, x))
    BY <1>1, <1>4, HandleHeadersReadyGood
  <2> QED
    BY <1>2, <1>4, <2>1
<1>5. CASE ~(r.res >= 0) /\ r.c.headerStatus # "READY"
  <2>1. r.c.headerStatus = "DONE"
    BY <1>1, <1>5 DEF Refusals
  <2>2. InResult(BodyDoneIfComplete(r))
    BY <1>1, <2>1, BodyDoneIfCompleteGood
  <2> QED
    BY <1>2, <1>5, <2>2
<1> QED
  BY <1>3, <1>4, <1>5

\* The EPOLLIN branch of handleClientEvent keeps the invariant.
LEMMA ReadAndRespondGood ==
    ASSUME NEW c, Good(c), NEW n \in Nat, NEW x \in World
    PROVE  Good(ReadAndRespond(c, n, x))
<1> DEFINE r == HandleClientIn(c, n, x)
<1>1. InResult(r)
  BY HandleClientInGood
<1>2. ReadAndRespond(c, n, x) =
        IF r.res > 0 THEN HandleClientResponse(r.c, r.res, x) ELSE r.c
  BY DEF ReadAndRespond
<1> HIDE DEF r
<1>3. r.res > 0 => Good(HandleClientResponse(r.c, r.res, x))
  BY <1>1, HandleClientResponseGood DEF InResult
<1> QED
  BY <1>1, <1>2, <1>3 DEF InResult

-----------------------------------------------------------------------------
(***************************************************************************)
(* CGI.                                                                    *)
(***************************************************************************)

\* Answering 503 for a failed or late script keeps the invariant.
LEMMA ServiceUnavailableGood ==
    ASSUME NEW c, Good(c), NEW x \in World
    PROVE  Good(ServiceUnavailable(c, x))
<1>1. Good(DeleteCGIProcess(c))
  BY DeleteCGIProcessGood
<1> QED
  BY <1>1, GenerateResponseGood DEF ServiceUnavailable

\* Answering with a script's output keeps the invariant.
LEMMA SendOutputGood ==
    ASSUME NEW c, Good(c), Whole(c), NEW st \in Nat, NEW x \in World
    PROVE  Good(SendOutput(c, st, x))
<1> DEFINE d == [c EXCEPT !.status = st]
<1>1. c \in ClientType
  BY DEF Good
<1>2. d \in ClientType
  BY <1>1 DEF ClientType
<1>3. Same(c, d)
  BY <1>1 DEF ClientType, Same, SameButCgi
<1>4. SendOutput(c, st, x) = DeleteCGIProcess(GenerateResponse(d, 0, x))
  BY DEF SendOutput
<1> HIDE DEF d
<1>5. Good(d) /\ Whole(d)
  BY <1>2, <1>3, SameGood, SameWhole DEF Same
<1>6. Good(GenerateResponse(d, 0, x))
  BY <1>5, GenerateResponseGood
<1> QED
  BY <1>4, <1>6, DeleteCGIProcessGood

\* The new target keeps what Size looks at.
LEMMA SetUriGood ==
    ASSUME NEW c, Good(c), Whole(c), NEW to \in RedirType
    PROVE  /\ Good(SetUri(c, to)) /\ Whole(SetUri(c, to))
           /\ SetUri(c, to).cgiRedir = c.cgiRedir
<1> DEFINE k == [c.kind EXCEPT !.at = to.at, !.refuse = to.refuse,
                               !.type = to.type]
           d == [c EXCEPT !.kind = k]
<1>1. c \in ClientType /\ c.kind \in KindType
  BY DEF Good, ClientType
<1>2. to.at \in Stages /\ to.refuse \in Refusals /\ to.type \in ReqTypes
  BY DEF RedirType, Stages
<1>3. k \in KindType /\ k.body = c.kind.body
  BY <1>1, <1>2 DEF KindType
<1>4. SetUri(c, to) = d
  BY <1>1 DEF SetUri, ClientType, KindType
<1> HIDE DEF k
<1>5. d \in ClientType
  BY <1>1, <1>3 DEF ClientType
<1>6. /\ d.kind = k /\ d.mode = c.mode /\ d.headerStatus = c.headerStatus
      /\ d.bodyStatus = c.bodyStatus /\ d.pos = c.pos /\ d.parser = c.parser
      /\ d.cgiRedir = c.cgiRedir /\ d.response = c.response /\ d.out = c.out
      /\ d.cgi = c.cgi
  BY <1>1 DEF ClientType
<1> HIDE DEF d
<1>7. Size(d.kind) = Size(c.kind)
  BY <1>3, <1>6 DEF Size
<1>8. Whole(d)
  BY <1>6, <1>7 DEF Whole
<1>9. Good(d)
  BY <1>5, <1>6, <1>7, <1>8 DEF Good, ResponseMatchesMode,
     ParserMatchesStatus, WorkIsWhole, Whole
<1> QED
  BY <1>4, <1>6, <1>8, <1>9

\* A local redirection keeps the invariant: the request stays whole.
LEMMA LocalRedirectGood ==
    ASSUME NEW c, Good(c), Whole(c), c.cgiRedir, NEW x \in World
    PROVE  Good(LocalRedirect(c, x))
<1> DEFINE b == DeleteCGIProcess(c)
           d == SetUri(b, x.to)
           r == HandleRequestHeaders(d)
           g == GenerateCGIProcess(r.c, x)
<1>1. Good(b) /\ SameButCgi(c, b)
  BY DeleteCGIProcessGood, DeleteCGIProcessType DEF Good
<1>2. Whole(b) /\ b.cgiRedir
  BY <1>1, SameWhole DEF SameButCgi
<1>3. LocalRedirect(c, x) =
        IF r.res # 0 \/ r.c.type # "cgi" THEN GenerateResponse(r.c, r.res, x)
        ELSE IF g.res = 0 THEN g.c ELSE GenerateResponse(g.c, 500, x)
  BY DEF LocalRedirect
<1> HIDE DEF b
<1>4. x.to \in RedirType
  BY DEF World
<1>5. Good(d) /\ Whole(d) /\ d.cgiRedir
  BY <1>1, <1>2, <1>4, SetUriGood
<1> HIDE DEF d
<1>6. HeadersMayBeChecked(d)
  BY <1>5 DEF HeadersMayBeChecked
<1>7. Good(r.c) /\ r.res \in {0} \union Refusals /\ Whole(r.c)
  BY <1>5, <1>6, HandleRequestHeadersGood
<1> HIDE DEF r
<1>8. r.res \in Nat
  BY <1>7 DEF Refusals
<1>9. Good(GenerateResponse(r.c, r.res, x))
  BY <1>7, <1>8, GenerateResponseGood
<1>10. Good(g.c) /\ g.res \in {0, 500}
  BY <1>7, GenerateCGIProcessGood
<1> HIDE DEF g
<1>11. Good(GenerateResponse(g.c, 500, x))
  BY <1>10, GenerateResponseGood
<1> QED
  BY <1>3, <1>9, <1>10, <1>11

\* Every output of a script keeps the invariant.
LEMMA HandleOutputGood ==
    ASSUME NEW c, Good(c), c.cgi # "none", NEW x \in World
    PROVE  Good(HandleOutput(c, x))
<1> DEFINE o == OutputRead(c)
           u == o # "malformed"
           d == [c EXCEPT !.cgiRedir = u]
           e == [d EXCEPT !.status = 500]
<1>1. c \in ClientType /\ Whole(c)
  BY DEF Good, WorkIsWhole
<1>2. u \in BOOLEAN
  OBVIOUS
<1>3. HandleOutput(c, x) =
        CASE o = "doc"       -> SendOutput(d, 200, x)
          [] o = "badstatus" -> SendOutput(d, 500, x)
          [] o = "redirect"  -> SendOutput(d, 302, x)
          [] o = "local"     -> LocalRedirect(d, x)
          [] o = "malformed" -> DeleteCGIProcess(e)
          [] OTHER           -> ServiceUnavailable(d, x)
  BY DEF HandleOutput
<1>4. u = (o # "malformed")
  OBVIOUS
<1> HIDE DEF u, o
<1>5. d \in ClientType
  BY <1>1, <1>2 DEF ClientType
<1>6. /\ d.kind = c.kind /\ d.mode = c.mode /\ d.headerStatus = c.headerStatus
      /\ d.bodyStatus = c.bodyStatus /\ d.pos = c.pos /\ d.parser = c.parser
      /\ d.response = c.response /\ d.out = c.out /\ d.cgi = c.cgi
  BY <1>1 DEF ClientType
<1>7. d.cgiRedir = u
  BY <1>1 DEF ClientType
<1> HIDE DEF d
<1>8. Good(d) /\ Whole(d)
  BY <1>1, <1>5, <1>6 DEF Good, ResponseMatchesMode, ParserMatchesStatus,
                          WorkIsWhole, Whole
<1>9. e \in ClientType
  BY <1>5 DEF ClientType
<1>10. Same(d, e)
  BY <1>5 DEF ClientType, Same, SameButCgi
<1> HIDE DEF e
<1>11. Good(DeleteCGIProcess(e))
  BY <1>8, <1>9, <1>10, SameGood, DeleteCGIProcessGood DEF Same
<1>12. \A st \in Nat : Good(SendOutput(d, st, x))
  BY <1>8, SendOutputGood
<1>13. o = "local" => Good(LocalRedirect(d, x))
  <2>1. o = "local" => u
    BY <1>4
  <2> QED
    BY <1>7, <1>8, <2>1, LocalRedirectGood
<1>14. Good(ServiceUnavailable(d, x))
  BY <1>8, ServiceUnavailableGood
<1>15. CASE o = "doc"
  BY <1>3, <1>12, <1>15
<1>16. CASE o = "badstatus"
  BY <1>3, <1>12, <1>16
<1>17. CASE o = "redirect"
  BY <1>3, <1>12, <1>17
<1>18. CASE o = "local"
  BY <1>3, <1>13, <1>18
<1>19. CASE o = "malformed"
  BY <1>3, <1>11, <1>19
<1>20. CASE o \notin {"doc", "badstatus", "redirect", "local", "malformed"}
  BY <1>3, <1>14, <1>20
<1> QED
  BY <1>15, <1>16, <1>17, <1>18, <1>19, <1>20

\* handleCGIProcess keeps the invariant.
LEMMA HandleCGIProcessGood ==
    ASSUME NEW c, Good(c), c.cgi # "none", NEW x \in World
    PROVE  Good(HandleCGIProcess(c, x))
BY ServiceUnavailableGood, HandleOutputGood DEF HandleCGIProcess

-----------------------------------------------------------------------------
(***************************************************************************)
(* Sending.                                                                *)
(***************************************************************************)

\* Going on after the last buffer keeps the invariant: after a 100, after a
\* final response, and into the pipelined request behind it.
LEMMA HandleSentGood ==
    ASSUME NEW c, Good(c), c.out = 0, NEW x \in World
    PROVE  Good(HandleSent(c, x))
<1>1. c \in ClientType
  BY DEF Good
<1>2. CASE c.expect /\ c.response = 100
  <2> DEFINE b == ClearResponse(c)
             u == FALSE
             d == [b EXCEPT !.expect = u, !.mode = "READ"]
  <2>1. HandleSent(c, x) = d
    BY <1>2 DEF HandleSent
  <2>2. b \in ClientType
    BY <1>1 DEF ClientType, ClearResponse, Responses
  <2>3. /\ b.response = NoResponse /\ b.out = c.out /\ b.kind = c.kind
        /\ b.headerStatus = c.headerStatus /\ b.bodyStatus = c.bodyStatus
        /\ b.pos = c.pos /\ b.parser = c.parser /\ b.cgiRedir = c.cgiRedir
        /\ b.cgi = c.cgi
    BY <1>1 DEF ClientType, ClearResponse
  <2>4. u \in BOOLEAN
    OBVIOUS
  <2> HIDE DEF b, u
  <2>5. d \in ClientType
    BY <2>2, <2>4 DEF ClientType, Modes
  <2>6. /\ d.response = b.response /\ d.out = b.out /\ d.kind = b.kind
        /\ d.headerStatus = b.headerStatus /\ d.bodyStatus = b.bodyStatus
        /\ d.pos = b.pos /\ d.parser = b.parser /\ d.cgiRedir = b.cgiRedir
        /\ d.cgi = b.cgi /\ d.mode = "READ"
    BY <2>2 DEF ClientType
  <2> HIDE DEF d
  <2>7. Good(d)
    BY <2>3, <2>5, <2>6 DEF Good, ResponseMatchesMode, ParserMatchesStatus,
                            WorkIsWhole, Whole, NoResponse
  <2> QED
    BY <2>1, <2>7
<1>3. CASE ~(c.expect /\ c.response = 100) /\ c.close
  BY <1>1, <1>3, TerminateGood DEF HandleSent
<1>4. CASE ~(c.expect /\ c.response = 100) /\ ~c.close
  <2> DEFINE d == [Clear(c) EXCEPT !.mode = "READ"]
  <2>1. HandleSent(c, x) = ReadAndRespond(d, 0, x)
    BY <1>4 DEF HandleSent
  <2>2. Good(d)
    BY <1>1, ClearGood
  <2> HIDE DEF d
  <2>3. Good(ReadAndRespond(d, 0, x))
    BY <2>2, ReadAndRespondGood
  <2> QED
    BY <2>1, <2>3
<1> QED
  BY <1>2, <1>3, <1>4

\* handleClientOut keeps the invariant, buffers left or not.
LEMMA HandleClientOutGood ==
    ASSUME NEW c, Good(c), c.response # NoResponse, NEW x \in World
    PROVE  Good(HandleClientOut(c, x))
<1> DEFINE n == IF c.out = 0 THEN 0 ELSE c.out - 1
           d == [c EXCEPT !.out = n]
<1>1. c \in ClientType /\ n \in Nat
  BY DEF Good, ClientType
<1>2. HandleClientOut(c, x) =
        IF c.out # 0 /\ x.writeError THEN Terminate(c)
        ELSE IF d.out = 0 THEN HandleSent(d, x) ELSE d
  BY DEF HandleClientOut
<1>3. Good(Terminate(c))
  BY <1>1, TerminateGood
<1> HIDE DEF n
<1>4. d \in ClientType
  BY <1>1 DEF ClientType
<1>5. /\ d.response = c.response /\ d.kind = c.kind /\ d.mode = c.mode
      /\ d.headerStatus = c.headerStatus /\ d.bodyStatus = c.bodyStatus
      /\ d.pos = c.pos /\ d.parser = c.parser /\ d.cgiRedir = c.cgiRedir
      /\ d.cgi = c.cgi
  BY <1>1 DEF ClientType
<1> HIDE DEF d
<1>6. Good(d)
  BY <1>4, <1>5 DEF Good, ResponseMatchesMode, ParserMatchesStatus,
                    WorkIsWhole, Whole
<1>7. d.out = 0 => Good(HandleSent(d, x))
  BY <1>6, HandleSentGood
<1> QED
  BY <1>2, <1>3, <1>6, <1>7

\* The EPOLLOUT branch of handleClientEvent keeps the invariant.
LEMMA WriteEventGood ==
    ASSUME NEW c, Good(c), NEW x \in World
    PROVE  Good(WriteEvent(c, x))
<1> DEFINE d == IF c.cgi # "none" THEN HandleCGIProcess(c, x) ELSE c
<1>1. Good(d)
  BY HandleCGIProcessGood
<1>2. WriteEvent(c, x) =
        IF d.response # NoResponse THEN HandleClientOut(d, x) ELSE d
  BY DEF WriteEvent
<1> HIDE DEF d
<1>3. d.response # NoResponse => Good(HandleClientOut(d, x))
  BY <1>1, HandleClientOutGood
<1> QED
  BY <1>1, <1>2, <1>3

-----------------------------------------------------------------------------
(***************************************************************************)
(* The events.                                                             *)
(***************************************************************************)

\* What the world may decide during a read is well typed.
LEMMA InWorldType ==
    ASSUME NEW c, NEW n, NEW x \in InWorld(c, n)
    PROVE  x \in World
<1>1. NoKind \in KindType
  BY DEF NoKind, KindType, Stages, Refusals, ReqTypes, Methods, Targets
<1>2. NoTarget \in RedirType
  BY DEF NoTarget, RedirType, Refusals, ReqTypes
<1>3. KindsSent(c.buffer + n) \subseteq KindType
  BY KindsAssumption DEF KindsSent
<1> DEFINE K == IF StartsRequest(c) THEN KindsSent(c.buffer + n) ELSE {NoKind}
<1>4. K \subseteq KindType
  BY <1>1, <1>3
<1>5. x \in [kind : K, out : 1..MaxOut, missing : BOOLEAN, fork : BOOLEAN,
             writeError : {FALSE}, late : {FALSE}, to : {NoTarget}]
  BY DEF InWorld
<1> HIDE DEF K
<1> QED
  BY <1>2, <1>4, <1>5 DEF World

\* What the world may decide during a write is well typed.
LEMMA OutWorldType ==
    ASSUME NEW c, NEW x \in OutWorld(c)
    PROVE  x \in World
<1>1. NoKind \in KindType
  BY DEF NoKind, KindType, Stages, Refusals, ReqTypes, Methods, Targets
<1>2. NoTarget \in RedirType
  BY DEF NoTarget, RedirType, Refusals, ReqTypes
<1>3. KindsSent(c.buffer) \subseteq KindType
  BY KindsAssumption DEF KindsSent
<1> DEFINE K == IF c.buffer > 0 THEN KindsSent(c.buffer) ELSE {NoKind}
           F == IF c.cgi = "local" \/ c.buffer > 0 THEN BOOLEAN ELSE {TRUE}
           L == IF c.cgi = "running" THEN BOOLEAN ELSE {FALSE}
           T == IF c.cgi = "local" THEN RedirTargets ELSE {NoTarget}
<1>4. K \subseteq KindType /\ T \subseteq RedirType
  BY <1>1, <1>2, <1>3, RedirAssumption
<1>5. F \subseteq BOOLEAN /\ L \subseteq BOOLEAN
  OBVIOUS
<1>6. x \in [kind : K, out : 1..MaxOut, missing : BOOLEAN, fork : F,
             writeError : BOOLEAN, late : L, to : T]
  BY DEF OutWorld
<1> HIDE DEF K, F, L, T
<1> QED
  BY <1>4, <1>5, <1>6 DEF World

\* A new client is good.
LEMMA InitGood == Init => ConnectionInv
<1> SUFFICES ASSUME Init PROVE ConnectionInv
  OBVIOUS
<1>1. NoKind \in KindType
  BY DEF NoKind, KindType, Stages, Refusals, ReqTypes, Methods, Targets
<1>2. NewClient \in ClientType
  BY <1>1 DEF NewClient, ClientType, Modes, HeaderStatuses, BodyStatuses,
     ParserStatuses, Paths, BodyFiles, Responses, Children, ReqTypes
<1>3. Good(NewClient)
  BY <1>2, FreshGood DEF NewClient
<1> QED
  BY <1>3, BoundsAssumption DEF Init, ConnectionInv

\* Every action keeps the inductive invariant, and so does a stuttering step.
LEMMA NextGood == ConnectionInv /\ [Next]_vars => ConnectionInv'
<1> SUFFICES ASSUME ConnectionInv, [Next]_vars PROVE ConnectionInv'
  OBVIOUS
<1>1. Good(client) /\ client \in ClientType /\ received \in 0..MaxUnits
  BY DEF ConnectionInv, Good
<1>2. CASE EpollIn
  <2>1. PICK n \in 1..(MaxUnits - received) :
          /\ received' = received + n
          /\ \E x \in InWorld(client, n) : client' = ReadAndRespond(client, n, x)
    BY <1>2 DEF EpollIn
  <2>2. PICK x \in InWorld(client, n) : client' = ReadAndRespond(client, n, x)
    BY <2>1
  <2>3. n \in Nat /\ received' \in 0..MaxUnits
    BY <1>1, <2>1, BoundsAssumption
  <2>4. Good(ReadAndRespond(client, n, x))
    BY <1>1, <2>3, InWorldType, ReadAndRespondGood
  <2> QED
    BY <2>2, <2>3, <2>4 DEF ConnectionInv
<1>3. CASE PeerCloses
  BY <1>1, <1>3, TerminateGood DEF PeerCloses, ConnectionInv
<1>4. CASE EpollOut
  <2>1. PICK x \in OutWorld(client) : client' = WriteEvent(client, x)
    BY <1>4 DEF EpollOut
  <2>2. Good(WriteEvent(client, x))
    BY <1>1, OutWorldType, WriteEventGood
  <2> QED
    BY <1>1, <1>4, <2>1, <2>2 DEF EpollOut, ConnectionInv
<1>5. CASE EpollHup
  BY <1>1, <1>5, TerminateGood DEF EpollHup, ConnectionInv
<1>6. CASE CheckTO
  <2>1. CASE ~client.request
    BY <1>1, <1>6, <2>1, TerminateGood DEF CheckTO, ConnectionInv
  <2>2. CASE client.request
    <3> DEFINE d == [client EXCEPT !.mode = "WRITE"]
               e == FillError(d, 408)
    <3>1. PICK x \in InWorld(client, 0) : client' = GenerateResponse(e, 408, x)
      BY <1>6, <2>2 DEF CheckTO
    <3>2. d \in ClientType
      BY <1>1 DEF ClientType, Modes
    <3>3. /\ d.response = client.response /\ d.kind = client.kind
          /\ d.mode = "WRITE" /\ d.headerStatus = client.headerStatus
          /\ d.bodyStatus = client.bodyStatus /\ d.pos = client.pos
          /\ d.parser = client.parser /\ d.cgiRedir = client.cgiRedir
          /\ d.cgi = client.cgi /\ d.out = client.out
      BY <1>1 DEF ClientType
    <3> HIDE DEF d
    <3>4. Good(d)
      BY <1>1, <3>2, <3>3 DEF Good, ResponseMatchesMode, ParserMatchesStatus,
                              WorkIsWhole, Whole
    <3>5. e \in ClientType /\ Same(d, e)
      BY <3>2, FillErrorFacts
    <3> HIDE DEF e
    <3>6. Good(e)
      BY <3>4, <3>5, SameGood DEF Same
    <3>7. Good(GenerateResponse(e, 408, x))
      BY <3>6, InWorldType, GenerateResponseGood
    <3> QED
      BY <1>1, <1>6, <3>1, <3>7 DEF CheckTO, ConnectionInv
  <2> QED
    BY <2>1, <2>2
<1>7. CASE ChildExits
  <2>1. PICK o \in CgiOutputs \union {"failed"} :
          client' = [client EXCEPT !.cgi = o]
    BY <1>7 DEF ChildExits
  <2>2. o \in Children
    BY OutputsAssumption DEF Children
  <2> DEFINE d == [client EXCEPT !.cgi = o]
  <2>3. d \in ClientType
    BY <1>1, <2>2 DEF ClientType
  <2>4. SameButCgi(client, d)
    BY <1>1 DEF ClientType, SameButCgi
  <2> HIDE DEF d
  <2>5. client.cgi # "none"
    BY <1>7 DEF ChildExits
  <2>6. Good(d)
    BY <1>1, <2>3, <2>4, <2>5 DEF Good, SameButCgi, ResponseMatchesMode,
       ParserMatchesStatus, WorkIsWhole, Whole
  <2> QED
    BY <1>1, <1>7, <2>1, <2>6 DEF ChildExits, ConnectionInv, d
<1>8. CASE UNCHANGED vars
  BY <1>8 DEF vars, ConnectionInv
<1> QED
  BY <1>2, <1>3, <1>4, <1>5, <1>6, <1>7, <1>8 DEF Next

-----------------------------------------------------------------------------
\* The inductive invariant holds of every behaviour of the event loop, for
\* any set of requests, script outputs and redirections, whatever the peer
\* sends and however it is cut into reads.
THEOREM ConnectionInvariant == Spec => []ConnectionInv
BY InitGood, NextGood, PTL DEF Spec

\* The connection's record keeps its type through every handler.
THEOREM TypeCorrect == Spec => []TypeOK
<1>1. ConnectionInv => TypeOK
  BY DEF ConnectionInv, Good, TypeOK
<1> QED
  BY <1>1, ConnectionInvariant, PTL

\* Whatever handler brings a connection back to READ mode, it owes the peer
\* neither a response nor a queued buffer.
THEOREM ReadOwesNothingAlways == Spec => []ReadOwesNothing
<1>1. ConnectionInv => ReadOwesNothing
  BY DEF ConnectionInv, Good, ResponseMatchesMode, ReadOwesNothing
<1> QED
  BY <1>1, ConnectionInvariant, PTL

\* No script runs and no success is answered before the whole request was
\* parsed, however the reads cut the stream.
THEOREM WorkOnWholeRequestAlways == Spec => []WorkOnWholeRequest
<1>1. ConnectionInv => WorkOnWholeRequest
  BY DEF ConnectionInv, Good, WorkIsWhole, WorkOnWholeRequest
<1> QED
  BY <1>1, ConnectionInvariant, PTL

-----------------------------------------------------------------------------
(***************************************************************************)
(* What one event may do to a connection.                                  *)
(*                                                                         *)
(* The handlers keep Good.  From here on each of them is described by a    *)
(* relation between the record it is given and the one it returns: a frame *)
(* (Changes: the fields it may touch), the values it sets, and Settled,    *)
(* the invariant that holds between two events.  The relations compose     *)
(* like the calls do, up to EventStep, the relation of one whole event;    *)
(* the theorems at the end read off what they need.                        *)
(***************************************************************************)
\* The fields of a connection's record.
Fields ==
    {"live", "mode", "headerStatus", "bodyStatus", "buffer", "request", "kind",
     "pos", "parser", "error", "expect", "type", "status", "path", "unlink",
     "close", "cgiRedir", "response", "out", "cgi", "bodyFile", "tmpOut",
     "tmpBody", "foreign", "answers"}

\* d is c but for the fields in F.
Changes(c, d, F) == \A f \in Fields \ F : d[f] = c[f]

\* Client::clear would unlink the file of an upload answered as done.
TargetLost(c) == c.bodyFile = "target" /\ UnlinksBody(c) /\ Succeeded(c)

\* Client::deleteBodyStream removes the temporary body it may unlink.
LEMMA DeleteBodyStreamFrame ==
    ASSUME NEW c \in ClientType
    PROVE  LET d == DeleteBodyStream(c)
           IN /\ Changes(c, d, {"bodyFile", "tmpBody", "foreign"})
              /\ d.bodyFile = "none"
              /\ c.bodyFile = "tmp" /\ UnlinksBody(c) => d.tmpBody = FALSE
              /\ ~c.tmpBody => d.tmpBody = FALSE
              /\ ~TargetLost(c) => d.foreign = c.foreign
BY DEF ClientType, DeleteBodyStream, TargetLost, Changes, Fields

\* ~CGIProcess removes the file that resHints.path names, and only it.
LEMMA DeleteCGIProcessFrame ==
    ASSUME NEW c \in ClientType
    PROVE  LET d == DeleteCGIProcess(c)
           IN /\ Changes(c, d, {"cgi", "tmpOut", "foreign"})
              /\ d.cgi = "none"
              /\ c.cgi # "none" /\ c.path = "cgiout" => d.tmpOut = FALSE
              /\ c.cgi = "none" \/ c.path # "cgiout" => d.tmpOut = c.tmpOut
              /\ c.path \notin {"target", "errpage"} => d.foreign = c.foreign
BY DEF ClientType, DeleteCGIProcess, Changes, Fields

\* Client::clear resets the request and its hints, and removes what the body
\* stream and the CGIProcess own.
LEMMA ClearFrame ==
    ASSUME NEW c \in ClientType
    PROVE  LET d == Clear(c)
           IN /\ d.live = c.live
              /\ d.mode = c.mode
              /\ d.buffer = c.buffer
              /\ d.kind = NoKind
              /\ d.expect = FALSE
              /\ d.type = "none"
              /\ d.status = 0
              /\ d.path = "none"
              /\ d.unlink = FALSE
              /\ d.close = FALSE
              /\ d.bodyFile = "none"
              /\ d.answers = 0
              /\ d.tmpBody = DeleteBodyStream(c).tmpBody
              /\ d.tmpOut = DeleteCGIProcess(c).tmpOut
              /\ ~TargetLost(c) => d.foreign = DeleteCGIProcess(c).foreign
<1> DEFINE b == DeleteBodyStream(c)
           e == DeleteCGIProcess(b)
<1>1. b \in ClientType /\ Changes(c, b, {"bodyFile", "tmpBody", "foreign"})
      /\ b.bodyFile = "none"
  BY DeleteBodyStreamType, DeleteBodyStreamFrame
<1>2. /\ e \in ClientType /\ Changes(b, e, {"cgi", "tmpOut", "foreign"})
  BY <1>1, DeleteCGIProcessType, DeleteCGIProcessFrame
<1>3. e.tmpOut = DeleteCGIProcess(c).tmpOut
  <2>1. b.cgi = c.cgi /\ b.path = c.path /\ b.tmpOut = c.tmpOut
    BY <1>1 DEF Changes, Fields
  <2> HIDE DEF b
  <2> QED
    BY <2>1, <1>1 DEF DeleteCGIProcess, ClientType
<1>4. Clear(c) = [ResetHints(DeleteRequest(ClearResponse(e))) EXCEPT !.bodyStatus = "NONE",
                             !.headerStatus = "ONGOING", !.answers = 0]
  BY DEF Clear
<1>5. ~TargetLost(c) => e.foreign = DeleteCGIProcess(c).foreign
  <2>1. b.cgi = c.cgi /\ b.path = c.path /\ (~TargetLost(c) => b.foreign = c.foreign)
    BY <1>1, DeleteBodyStreamFrame DEF Changes, Fields
  <2> HIDE DEF b
  <2> QED
    BY <2>1, <1>1 DEF DeleteCGIProcess, ClientType
<1> HIDE DEF e, b
<1>6. Clear(c).foreign = e.foreign
  BY <1>2, <1>4 DEF ClientType, ResetHints, DeleteRequest, ClearResponse
<1>7. ~TargetLost(c) => Clear(c).foreign = DeleteCGIProcess(c).foreign
  BY <1>5, <1>6
<1>8. Clear(c).tmpBody = DeleteBodyStream(c).tmpBody
  BY <1>1, <1>2, <1>4 DEF ClientType, ResetHints, DeleteRequest, ClearResponse, Changes, Fields, b
<1> QED
  BY <1>1, <1>2, <1>3, <1>4, <1>7, <1>8 DEF ClientType, ResetHints, DeleteRequest, ClearResponse, Changes, Fields

\* fillResponse sets status, path, unlink and close by the status.
LEMMA FillResponseFrame ==
    ASSUME NEW c \in ClientType, NEW st \in Nat
    PROVE  LET d == FillResponse(c, st)
           IN /\ Changes(c, d, {"status", "path", "unlink", "close"})
              /\ d.status = st
              /\ st \notin 200..299 => d.close = TRUE
              /\ HasErrorPage(st) => d.path = "errpage" /\ d.unlink = FALSE
              /\ HasVerboseBody(st) => d.path = "none" /\ d.unlink = FALSE
              /\ ~HasErrorPage(st) /\ ~HasVerboseBody(st) =>
                   d.path = c.path /\ d.unlink = c.unlink
<1> DEFINE p == IF HasErrorPage(st) THEN "errpage"
                ELSE IF HasVerboseBody(st) THEN "none" ELSE c.path
           u == IF HasErrorPage(st) \/ HasVerboseBody(st) THEN FALSE
                ELSE c.unlink
           v == IF st \in 200..299 THEN c.kind.close ELSE TRUE
           d == [c EXCEPT !.status = st, !.path = p, !.unlink = u, !.close = v]
<1>1. FillResponse(c, st) = d
  BY DEF FillResponse
<1>2. ~(HasErrorPage(st) /\ HasVerboseBody(st))
  BY DEF HasErrorPage, HasVerboseBody
<1>3. /\ st \notin 200..299 => v = TRUE
      /\ HasErrorPage(st) => p = "errpage" /\ u = FALSE
      /\ HasVerboseBody(st) => p = "none" /\ u = FALSE
      /\ ~HasErrorPage(st) /\ ~HasVerboseBody(st) => p = c.path /\ u = c.unlink
  BY <1>2
<1> HIDE DEF p, u, v
<1>4. /\ Changes(c, d, {"status", "path", "unlink", "close"})
      /\ d.status = st /\ d.path = p /\ d.unlink = u /\ d.close = v
  BY DEF ClientType, Changes, Fields
<1> HIDE DEF d
<1> QED
  BY <1>1, <1>3, <1>4

\* What generateResponse does when no response is pending.
Answered(c, d, s, x) ==
    /\ d \in ClientType
    /\ Changes(c, d, {"status", "path", "unlink", "close", "response", "out",
                      "mode", "answers"})
    /\ d.response = d.status
    /\ d.status \in {s, 500}
    /\ d.mode = "WRITE"
    /\ d.out = c.out + x.out
    /\ d.answers = c.answers + 1
    /\ d.status \notin 200..299 => d.close = TRUE
    /\ d.unlink => c.unlink
    /\ \/ d.path = c.path /\ d.unlink = c.unlink
       \/ d.path = "none" /\ d.status >= 400
       \/ d.path = "errpage" /\ HasErrorPage(s) /\ d.status = s
    /\ s \in {200, 302} /\ c.path = "cgiout" /\ c.tmpOut => d.path = "cgiout"

\* generateResponse with no response pending: one is made, for the status
\* asked for or for a 500.
LEMMA GenerateResponseFrame ==
    ASSUME NEW c \in ClientType, NEW st \in Nat, NEW x \in World,
           c.response = NoResponse
    PROVE  Answered(c, GenerateResponse(c, st, x),
                    IF st # 0 THEN st ELSE c.status, x)
<1> DEFINE s == IF st # 0 THEN st ELSE c.status
           d == FillResponse(c, s)
           e == IF GenResponseThrows(d, x) THEN FillResponse(d, 500) ELSE d
           g == GenerateResponse(c, st, x)
<1>1. s \in Nat /\ x.out \in Nat
  BY BoundsAssumption DEF ClientType, World
<1>2. d \in ClientType
  BY <1>1, FillResponseType
<1>3. /\ Changes(c, d, {"status", "path", "unlink", "close"})
      /\ d.status = s
      /\ s \notin 200..299 => d.close = TRUE
      /\ HasErrorPage(s) => d.path = "errpage" /\ d.unlink = FALSE
      /\ HasVerboseBody(s) => d.path = "none" /\ d.unlink = FALSE
      /\ ~HasErrorPage(s) /\ ~HasVerboseBody(s) => d.path = c.path /\ d.unlink = c.unlink
  BY <1>1, FillResponseFrame
<1>11. d.unlink => c.unlink
  BY <1>3
<1>4. e \in ClientType
  BY <1>2, FillResponseType
<1>5. /\ Changes(c, e, {"status", "path", "unlink", "close"})
      /\ e.status \in {s, 500}
      /\ e.status \notin 200..299 => e.close = TRUE
      /\ e.unlink => c.unlink
      /\ \/ e.path = c.path /\ e.unlink = c.unlink
         \/ e.path = "none" /\ e.status >= 400
         \/ e.path = "errpage" /\ HasErrorPage(s) /\ e.status = s
      /\ s \in {200, 302} /\ c.path = "cgiout" /\ c.tmpOut => e.path = "cgiout"
  <2>1. CASE GenResponseThrows(d, x)
    <3> DEFINE t == 500
    <3>1. /\ e = FillResponse(d, t)
          /\ t \in Nat
          /\ HasVerboseBody(t)
          /\ t \notin 200..299
      BY <2>1 DEF HasVerboseBody
    <3> HIDE DEF t
    <3>2. /\ Changes(d, e, {"status", "path", "unlink", "close"})
          /\ e.status = t
          /\ e.close = TRUE
          /\ e.path = "none"
          /\ e.unlink = FALSE
      <4> HIDE DEF e, d
      <4>1. /\ Changes(d, FillResponse(d, t), {"status", "path", "unlink", "close"})
            /\ FillResponse(d, t).status = t
            /\ FillResponse(d, t).close = TRUE
            /\ FillResponse(d, t).path = "none"
        BY <1>2, <3>1, FillResponseFrame
      <4>2. FillResponse(d, t).unlink = FALSE
        BY <1>2, <3>1, FillResponseFrame, ZenonT(30)
      <4> QED
        BY <3>1, <4>1, <4>2
    <3>3. ~(s \in {200, 302} /\ c.path = "cgiout" /\ c.tmpOut)
      BY <1>3, <2>1 DEF GenResponseThrows, HasErrorPage, HasVerboseBody, Changes, Fields
    <3> HIDE DEF e, d, s
    <3> QED
      BY <1>3, <3>2, <3>3 DEF Changes, Fields, t
  <2>2. CASE ~GenResponseThrows(d, x)
    <3>1. e = d
      BY <2>2
    <3> HIDE DEF e, d, s
    <3> QED
      BY <1>1, <1>3, <1>11, <3>1 DEF HasErrorPage, HasVerboseBody
  <2> QED
    BY <2>1, <2>2
<1>6. g = [e EXCEPT !.response = e.status, !.out = e.out + x.out,
                    !.mode = "WRITE", !.answers = e.answers + 1]
  BY DEF GenerateResponse
<1> HIDE DEF d, e, s
<1>7. e.out + x.out \in Nat /\ e.answers + 1 \in Nat /\ e.status \in Responses
  BY <1>1, <1>4 DEF ClientType, Responses
<1>8. g \in ClientType
  BY <1>4, <1>6, <1>7, ZenonT(60) DEF ClientType, Modes
<1>9. /\ Changes(e, g, {"response", "out", "mode", "answers"})
      /\ g.response = e.status /\ g.out = e.out + x.out
      /\ g.mode = "WRITE" /\ g.answers = e.answers + 1
  BY <1>4, <1>6 DEF ClientType, Changes, Fields
<1> HIDE DEF g
<1>10. Answered(c, g, s, x)
  BY <1>5, <1>8, <1>9 DEF Answered, Changes, Fields
<1> QED
  BY <1>10 DEF g, s

\* generateContinueResponse queues one buffer and moves to WRITE.
LEMMA ContinueFrame ==
    ASSUME NEW c \in ClientType
    PROVE  LET d == GenerateContinueResponse(c)
           IN /\ d \in ClientType
              /\ Changes(c, d, {"response", "out", "mode"})
              /\ d.response = 100
              /\ d.out = c.out + 1
              /\ d.mode = "WRITE"
<1> DEFINE n == c.out + 1
           d == [c EXCEPT !.response = 100, !.out = n, !.mode = "WRITE"]
<1>1. n \in Nat /\ GenerateContinueResponse(c) = d
  BY DEF ClientType, GenerateContinueResponse
<1> HIDE DEF n
<1>2. d \in ClientType
  BY <1>1, ZenonT(60) DEF ClientType, Responses, Modes
<1>3. /\ Changes(c, d, {"response", "out", "mode"})
      /\ d.response = 100 /\ d.out = n /\ d.mode = "WRITE"
  BY DEF ClientType, Changes, Fields
<1> HIDE DEF d
<1> QED
  BY <1>1, <1>2, <1>3 DEF n

\* h is e after defineBodyParsing.
BodyParsingDefined(e, h) ==
    /\ h \in ClientType
    /\ Changes(e, h, {"status", "path", "unlink", "bodyFile", "tmpBody"})
    /\ h.path \in {e.path, "target"}
    /\ \/ /\ h.status = e.status /\ h.bodyFile = "none" /\ h.tmpBody = e.tmpBody
          /\ ~(e.type = "static" /\ e.kind.method = "PUT")
       \/ /\ h.status = e.status /\ h.bodyFile = "tmp" /\ h.unlink = TRUE
          /\ ~(e.type = "static" /\ e.kind.method = "PUT")
       \/ /\ h.status \in {200, 201, 403} /\ h.tmpBody = e.tmpBody
          /\ \/ h.bodyFile = e.bodyFile /\ h.unlink = e.unlink
             \/ h.bodyFile = "target" /\ h.unlink = FALSE
          /\ e.type = "static" /\ e.kind.method = "PUT"

\* defineBodyParsing opens a temporary file that will be unlinked, the target
\* of an upload, or nothing.
LEMMA DefineBodyParsingFrame ==
    ASSUME NEW e \in ClientType
    PROVE  BodyParsingDefined(e, DefineBodyParsing(e))
<1>1. DefineBodyParsing(e) \in ClientType
  BY DefineBodyParsingFacts
<1>2. CASE e.type = "cgi" /\ e.bodyStatus # "NONE"
  <2> DEFINE h == [e EXCEPT !.unlink = TRUE, !.bodyFile = "tmp",
                            !.tmpBody = TRUE]
  <2>1. DefineBodyParsing(e) = h
    BY <1>2 DEF DefineBodyParsing
  <2>2. /\ Changes(e, h, {"unlink", "bodyFile", "tmpBody"})
        /\ h.bodyFile = "tmp" /\ h.unlink = TRUE
    BY DEF ClientType, Changes, Fields
  <2> HIDE DEF h
  <2> QED
    BY <1>1, <1>2, <2>1, <2>2 DEF BodyParsingDefined, Changes, Fields
<1>3. CASE e.type = "cgi" /\ e.bodyStatus = "NONE"
  <2> DEFINE h == [e EXCEPT !.unlink = TRUE, !.bodyFile = "none",
                            !.tmpBody = e.tmpBody]
  <2>1. DefineBodyParsing(e) = h
    BY <1>3 DEF DefineBodyParsing
  <2>2. Changes(e, h, {"unlink", "bodyFile"}) /\ h.bodyFile = "none"
    BY DEF ClientType, Changes, Fields
  <2> HIDE DEF h
  <2> QED
    BY <1>1, <1>3, <2>1, <2>2 DEF BodyParsingDefined, Changes, Fields
<1>4. CASE e.type = "static" /\ e.kind.method = "PUT"
  <2>1. CASE e.kind.target = "denied"
    <3> DEFINE h == [e EXCEPT !.status = 403]
    <3>1. DefineBodyParsing(e) = h
      BY <1>4, <2>1 DEF DefineBodyParsing
    <3>2. Changes(e, h, {"status"}) /\ h.status = 403
      BY DEF ClientType, Changes, Fields
    <3> HIDE DEF h
    <3> QED
      BY <1>1, <1>4, <3>1, <3>2 DEF BodyParsingDefined, Changes, Fields
  <2>2. CASE e.kind.target # "denied"
    <3> DEFINE st == IF e.kind.target = "new" THEN 201 ELSE 200
               h == [e EXCEPT !.status = st, !.path = "target",
                              !.bodyFile = "target", !.unlink = FALSE]
    <3>1. DefineBodyParsing(e) = h
      BY <1>4, <2>2 DEF DefineBodyParsing
    <3>2. st \in {200, 201}
      OBVIOUS
    <3> HIDE DEF st
    <3>3. /\ Changes(e, h, {"status", "path", "bodyFile", "unlink"})
          /\ h.status = st /\ h.path = "target" /\ h.bodyFile = "target"
          /\ h.unlink = FALSE
      BY DEF ClientType, Changes, Fields
    <3> HIDE DEF h
    <3> QED
      BY <1>1, <1>4, <3>1, <3>2, <3>3 DEF BodyParsingDefined, Changes, Fields
  <2> QED
    BY <2>1, <2>2
<1>5. CASE e.type # "cgi" /\ ~(e.type = "static" /\ e.kind.method = "PUT")
  <2> DEFINE h == [e EXCEPT !.bodyFile = "none"]
  <2>1. DefineBodyParsing(e) = h
    BY <1>5 DEF DefineBodyParsing
  <2>2. Changes(e, h, {"bodyFile"}) /\ h.bodyFile = "none"
    BY DEF ClientType, Changes, Fields
  <2> HIDE DEF h
  <2> QED
    BY <1>1, <1>5, <2>1, <2>2 DEF BodyParsingDefined, Changes, Fields
<1> QED
  BY <1>2, <1>3, <1>4, <1>5

\* What generateCGIProcess returns: a script was launched, or fork() failed.
Launched(c, r) ==
    /\ r.c \in ClientType
    /\ Changes(c, r.c, {"path", "cgi", "tmpOut", "mode"})
    /\ r.c.path = "cgiout"
    /\ \/ /\ r.res = 0
          /\ r.c.cgi = "running"
          /\ r.c.mode = "WRITE"
          /\ r.c.tmpOut = TRUE
       \/ /\ r.res = 500
          /\ Changes(c, r.c, {"path"})

\* generateCGIProcess names the output file, whether fork() succeeds or not.
LEMMA GenerateCGIProcessFrame ==
    ASSUME NEW c \in ClientType, NEW x \in World
    PROVE  Launched(c, GenerateCGIProcess(c, x))
<1> DEFINE d == [c EXCEPT !.path = "cgiout", !.cgi = "running",
                          !.tmpOut = TRUE, !.mode = "WRITE"]
           e == [c EXCEPT !.path = "cgiout"]
<1>1. d \in ClientType /\ e \in ClientType
  BY DEF ClientType, Children, Paths, Modes
<1>2. /\ Changes(c, d, {"path", "cgi", "tmpOut", "mode"})
      /\ d.path = "cgiout" /\ d.cgi = "running" /\ d.mode = "WRITE"
      /\ d.tmpOut = TRUE
  BY DEF ClientType, Changes, Fields
<1>3. Changes(c, e, {"path"}) /\ e.path = "cgiout"
  BY DEF ClientType, Changes, Fields
<1>4. GenerateCGIProcess(c, x) =
        IF x.fork THEN [c |-> d, res |-> 0] ELSE [c |-> e, res |-> 500]
  BY DEF GenerateCGIProcess, Result
<1> HIDE DEF d, e
<1> QED
  BY <1>1, <1>2, <1>3, <1>4 DEF Launched, Changes, Fields

\* f is c after handleRequestHeaders has accepted its header.
HeaderAccepted(c, f) ==
    /\ f \in ClientType
    /\ Changes(c, f, {"bodyStatus", "type", "status", "path", "unlink",
                      "bodyFile", "tmpBody", "headerStatus"})
    /\ f.headerStatus = "DONE"
    /\ f.bodyStatus = CheckBodyLength(c).bodyStatus
    /\ f.type = c.kind.type
    /\ f.path \in {c.path, "target"}
    /\ f.type = "static" /\ c.kind.method = "DELETE" => f.path = "target"
    /\ c.cgiRedir => /\ f.status = 0
                     /\ f.unlink = c.unlink
                     /\ f.bodyFile = c.bodyFile
                     /\ f.tmpBody = c.tmpBody
    /\ ~c.cgiRedir =>
         \/ f.status = 0 /\ f.bodyFile = "none" /\ f.tmpBody = c.tmpBody
            /\ ~(f.type = "static" /\ c.kind.method = "PUT")
         \/ /\ f.status = 0 /\ f.bodyFile = "tmp" /\ f.unlink = TRUE
            /\ ~(f.type = "static" /\ c.kind.method = "PUT")
         \/ /\ f.status \in {200, 201, 403} /\ f.tmpBody = c.tmpBody
            /\ \/ f.bodyFile = c.bodyFile /\ f.unlink = c.unlink
               \/ f.bodyFile = "target" /\ f.unlink = FALSE
            /\ f.type = "static" /\ c.kind.method = "PUT"

\* What handleRequestHeaders returns.
HeaderChecked(c, r) ==
    /\ r.c \in ClientType
    /\ \/ \* refused, the body not even looked for
          /\ Changes(c, r.c, {"status"})
          /\ r.res = c.kind.refuse /\ r.c.status = r.res
       \/ \* refused, the body announced
          /\ Changes(c, r.c, {"status", "type", "bodyStatus"})
          /\ r.res = c.kind.refuse /\ r.c.status = r.res
          /\ r.c.bodyStatus = CheckBodyLength(c).bodyStatus
       \/ \* a 100 is expected where no body is
          /\ Changes(c, r.c, {"status", "type", "path", "expect"})
          /\ r.res = 400 /\ r.c.status = 400
          /\ c.expect
          /\ CheckBodyLength(c).bodyStatus = "NONE"
          /\ c.bodyStatus = "NONE"
          /\ r.c.expect = FALSE
          /\ r.c.path \in {c.path, "target"}
       \/ \E f \in ClientType :
             /\ HeaderAccepted(c, f)
             /\ r.res = 0
             /\ \/ c.expect /\ f.bodyStatus # "NONE"
                   /\ Changes(f, r.c, {"response", "out", "mode"})
                   /\ r.c.response = 100 /\ r.c.out = f.out + 1
                   /\ r.c.mode = "WRITE"
                \/ ~c.expect /\ r.c = f

\* handleRequestHeaders refuses and leaves the hints alone, or accepts.
LEMMA HandleRequestHeadersFrame ==
    ASSUME NEW c \in ClientType
    PROVE  HeaderChecked(c, HandleRequestHeaders(c))
<1> DEFINE k == c.kind
           d == CheckBodyLength(c)
           e == CheckRequest(d)
           g == IF c.cgiRedir THEN e ELSE DefineBodyParsing(e)
           f == [g EXCEPT !.headerStatus = "DONE"]
           r == HandleRequestHeaders(c)
<1>0. /\ k \in KindType /\ k.refuse \in Nat /\ k.type \in ReqTypes
  BY DEF ClientType, KindType, Refusals
<1>1. d \in ClientType
  BY CheckBodyLengthFacts
<1>2. Changes(c, d, {"bodyStatus"})
  BY DEF ClientType, CheckBodyLength, Changes, Fields
<1> HIDE DEF d
<1>3. e \in ClientType
  BY <1>1, CheckRequestFacts
<1>4. /\ Changes(d, e, {"type", "status", "path"})
      /\ e.type = d.kind.type /\ e.status = 0 /\ e.path \in {d.path, "target"}
  BY <1>1 DEF ClientType, CheckRequest, Changes, Fields
<1>5. d.kind.type # "cgi" /\ d.kind.method # "PUT" => e.path = "target"
  BY <1>1 DEF ClientType, CheckRequest
<1> HIDE DEF e
<1>6. BodyParsingDefined(e, DefineBodyParsing(e))
  BY <1>3, DefineBodyParsingFrame
<1>7. /\ g \in ClientType
      /\ Changes(e, g, {"status", "path", "unlink", "bodyFile", "tmpBody"})
      /\ g.path \in {e.path, "target"}
      /\ c.cgiRedir => g = e
      /\ ~c.cgiRedir => BodyParsingDefined(e, g)
  <2>1. CASE c.cgiRedir
    BY <1>3, <2>1 DEF Changes
  <2>2. CASE ~c.cgiRedir
    BY <1>6, <2>2 DEF BodyParsingDefined
  <2> QED
    BY <2>1, <2>2
<1> HIDE DEF g
<1>8. f \in ClientType
  BY <1>7 DEF ClientType, HeaderStatuses
<1>9. Changes(g, f, {"headerStatus"}) /\ f.headerStatus = "DONE"
  BY <1>7 DEF ClientType, Changes, Fields
<1> HIDE DEF f
<1>10. HeaderAccepted(c, f)
  <2>1. /\ Changes(c, f, {"bodyStatus", "type", "status", "path", "unlink",
                      "bodyFile", "tmpBody", "headerStatus"})
        /\ f.bodyStatus = d.bodyStatus
        /\ f.type = c.kind.type
        /\ f.path \in {c.path, "target"}
    BY <1>2, <1>4, <1>7, <1>9 DEF Changes, Fields
  <2>4. f.type = "static" /\ c.kind.method = "DELETE" => f.path = "target"
    <3>1. f.type = "static" /\ c.kind.method = "DELETE" => e.path = "target"
      BY <1>2, <1>5, <2>1 DEF Changes, Fields
    <3> QED
      BY <1>7, <1>9, <3>1 DEF Changes, Fields
  <2>2. /\ c.cgiRedir => /\ f.status = 0
                     /\ f.unlink = c.unlink
                     /\ f.bodyFile = c.bodyFile
                     /\ f.tmpBody = c.tmpBody
    BY <1>2, <1>4, <1>7, <1>9 DEF Changes, Fields
  <2>3. ~c.cgiRedir =>
         \/ f.status = 0 /\ f.bodyFile = "none" /\ f.tmpBody = c.tmpBody
            /\ ~(f.type = "static" /\ c.kind.method = "PUT")
         \/ /\ f.status = 0 /\ f.bodyFile = "tmp" /\ f.unlink = TRUE
            /\ ~(f.type = "static" /\ c.kind.method = "PUT")
         \/ /\ f.status \in {200, 201, 403} /\ f.tmpBody = c.tmpBody
            /\ \/ f.bodyFile = c.bodyFile /\ f.unlink = c.unlink
               \/ f.bodyFile = "target" /\ f.unlink = FALSE
            /\ f.type = "static" /\ c.kind.method = "PUT"
    BY <1>2, <1>4, <1>7, <1>9 DEF Changes, Fields, BodyParsingDefined
  <2> QED
    BY <1>8, <1>9, <2>1, <2>2, <2>3, <2>4 DEF HeaderAccepted, d
<1>11. CASE k.at = "early"
  <2> DEFINE h == [c EXCEPT !.status = k.refuse]
  <2>1. r = [c |-> h, res |-> k.refuse]
    BY <1>11 DEF HandleRequestHeaders, Result
  <2>2. h \in ClientType
    BY <1>0 DEF ClientType
  <2>3. Changes(c, h, {"status"}) /\ h.status = k.refuse
    BY DEF ClientType, Changes, Fields
  <2> HIDE DEF h
  <2> QED
    BY <2>1, <2>2, <2>3 DEF HeaderChecked
<1>12. CASE k.at = "late"
  <2> DEFINE h == [d EXCEPT !.status = k.refuse, !.type = k.type]
  <2>1. r = [c |-> h, res |-> k.refuse]
    BY <1>12 DEF HandleRequestHeaders, Result, d
  <2>2. h \in ClientType
    BY <1>0, <1>1 DEF ClientType
  <2>3. Changes(d, h, {"status", "type"}) /\ h.status = k.refuse
    BY <1>1 DEF ClientType, Changes, Fields
  <2> HIDE DEF h
  <2>4. /\ Changes(c, h, {"status", "type", "bodyStatus"})
        /\ h.bodyStatus = d.bodyStatus
    BY <1>2, <2>3 DEF Changes, Fields
  <2> QED
    BY <2>1, <2>2, <2>3, <2>4 DEF HeaderChecked, d
<1>13. CASE k.at \notin {"early", "late"} /\ e.expect /\ e.bodyStatus = "NONE"
  <2> DEFINE h == [e EXCEPT !.status = 400, !.expect = FALSE]
  <2>1. r = [c |-> h, res |-> 400]
    BY <1>13 DEF HandleRequestHeaders, Result, d, e
  <2>2. h \in ClientType
    <3> DEFINE u == FALSE
               i == [e EXCEPT !.status = 400]
    <3>1. i \in ClientType
      BY <1>3 DEF ClientType
    <3>2. u \in BOOLEAN /\ h = [i EXCEPT !.expect = u]
      OBVIOUS
    <3> HIDE DEF i, u
    <3>3. [i EXCEPT !.expect = u] \in ClientType
      BY <3>1, <3>2 DEF ClientType
    <3> QED
      BY <3>2, <3>3
  <2>3. Changes(e, h, {"status", "expect"}) /\ h.status = 400 /\ h.expect = FALSE
    BY <1>3 DEF ClientType, Changes, Fields
  <2> HIDE DEF h
  <2>4. c.bodyStatus = "NONE"
    BY <1>4, <1>13 DEF d, CheckBodyLength, Changes, Fields, ClientType
  <2>5. /\ Changes(c, h, {"status", "type", "path", "expect"})
        /\ d.bodyStatus = "NONE"
        /\ c.expect
        /\ h.path \in {c.path, "target"}
    <3>1. /\ d.bodyStatus = "NONE" /\ c.expect /\ h.path \in {c.path, "target"}
      BY <1>2, <1>4, <1>13, <2>3 DEF Changes, Fields
    <3> QED
      BY <1>2, <1>4, <1>13, <2>3, <2>4, <3>1 DEF Changes, Fields
  <2> QED
    BY <2>1, <2>2, <2>3, <2>4, <2>5 DEF HeaderChecked, d
<1>14. CASE k.at \notin {"early", "late"} /\ e.expect /\ e.bodyStatus # "NONE"
  <2> DEFINE h == GenerateContinueResponse(f)
  <2>1. r = [c |-> h, res |-> 0]
    BY <1>14 DEF HandleRequestHeaders, Result, d, e, g, f
  <2>3. /\ h \in ClientType
        /\ Changes(f, h, {"response", "out", "mode"})
        /\ h.response = 100 /\ h.out = f.out + 1 /\ h.mode = "WRITE"
    BY <1>8, ContinueFrame
  <2> HIDE DEF h
  <2>4. c.expect /\ f.bodyStatus # "NONE"
    BY <1>2, <1>4, <1>7, <1>9, <1>14 DEF Changes, Fields
  <2> QED
    BY <1>8, <1>10, <2>1, <2>3, <2>4 DEF HeaderChecked
<1>15. CASE k.at \notin {"early", "late"} /\ ~e.expect
  <2>1. r = [c |-> f, res |-> 0]
    BY <1>15 DEF HandleRequestHeaders, Result, d, e, g, f
  <2>2. ~c.expect
    BY <1>2, <1>4, <1>15 DEF Changes, Fields
  <2> QED
    BY <1>8, <1>10, <2>1, <2>2 DEF HeaderChecked
<1> QED
  BY <1>11, <1>12, <1>13, <1>14, <1>15

\* Taking n units from the buffer moves pos by n and nothing else.
LEMMA ConsumeFrame ==
    ASSUME NEW c \in ClientType, NEW n \in 0..c.buffer
    PROVE  LET d == Consume(c, n)
           IN /\ d \in ClientType
              /\ Changes(c, d, {"pos", "buffer"})
              /\ d.pos = c.pos + n
              /\ d.buffer = c.buffer - n
<1>1. Consume(c, n) \in ClientType
  BY ConsumeFacts
<1> QED
  BY <1>1 DEF ClientType, Consume, Changes, Fields

\* Request::fillError sets the status and the final status.
LEMMA FillErrorFrame ==
    ASSUME NEW c \in ClientType, NEW st \in Nat
    PROVE  LET d == FillError(c, st)
           IN /\ d \in ClientType
              /\ Changes(c, d, {"status", "error"})
              /\ d.status = st
<1>1. FillError(c, st) \in ClientType
  BY FillErrorFacts
<1> QED
  BY <1>1 DEF ClientType, FillError, Changes, Fields

\* What the parser of header lines returns, started at c: it stops inside the
\* header, refuses a line, or ends at the blank line.
FieldsParsed(c, r) ==
    /\ r.c \in ClientType
    /\ Changes(c, r.c, {"pos", "buffer", "parser", "error", "expect", "status"})
    /\ r.c.pos + r.c.buffer = c.pos + c.buffer
    /\ r.c.pos >= c.pos
    /\ \/ /\ r.res \in {0, c.kind.refuse}
          /\ r.c.parser = "ONGOING"
          /\ r.c.expect = c.expect
          /\ r.c.status = IF r.res = 0 THEN c.status ELSE r.res
          /\ r.c.pos < HeaderUnits
       \/ /\ r.res = -1
          /\ r.c.parser = "TERM"
          /\ r.c.pos = HeaderUnits
          /\ r.c.expect = c.kind.expect
          /\ r.c.status = c.status

\* Parsing header fields loses no unit of the stream.
LEMMA ParseFieldsFrame ==
    ASSUME NEW c \in ClientType, c.parser = "ONGOING",
           c.pos \in 1..(HeaderUnits - 1)
    PROVE  FieldsParsed(c, ParseFields(c))
<1>1. /\ c.buffer \in Nat /\ c.kind \in KindType /\ c.kind.refuse \in Nat
      /\ c.kind.refuse # 0
  BY DEF ClientType, KindType, Refusals
<1>2. CASE c.buffer = 0
  <2>1. ParseFields(c) = [c |-> c, res |-> 0]
    BY <1>2 DEF ParseFields, Result
  <2> QED
    BY <2>1 DEF FieldsParsed, Changes, HeaderUnits
<1>3. CASE c.buffer # 0 /\ c.pos = 1 /\ c.kind.at = "field"
  <2> DEFINE d == Consume(c, 1)
             e == FillError(d, c.kind.refuse)
  <2>1. ParseFields(c) = [c |-> e, res |-> c.kind.refuse]
    BY <1>3 DEF ParseFields, Result
  <2>2. /\ d \in ClientType /\ Changes(c, d, {"pos", "buffer"})
        /\ d.pos = c.pos + 1 /\ d.buffer = c.buffer - 1
    <3>1. 1 \in 0..c.buffer
      BY <1>1, <1>3
    <3> QED
      BY <3>1, ConsumeFrame
  <2> HIDE DEF d
  <2>3. /\ e \in ClientType /\ Changes(d, e, {"status", "error"})
        /\ e.status = c.kind.refuse
    BY <1>1, <2>2, FillErrorFrame
  <2> HIDE DEF e
  <2>4. FieldsParsed(c, [c |-> e, res |-> c.kind.refuse])
    BY <1>1, <1>3, <2>2, <2>3 DEF FieldsParsed, Changes, Fields, HeaderUnits
  <2> QED
    BY <2>1, <2>4
<1>4. CASE /\ c.buffer # 0 /\ ~(c.pos = 1 /\ c.kind.at = "field")
           /\ c.pos + c.buffer >= HeaderUnits
  <2> DEFINE d == Consume(c, HeaderUnits - c.pos)
             u == c.kind.expect
             v == FALSE
             e == [d EXCEPT !.parser = "TERM", !.error = v, !.expect = u]
  <2>1. ParseFields(c) = [c |-> e, res |-> -1]
    BY <1>4 DEF ParseFields, Result
  <2>2. u \in BOOLEAN /\ v \in BOOLEAN
    BY <1>1 DEF KindType
  <2>3. /\ d \in ClientType /\ Changes(c, d, {"pos", "buffer"})
        /\ d.pos = HeaderUnits /\ d.buffer = c.buffer - (HeaderUnits - c.pos)
    <3>1. HeaderUnits - c.pos \in 0..c.buffer
          /\ c.pos + (HeaderUnits - c.pos) = HeaderUnits
      BY <1>1, <1>4 DEF HeaderUnits
    <3> QED
      BY <3>1, ConsumeFrame
  <2> HIDE DEF d, v
  <2>4. u = c.kind.expect
    OBVIOUS
  <2> HIDE DEF u
  <2>5. e \in ClientType
    BY <2>2, <2>3 DEF ClientType, ParserStatuses
  <2>6. /\ Changes(d, e, {"parser", "error", "expect"})
        /\ e.parser = "TERM" /\ e.expect = u
    BY <2>3 DEF ClientType, Changes, Fields
  <2> HIDE DEF e
  <2>7. FieldsParsed(c, [c |-> e, res |-> -1])
    BY <1>1, <2>3, <2>4, <2>5, <2>6 DEF FieldsParsed, Changes, Fields, HeaderUnits
  <2> QED
    BY <2>1, <2>7
<1>5. CASE /\ c.buffer # 0 /\ ~(c.pos = 1 /\ c.kind.at = "field")
           /\ ~(c.pos + c.buffer >= HeaderUnits)
  <2> DEFINE d == Consume(c, c.buffer)
  <2>1. ParseFields(c) = [c |-> d, res |-> 0]
    BY <1>5 DEF ParseFields, Result
  <2>2. /\ d \in ClientType /\ Changes(c, d, {"pos", "buffer"})
        /\ d.pos = c.pos + c.buffer /\ d.buffer = c.buffer - c.buffer
    <3>1. c.buffer \in 0..c.buffer
      BY <1>1
    <3> QED
      BY <3>1, ConsumeFrame
  <2> HIDE DEF d
  <2>3. FieldsParsed(c, [c |-> d, res |-> 0])
    BY <1>1, <1>5, <2>2 DEF FieldsParsed, Changes, Fields, HeaderUnits
  <2> QED
    BY <2>1, <2>3
<1> QED
  BY <1>2, <1>3, <1>4, <1>5

\* s is c at the first line of a request of kind k.
Started(c, s, k) ==
    /\ s \in ClientType
    /\ Changes(c, s, {"kind", "pos", "buffer", "parser"})
    /\ s.kind = k /\ s.pos = 1 /\ s.buffer = c.buffer - 1

\* What the parser of the header returns.
HeaderParsed(c, r, x) ==
    \/ r.c = c /\ r.res = 0 /\ c.buffer = 0
    \/ c.parser = "ONGOING" /\ FieldsParsed(c, r)
    \/ /\ c.parser = "RLINE" /\ c.pos < Size(c.kind)
       /\ r.c \in ClientType
       /\ Changes(c, r.c, {"pos", "buffer", "status", "error"})
       /\ r.c.pos = c.pos + 1 /\ r.c.buffer = c.buffer - 1
       /\ r.res = 501 /\ r.c.status = 501
    \/ /\ StartsRequest(c)
       /\ c.buffer > 0
       /\ \E s \in ClientType :
            /\ Started(c, s, x.kind)
            /\ \/ s.parser = "ONGOING" /\ FieldsParsed(s, r)
               \/ /\ s.parser = "RLINE"
                  /\ r.c \in ClientType
                  /\ Changes(s, r.c, {"status", "error"})
                  /\ r.res = x.kind.refuse /\ r.c.status = r.res

\* Parsing a header goes on with the request at hand, or starts the next one
\* where the parser may.
LEMMA ParseHeadersFrame ==
    ASSUME NEW c, Good(c), c.headerStatus = "ONGOING", NEW x \in World
    PROVE  HeaderParsed(c, ParseHeaders(c, x), x)
<1> DEFINE s == [c EXCEPT !.kind = x.kind, !.pos = 1, !.buffer = c.buffer - 1]
<1>1. /\ c \in ClientType /\ c.buffer \in Nat /\ c.pos \in Nat
      /\ x.kind \in KindType /\ c.kind \in KindType
  BY DEF Good, ClientType, World
<1>2. x.kind.refuse \in Nat /\ c.kind.body \in Nat
  BY <1>1 DEF KindType, Refusals
<1>3. CASE c.parser = "ONGOING"
  <2>1. c.pos \in 1..(HeaderUnits - 1)
    BY <1>3 DEF Good, ParserMatchesStatus
  <2>2. FieldsParsed(c, ParseFields(c))
    BY <1>1, <1>3, <2>1, ParseFieldsFrame
  <2> QED
    BY <1>3, <2>2 DEF HeaderParsed, ParseHeaders
<1>4. CASE c.parser # "ONGOING" /\ (c.parser = "TERM" \/ c.buffer = 0)
  <2>1. ParseHeaders(c, x) = [c |-> c, res |-> 0]
    BY <1>4 DEF ParseHeaders, Result
  <2>2. c.buffer = 0
    BY <1>4 DEF Good, ParserMatchesStatus
  <2> QED
    BY <2>1, <2>2 DEF HeaderParsed
<1>5. CASE /\ c.parser # "ONGOING" /\ ~(c.parser = "TERM" \/ c.buffer = 0)
           /\ c.parser = "RLINE" /\ c.pos < Size(c.kind)
  <2> DEFINE d == Consume(c, 1)
             e == FillError(d, 501)
  <2>1. ParseHeaders(c, x) = [c |-> e, res |-> 501]
    BY <1>5 DEF ParseHeaders, Result
  <2>2. /\ d \in ClientType /\ Changes(c, d, {"pos", "buffer"})
        /\ d.pos = c.pos + 1 /\ d.buffer = c.buffer - 1
    <3>1. 1 \in 0..c.buffer
      BY <1>1, <1>5
    <3> QED
      BY <1>1, <3>1, ConsumeFrame
  <2> HIDE DEF d
  <2>3. /\ e \in ClientType /\ Changes(d, e, {"status", "error"})
        /\ e.status = 501
    BY <2>2, FillErrorFrame
  <2> HIDE DEF e
  <2>4. /\ Changes(c, e, {"pos", "buffer", "status", "error"})
        /\ e.pos = c.pos + 1 /\ e.buffer = c.buffer - 1
    BY <2>2, <2>3 DEF Changes, Fields
  <2>5. HeaderParsed(c, [c |-> e, res |-> 501], x)
    BY <1>5, <2>3, <2>4 DEF HeaderParsed
  <2> QED
    BY <2>1, <2>5
<1>6. CASE /\ c.parser # "ONGOING" /\ ~(c.parser = "TERM" \/ c.buffer = 0)
           /\ ~(c.parser = "RLINE" /\ c.pos < Size(c.kind))
  <2>1. c.buffer - 1 \in Nat /\ c.buffer > 0
    BY <1>1, <1>6
  <2>2. StartsRequest(c)
    <3>1. c.parser \in {"NEW", "RLINE"}
      BY <1>1, <1>6 DEF ClientType, ParserStatuses
    <3> QED
      BY <1>1, <1>2, <1>6, <3>1 DEF StartsRequest, Size, HeaderUnits
  <2>3. s \in ClientType
    <3> DEFINE k == x.kind
               b == c.buffer - 1
    <3>1. s = [c EXCEPT !.kind = k, !.pos = 1, !.buffer = b] /\ b \in Nat
          /\ k \in KindType
      BY <1>1, <2>1
    <3> HIDE DEF k, b
    <3>2. [c EXCEPT !.kind = k, !.pos = 1, !.buffer = b] \in ClientType
      BY <1>1, <3>1 DEF ClientType
    <3> QED
      BY <3>1, <3>2
  <2>4. /\ Changes(c, s, {"kind", "pos", "buffer"})
        /\ s.kind = x.kind /\ s.pos = 1 /\ s.buffer = c.buffer - 1
    BY <1>1 DEF ClientType, Changes, Fields
  <2> DEFINE d == [s EXCEPT !.parser = "RLINE"]
             e == [s EXCEPT !.parser = "ONGOING"]
             f == FillError(d, x.kind.refuse)
  <2>5. ParseHeaders(c, x) = IF x.kind.at = "line"
                             THEN [c |-> f, res |-> x.kind.refuse]
                             ELSE ParseFields(e)
    BY <1>6 DEF ParseHeaders, Result
  <2> HIDE DEF s
  <2>6. d \in ClientType /\ e \in ClientType
    BY <2>3 DEF ClientType, ParserStatuses
  <2>7. /\ Changes(s, d, {"parser"}) /\ d.parser = "RLINE"
        /\ Changes(s, e, {"parser"}) /\ e.parser = "ONGOING"
    BY <2>3 DEF ClientType, Changes, Fields
  <2> HIDE DEF d, e
  <2>8. Started(c, d, x.kind) /\ Started(c, e, x.kind)
    BY <2>4, <2>6, <2>7 DEF Started, Changes, Fields
  <2>9. /\ f \in ClientType /\ Changes(d, f, {"status", "error"})
        /\ f.status = x.kind.refuse
    BY <1>2, <2>6, FillErrorFrame
  <2> HIDE DEF f
  <2>10. HeaderParsed(c, [c |-> f, res |-> x.kind.refuse], x)
    BY <2>1, <2>2, <2>6, <2>7, <2>8, <2>9 DEF HeaderParsed
  <2>11. FieldsParsed(e, ParseFields(e))
    <3>1. e.pos \in 1..(HeaderUnits - 1)
      BY <2>8 DEF Started, HeaderUnits
    <3> QED
      BY <2>6, <2>7, <3>1, ParseFieldsFrame
  <2>12. HeaderParsed(c, ParseFields(e), x)
    BY <2>1, <2>2, <2>6, <2>7, <2>8, <2>11 DEF HeaderParsed
  <2> QED
    BY <2>5, <2>10, <2>12
<1> QED
  BY <1>3, <1>4, <1>5, <1>6

\* What the parser of the body returns: all it may take of the body is
\* taken, and the end of the body is met, refused or not, or not.
BodyParsed(c, r) ==
    /\ r.c \in ClientType
    /\ Changes(c, r.c, {"pos", "buffer", "error", "status"})
    /\ r.c.pos + r.c.buffer = c.pos + c.buffer
    /\ r.c.pos >= c.pos
    /\ \/ /\ r.res = 0 /\ r.c.status = c.status
          /\ r.c.pos = c.pos \/ r.c.pos < Size(c.kind)
       \/ /\ r.res = c.kind.refuse /\ r.c.status = r.res
          /\ r.c.pos = Size(c.kind)
       \/ /\ r.res = -1 /\ r.c.status = c.status
          /\ r.c.pos = Size(c.kind)

\* Parsing a body takes no unit of the request behind it.
LEMMA ParseInputFrame ==
    ASSUME NEW c, Good(c), c.headerStatus = "DONE", c.bodyStatus = "ONGOING"
    PROVE  BodyParsed(c, ParseInput(c))
<1> DEFINE left == Size(c.kind) - c.pos
           n == IF left < c.buffer THEN left ELSE c.buffer
           d == Consume(c, n)
           e == FillError(d, c.kind.refuse)
<1>1. /\ c \in ClientType /\ c.pos \in Nat /\ c.kind \in KindType
      /\ c.buffer \in Nat
  BY DEF Good, ClientType
<1>2. c.kind.body \in Nat /\ c.kind.refuse \in Nat
  BY <1>1 DEF KindType, Refusals
<1>3. n \in 0..c.buffer /\ c.pos + n <= Size(c.kind) /\ Size(c.kind) \in Nat
  BY <1>1, <1>2 DEF Good, ParserMatchesStatus, Size, HeaderUnits
<1>4. CASE c.error \/ c.buffer = 0
  <2>1. ParseInput(c) = [c |-> c, res |-> 0]
    BY <1>4 DEF ParseInput, Result
  <2> QED
    BY <1>1, <2>1 DEF BodyParsed, Changes
<1>5. CASE ~(c.error \/ c.buffer = 0)
  <2>1. ParseInput(c) =
          IF d.pos # Size(c.kind) THEN [c |-> d, res |-> 0]
          ELSE IF c.kind.at = "body" THEN [c |-> e, res |-> c.kind.refuse]
          ELSE [c |-> d, res |-> -1]
    BY <1>5 DEF ParseInput, Result
  <2> HIDE DEF n
  <2>2. /\ d \in ClientType /\ Changes(c, d, {"pos", "buffer"})
        /\ d.pos = c.pos + n /\ d.buffer = c.buffer - n
    BY <1>1, <1>3, ConsumeFrame
  <2> HIDE DEF d
  <2>3. /\ e \in ClientType /\ Changes(d, e, {"status", "error"})
        /\ e.status = c.kind.refuse
    BY <1>2, <2>2, FillErrorFrame
  <2> HIDE DEF e
  <2>4. d.status = c.status /\ d.kind = c.kind
    BY <2>2 DEF Changes, Fields
  <2>5. /\ Changes(c, d, {"pos", "buffer", "error", "status"})
        /\ d.pos + d.buffer = c.pos + c.buffer /\ d.pos >= c.pos
        /\ d.pos <= Size(c.kind)
    BY <1>1, <1>3, <2>2 DEF Changes
  <2>6. CASE d.pos # Size(c.kind)
    <3>1. BodyParsed(c, [c |-> d, res |-> 0])
      BY <1>1, <1>3, <2>2, <2>4, <2>5, <2>6 DEF BodyParsed, Size, HeaderUnits
    <3> QED
      BY <2>1, <2>6, <3>1
  <2>7. CASE d.pos = Size(c.kind)
    <3>1. BodyParsed(c, [c |-> d, res |-> -1])
      BY <2>2, <2>4, <2>5, <2>7 DEF BodyParsed
    <3>2. Changes(c, e, {"pos", "buffer", "error", "status"})
          /\ e.pos = d.pos /\ e.buffer = d.buffer
      BY <2>3, <2>5 DEF Changes, Fields
    <3>3. BodyParsed(c, [c |-> e, res |-> c.kind.refuse])
      BY <2>3, <2>5, <2>7, <3>2 DEF BodyParsed
    <3> QED
      BY <2>1, <2>7, <3>1, <3>3
  <2> QED
    BY <2>6, <2>7
<1> QED
  BY <1>4, <1>5

\* What parseRequest returns, d being c with the units just read.
RequestParsed(d, r, x) ==
    \/ d.headerStatus = "ONGOING" /\ r.res >= 0 /\ HeaderParsed(d, r, x)
    \/ /\ d.headerStatus = "ONGOING" /\ r.res = -1
       /\ \E e \in ClientType :
            /\ HeaderParsed(d, [c |-> e, res |-> -1], x)
            /\ r.c \in ClientType
            /\ Changes(e, r.c, {"headerStatus"}) /\ r.c.headerStatus = "READY"
    \/ /\ d.headerStatus = "DONE" /\ d.bodyStatus = "ONGOING" /\ r.res >= 0
       /\ BodyParsed(d, r)
    \/ /\ d.headerStatus = "DONE" /\ d.bodyStatus = "ONGOING" /\ r.res = -1
       /\ \E e \in ClientType :
            /\ BodyParsed(d, [c |-> e, res |-> -1])
            /\ r.c \in ClientType
            /\ Changes(e, r.c, {"bodyStatus"}) /\ r.c.bodyStatus = "DONE"
    \/ /\ d.headerStatus # "ONGOING"
       /\ d.headerStatus # "DONE" \/ d.bodyStatus # "ONGOING"
       /\ r.c = d /\ r.res = 0

\* d is c with n more units in its buffer.
Received(c, d, n) ==
    /\ d \in ClientType
    /\ Changes(c, d, {"request", "buffer"})
    /\ d.buffer = c.buffer + n

\* Client::parseRequest is one of the two parsers, or nothing.
LEMMA ParseRequestFrame ==
    ASSUME NEW c, Good(c), NEW n \in Nat, NEW x \in World
    PROVE  \E d \in ClientType :
             /\ Received(c, d, n)
             /\ Good(d)
             /\ RequestParsed(d, ParseRequest(c, n, x), x)
<1> DEFINE b == c.buffer + n
           u == TRUE
           d == [c EXCEPT !.request = u, !.buffer = b]
           h == ParseHeaders(d, x)
           i == ParseInput(d)
           hh == [h.c EXCEPT !.headerStatus = "READY"]
           ii == [i.c EXCEPT !.bodyStatus = "DONE"]
           r == ParseRequest(c, n, x)
<1>1. c \in ClientType /\ b \in Nat /\ u \in BOOLEAN
  BY DEF Good, ClientType
<1>2. r = IF d.headerStatus = "ONGOING"
          THEN IF h.res < 0 THEN [c |-> hh, res |-> h.res] ELSE h
          ELSE IF d.headerStatus = "DONE" /\ d.bodyStatus = "ONGOING"
          THEN IF i.res < 0 THEN [c |-> ii, res |-> i.res] ELSE i
          ELSE [c |-> d, res |-> 0]
  BY DEF ParseRequest, Result
<1> HIDE DEF u
<1>3. b = c.buffer + n
  OBVIOUS
<1> HIDE DEF b
<1>4. d \in ClientType
  BY <1>1 DEF ClientType
<1>5. Changes(c, d, {"request", "buffer"}) /\ d.buffer = b
  BY <1>1 DEF ClientType, Changes, Fields
<1> HIDE DEF d, r
<1>6. Received(c, d, n)
  BY <1>3, <1>4, <1>5 DEF Received
<1>7. Good(d)
  <2>1. SameButCgi(c, d) /\ d.cgi = c.cgi
    BY <1>5 DEF SameButCgi, Changes, Fields
  <2> QED
    BY <1>4, <2>1, SameGood
<1>8. CASE d.headerStatus = "ONGOING"
  <2>1. HeaderParsed(d, h, x) /\ HeaderResult(h)
    BY <1>7, <1>8, ParseHeadersFrame, ParseHeadersGood
  <2>2. h = ParseHeaders(d, x)
    OBVIOUS
  <2>3. CASE h.res < 0
    <3> HIDE DEF h
    <3>1. h.res = -1 /\ h.c \in ClientType
      BY <2>1, <2>3 DEF HeaderResult, Refusals
    <3>2. hh \in ClientType
      BY <3>1 DEF ClientType, HeaderStatuses
    <3>3. Changes(h.c, hh, {"headerStatus"}) /\ hh.headerStatus = "READY"
      BY <3>1 DEF ClientType, Changes, Fields
    <3>4. r.c = hh /\ r.res = -1
      BY <1>2, <1>8, <2>3, <3>1
    <3> HIDE DEF hh
    <3>5. HeaderParsed(d, [c |-> h.c, res |-> -1], x)
      <4> DEFINE q == [c |-> h.c, res |-> -1]
      <4>1. q.c = h.c /\ q.res = h.res
        BY <3>1
      <4> HIDE DEF q
      <4>2. HeaderParsed(d, q, x)
        BY <2>1, <4>1 DEF HeaderParsed, FieldsParsed
      <4> QED
        BY <4>2 DEF q
    <3>6. RequestParsed(d, r, x)
      BY <1>8, <3>1, <3>2, <3>3, <3>4, <3>5 DEF RequestParsed
    <3> QED
      BY <1>4, <1>6, <1>7, <3>6 DEF r
  <2>4. CASE ~(h.res < 0)
    <3> HIDE DEF h
    <3>1. r = h /\ r.res >= 0
      BY <1>2, <1>8, <2>1, <2>4 DEF HeaderResult, Refusals
    <3>2. RequestParsed(d, r, x)
      BY <1>8, <2>1, <3>1 DEF RequestParsed
    <3> QED
      BY <1>4, <1>6, <1>7, <3>2 DEF r
  <2> QED
    BY <2>3, <2>4
<1>9. CASE d.headerStatus = "DONE" /\ d.bodyStatus = "ONGOING"
  <2>1. BodyParsed(d, i) /\ BodyResult(i)
    BY <1>7, <1>9, ParseInputFrame, ParseInputGood
  <2>2. CASE i.res < 0
    <3> HIDE DEF i
    <3>1. i.res = -1 /\ i.c \in ClientType
      BY <2>1, <2>2 DEF BodyResult, BodyParsed, Refusals
    <3>2. ii \in ClientType
      BY <3>1 DEF ClientType, BodyStatuses
    <3>3. Changes(i.c, ii, {"bodyStatus"}) /\ ii.bodyStatus = "DONE"
      BY <3>1 DEF ClientType, Changes, Fields
    <3>4. r.c = ii /\ r.res = -1
      BY <1>2, <1>9, <2>2, <3>1
    <3> HIDE DEF ii
    <3>5. BodyParsed(d, [c |-> i.c, res |-> -1])
      <4> DEFINE q == [c |-> i.c, res |-> -1]
      <4>1. q.c = i.c /\ q.res = i.res
        BY <3>1
      <4> HIDE DEF q
      <4>2. BodyParsed(d, q)
        BY <2>1, <4>1 DEF BodyParsed
      <4> QED
        BY <4>2 DEF q
    <3>6. RequestParsed(d, r, x)
      BY <1>9, <3>1, <3>2, <3>3, <3>4, <3>5 DEF RequestParsed
    <3> QED
      BY <1>4, <1>6, <1>7, <3>6 DEF r
  <2>3. CASE ~(i.res < 0)
    <3> HIDE DEF i
    <3>1. r = i /\ r.res >= 0
      BY <1>2, <1>9, <2>1, <2>3 DEF BodyResult, Refusals
    <3>2. RequestParsed(d, r, x)
      BY <1>9, <2>1, <3>1 DEF RequestParsed
    <3> QED
      BY <1>4, <1>6, <1>7, <3>2 DEF r
  <2> QED
    BY <2>2, <2>3
<1>10. CASE /\ d.headerStatus # "ONGOING"
            /\ ~(d.headerStatus = "DONE" /\ d.bodyStatus = "ONGOING")
  <2>1. RequestParsed(d, r, x)
    BY <1>2, <1>10 DEF RequestParsed
  <2> QED
    BY <1>4, <1>6, <1>7, <2>1 DEF r
<1> QED
  BY <1>8, <1>9, <1>10

-----------------------------------------------------------------------------
(***************************************************************************)
(* What every handler keeps beyond Good.                                   *)
(***************************************************************************)
\* A response other than the interim 100 is pending.
Final(c) == c.response \notin {NoResponse, 100}

\* The temporary body belongs to the body stream, and deleteBodyStream will
\* find a reason to unlink it; the target of an upload is no file to unlink.
BodyOwned(c) ==
    /\ c.tmpBody => c.bodyFile = "tmp"
    /\ c.headerStatus # "DONE" => c.bodyFile = "none"
    /\ c.bodyFile = "target" => ~c.unlink
    /\ c.bodyFile = "tmp" =>
         \/ c.unlink
         \/ c.status >= 300 /\ c.path # "cgiout" /\ Final(c)

\* A final response was counted, and the connection closes after it unless
\* it is a success.
AnswerKept(c) ==
    Final(c) => c.answers > 0 /\ (c.close \/ c.response \in 200..299)

\* A 100 is only made for a request that expects it and has a body.
ExpectKept(c) ==
    /\ c.response = 100 => c.expect /\ c.headerStatus = "DONE"
    /\ c.headerStatus = "ONGOING" => ~c.expect
    /\ c.expect /\ c.headerStatus = "DONE" => c.bodyStatus # "NONE"
    /\ c.bodyStatus # "NONE" => c.kind.body > 0
    /\ c.status # 100

\* After a refused request line the parser stays within that request.
LineKept(c) ==
    c.headerStatus = "ONGOING" /\ c.parser = "RLINE" => c.pos <= Size(c.kind)

\* All of it.
Steady(c) ==
    /\ Good(c)
    /\ BodyOwned(c)
    /\ AnswerKept(c)
    /\ ExpectKept(c)
    /\ LineKept(c)

\* Once a success is pending there is no script any more, and no other status.
SuccessEnds(c) ==
    c.response \in 200..299 => c.cgi = "none" /\ c.status < 300

\* Steady looks at these fields only.
LEMMA SameSteady ==
    ASSUME NEW c, Steady(c), NEW d \in ClientType,
           Changes(c, d, {"live", "buffer", "request", "error", "type",
                          "cgi", "tmpOut", "foreign"}),
           d.cgi \in {c.cgi, "none"}
    PROVE  Steady(d)
<1>1. SameButCgi(c, d)
  BY DEF SameButCgi, Changes, Fields
<1>2. Good(d)
  BY <1>1, SameGood DEF Steady
<1>3. /\ d.tmpBody = c.tmpBody /\ d.bodyFile = c.bodyFile
      /\ d.headerStatus = c.headerStatus /\ d.unlink = c.unlink
      /\ d.status = c.status /\ d.path = c.path /\ d.response = c.response
      /\ d.answers = c.answers /\ d.close = c.close /\ d.expect = c.expect
      /\ d.bodyStatus = c.bodyStatus /\ d.kind = c.kind
      /\ d.parser = c.parser /\ d.pos = c.pos
  BY DEF Changes, Fields
<1> QED
  BY <1>2, <1>3 DEF Steady, BodyOwned, AnswerKept, ExpectKept, LineKept, Final

\* A response that is no premature success keeps the connection steady: the
\* hints it rewrites leave a reason to unlink the temporary body.
LEMMA GenerateResponseSteady ==
    ASSUME NEW c, Steady(c), NEW st \in Nat, NEW x \in World,
           (IF st # 0 THEN st ELSE c.status) # 100,
           (IF st # 0 THEN st ELSE c.status) \in 200..299 => Whole(c)
    PROVE  Steady(GenerateResponse(c, st, x))
<1> DEFINE s == IF st # 0 THEN st ELSE c.status
           d == GenerateResponse(c, st, x)
<1>1. Good(c) /\ c \in ClientType
  BY DEF Steady, Good
<1>2. CASE c.response # NoResponse
  BY <1>2 DEF GenerateResponse
<1>3. CASE c.response = NoResponse
  <2>1. Good(d)
    BY <1>1, GenerateResponseGood
  <2>2. Answered(c, d, s, x)
    BY <1>1, <1>3, GenerateResponseFrame
  <2>3. s # 100
    OBVIOUS
  <2>4. s \in Nat /\ c.answers \in Nat
    BY <1>1 DEF ClientType
  <2> HIDE DEF s, d
  <2>5. Final(d) /\ d.status # 100
    BY <2>2, <2>3, <2>4 DEF Answered, Final, NoResponse
  <2>6. d.tmpBody = c.tmpBody /\ d.bodyFile = c.bodyFile
        /\ d.headerStatus = c.headerStatus /\ d.expect = c.expect
        /\ d.bodyStatus = c.bodyStatus /\ d.kind = c.kind
        /\ d.parser = c.parser /\ d.pos = c.pos
    BY <2>2 DEF Answered, Changes, Fields
  <2>7. BodyOwned(d)
    <3>1. c.bodyFile = "tmp" => c.unlink
      BY <1>3 DEF Steady, BodyOwned, Final
    <3>2. /\ d.unlink => c.unlink
          /\ \/ d.unlink = c.unlink
             \/ d.status >= 300 /\ d.path # "cgiout"
      BY <2>2, <2>4 DEF Answered, HasErrorPage
    <3> QED
      BY <2>5, <2>6, <3>1, <3>2 DEF Steady, BodyOwned
  <2>8. AnswerKept(d)
    BY <2>2, <2>4 DEF Answered, AnswerKept
  <2>9. ExpectKept(d) /\ LineKept(d)
    BY <2>5, <2>6 DEF Steady, ExpectKept, LineKept, Final
  <2> QED
    BY <2>1, <2>7, <2>8, <2>9 DEF Steady, d
<1> QED
  BY <1>2, <1>3

\* The temporary body goes with its stream whatever is answered.
UnlinksTmp(c) == c.bodyFile = "tmp" => c.unlink

\* Launching a script on a whole request keeps the connection steady.
LEMMA GenerateCGIProcessSteady ==
    ASSUME NEW c, Steady(c), Whole(c), NEW x \in World, UnlinksTmp(c)
    PROVE  Steady(GenerateCGIProcess(c, x).c)
<1> DEFINE d == GenerateCGIProcess(c, x).c
<1>1. Good(c) /\ c \in ClientType
  BY DEF Steady, Good
<1>2. Good(d)
  BY <1>1, GenerateCGIProcessGood
<1>3. d \in ClientType /\ Changes(c, d, {"path", "cgi", "tmpOut", "mode"})
  <2>1. Launched(c, GenerateCGIProcess(c, x))
    BY <1>1, GenerateCGIProcessFrame
  <2> QED
    BY <2>1 DEF Launched
<1> HIDE DEF d
<1>4. d.tmpBody = c.tmpBody /\ d.bodyFile = c.bodyFile /\ d.unlink = c.unlink
      /\ d.headerStatus = c.headerStatus /\ d.expect = c.expect
      /\ d.bodyStatus = c.bodyStatus /\ d.kind = c.kind
      /\ d.parser = c.parser /\ d.pos = c.pos /\ d.response = c.response
      /\ d.answers = c.answers /\ d.close = c.close /\ d.status = c.status
  BY <1>3 DEF Changes, Fields
<1>5. Steady(d)
  BY <1>2, <1>4 DEF Steady, BodyOwned, AnswerKept, ExpectKept, LineKept, Final,
                    UnlinksTmp
<1> QED
  BY <1>5 DEF d

\* handleRequestHeaders needs a header just read, or the whole request of a
\* script whose output is read.
MayBeChecked(c) ==
    \/ c.headerStatus = "READY" /\ c.bodyStatus = "NONE"
    \/ Whole(c) /\ c.cgiRedir /\ c.path = "cgiout"

\* Checking a header, the first time or after a local redirection, keeps the
\* connection steady.
LEMMA HandleRequestHeadersSteady ==
    ASSUME NEW c, Steady(c), MayBeChecked(c)
    PROVE  /\ Steady(HandleRequestHeaders(c).c)
           /\ UnlinksTmp(HandleRequestHeaders(c).c)
<1> DEFINE r == HandleRequestHeaders(c)
           d == r.c
<1>1. Good(c) /\ c \in ClientType /\ c.kind \in KindType /\ c.status \in Nat
      /\ c.kind.refuse \in Refusals
  BY DEF Steady, Good, ClientType, KindType
<1>2. Good(d)
  <2>1. HeadersMayBeChecked(c)
    BY DEF MayBeChecked, HeadersMayBeChecked
  <2> QED
    BY <1>1, <2>1, HandleRequestHeadersGood
<1>3. HeaderChecked(c, r)
  BY <1>1, HandleRequestHeadersFrame
<1>4. c.headerStatus = "READY" => ~c.cgiRedir /\ c.bodyFile = "none" /\ ~c.tmpBody
  BY DEF Steady, Good, ParserMatchesStatus, BodyOwned
<1>5. c.headerStatus # "READY" => (c.bodyFile = "tmp" => c.unlink)
  BY DEF MayBeChecked, Steady, BodyOwned
<1>6. c.headerStatus \in {"READY", "DONE"}
      /\ (c.headerStatus = "DONE" => c.cgiRedir)
  BY DEF MayBeChecked, Whole
<1>7. CheckBodyLength(c).bodyStatus # "NONE" => c.kind.body > 0
  <2>1. CheckBodyLength(c).bodyStatus =
                IF ~c.cgiRedir /\ c.kind.body > 0 THEN "ONGOING" ELSE c.bodyStatus
    BY <1>1, CheckBodyLengthFacts
  <2> QED
    BY <2>1 DEF Steady, ExpectKept
<1> HIDE DEF r
<1>8. ASSUME Changes(c, d, {"status", "type", "bodyStatus"}),
             r.res = c.kind.refuse, d.status = r.res,
             d.bodyStatus \in {c.bodyStatus, CheckBodyLength(c).bodyStatus},
             d.bodyStatus = "NONE" => c.bodyStatus = "NONE"
      PROVE  Steady(d) /\ UnlinksTmp(d)
  <2>1. /\ d.tmpBody = c.tmpBody /\ d.bodyFile = c.bodyFile /\ d.unlink = c.unlink
        /\ d.headerStatus = c.headerStatus /\ d.expect = c.expect
        /\ d.kind = c.kind /\ d.path = c.path
        /\ d.parser = c.parser /\ d.pos = c.pos /\ d.response = c.response
        /\ d.answers = c.answers /\ d.close = c.close
    BY <1>8 DEF Changes, Fields
  <2>2. d.status # 100
    BY <1>1, <1>8 DEF Refusals
  <2> HIDE DEF d
  <2>3. BodyOwned(d)
    BY <1>4, <1>5, <1>6, <2>1 DEF Steady, BodyOwned
  <2>4. AnswerKept(d) /\ LineKept(d)
    BY <1>6, <2>1 DEF Steady, AnswerKept, LineKept, Final
  <2>5. ExpectKept(d)
    BY <1>7, <1>8, <2>1, <2>2 DEF Steady, ExpectKept
  <2> QED
    BY <1>2, <1>4, <1>5, <1>6, <2>1, <2>3, <2>4, <2>5 DEF Steady, UnlinksTmp
<1>9. ASSUME Changes(c, d, {"status", "type", "path", "expect"}),
             c.bodyStatus = "NONE", d.expect = FALSE, d.status = 400
      PROVE  Steady(d) /\ UnlinksTmp(d)
  <2>1. /\ d.tmpBody = c.tmpBody /\ d.bodyFile = c.bodyFile /\ d.unlink = c.unlink
        /\ d.headerStatus = c.headerStatus /\ d.bodyStatus = c.bodyStatus
        /\ d.kind = c.kind
        /\ d.parser = c.parser /\ d.pos = c.pos /\ d.response = c.response
        /\ d.answers = c.answers /\ d.close = c.close
    BY <1>9 DEF Changes, Fields
  <2> HIDE DEF d
  <2>2. c.response # 100
    BY <1>9 DEF Steady, ExpectKept
  <2>3. BodyOwned(d)
    BY <1>4, <1>5, <1>6, <2>1 DEF Steady, BodyOwned
  <2>4. AnswerKept(d) /\ LineKept(d)
    BY <1>6, <2>1 DEF Steady, AnswerKept, LineKept, Final
  <2>5. ExpectKept(d)
    BY <1>6, <1>9, <2>1, <2>2 DEF Steady, ExpectKept
  <2> QED
    BY <1>2, <1>4, <1>5, <1>6, <2>1, <2>3, <2>4, <2>5 DEF Steady, UnlinksTmp
<1>10. ASSUME NEW f \in ClientType, HeaderAccepted(c, f), r.res = 0,
              \/ /\ c.expect /\ f.bodyStatus # "NONE"
                 /\ Changes(f, d, {"response", "out", "mode"})
                 /\ d.response = 100 /\ d.out = f.out + 1
                 /\ d.mode = "WRITE"
              \/ ~c.expect /\ d = f
       PROVE  Steady(d) /\ UnlinksTmp(d)
  <2>1. /\ d.headerStatus = "DONE"
        /\ d.kind = c.kind /\ d.bodyStatus = CheckBodyLength(c).bodyStatus
        /\ d.answers = c.answers /\ d.close = c.close /\ d.expect = c.expect
        /\ d.unlink = f.unlink /\ d.bodyFile = f.bodyFile
        /\ d.tmpBody = f.tmpBody /\ d.status = f.status
        /\ d.response = c.response \/ d.response = 100
        /\ c.expect \/ d.response = c.response
        /\ c.expect => f.bodyStatus # "NONE"
    BY <1>10 DEF HeaderAccepted, Changes, Fields
  <2>2. f.bodyStatus = d.bodyStatus
    BY <1>10, <2>1 DEF HeaderAccepted
  <2> HIDE DEF d
  <2>3. f.status # 100
    BY <1>10 DEF HeaderAccepted
  <2>4. /\ f.tmpBody => f.bodyFile = "tmp"
        /\ f.bodyFile = "tmp" => f.unlink
        /\ f.bodyFile = "target" => ~f.unlink
    <3>1. CASE c.headerStatus = "READY"
      BY <1>4, <1>10, <3>1 DEF HeaderAccepted
    <3>2. CASE c.headerStatus = "DONE"
      BY <1>5, <1>6, <1>10, <3>2 DEF HeaderAccepted, Steady, BodyOwned
    <3> QED
      BY <1>6, <3>1, <3>2
  <2>5. BodyOwned(d)
    BY <2>1, <2>4 DEF BodyOwned
  <2>6. AnswerKept(d) /\ LineKept(d)
    BY <2>1 DEF Steady, AnswerKept, LineKept, Final
  <2>7. ExpectKept(d)
    <3>1. d.response = 100 => c.expect
      BY <2>1 DEF Steady, ExpectKept
    <3>2. d.expect <=> c.expect
      BY <2>1
    <3>3. c.expect => d.bodyStatus # "NONE"
      BY <2>1, <2>2
    <3>4. d.bodyStatus # "NONE" => d.kind.body > 0
      BY <1>7, <2>1
    <3> QED
      BY <2>1, <2>3, <3>1, <3>2, <3>3, <3>4 DEF ExpectKept
  <2> QED
    BY <1>2, <2>1, <2>4, <2>5, <2>6, <2>7 DEF Steady, UnlinksTmp
<1>11. CheckBodyLength(c).bodyStatus = "NONE" => c.bodyStatus = "NONE"
  BY <1>1, CheckBodyLengthFacts
<1> HIDE DEF d
<1>12. d = r.c
  BY DEF d
<1> QED
  <2>1. \/ Changes(c, d, {"status"}) /\ r.res = c.kind.refuse /\ d.status = r.res
        \/ /\ Changes(c, d, {"status", "type", "bodyStatus"})
           /\ r.res = c.kind.refuse /\ d.status = r.res
           /\ d.bodyStatus = CheckBodyLength(c).bodyStatus
        \/ /\ Changes(c, d, {"status", "type", "path", "expect"})
           /\ c.bodyStatus = "NONE" /\ d.expect = FALSE /\ d.status = 400
        \/ \E f \in ClientType :
              /\ HeaderAccepted(c, f)
              /\ r.res = 0
              /\ \/ /\ c.expect /\ f.bodyStatus # "NONE"
                    /\ Changes(f, d, {"response", "out", "mode"})
                    /\ d.response = 100 /\ d.out = f.out + 1
                    /\ d.mode = "WRITE"
                 \/ ~c.expect /\ d = f
    BY <1>3, <1>12 DEF HeaderChecked
  <2>2. CASE Changes(c, d, {"status"}) /\ r.res = c.kind.refuse /\ d.status = r.res
    <3>1. /\ Changes(c, d, {"status", "type", "bodyStatus"})
          /\ d.bodyStatus = c.bodyStatus
      BY <2>2 DEF Changes, Fields
    <3> QED
      BY <1>8, <2>2, <3>1 DEF d, r
  <2>3. CASE /\ Changes(c, d, {"status", "type", "bodyStatus"})
             /\ r.res = c.kind.refuse /\ d.status = r.res
             /\ d.bodyStatus = CheckBodyLength(c).bodyStatus
    BY <1>8, <1>11, <2>3 DEF d, r
  <2>4. CASE /\ Changes(c, d, {"status", "type", "path", "expect"})
             /\ c.bodyStatus = "NONE" /\ d.expect = FALSE /\ d.status = 400
    BY <1>9, <2>4 DEF d, r
  <2>5. CASE \E f \in ClientType :
              /\ HeaderAccepted(c, f)
              /\ r.res = 0
              /\ \/ /\ c.expect /\ f.bodyStatus # "NONE"
                    /\ Changes(f, d, {"response", "out", "mode"})
                    /\ d.response = 100 /\ d.out = f.out + 1
                    /\ d.mode = "WRITE"
                 \/ ~c.expect /\ d = f
    BY <1>10, <2>5 DEF d, r
  <2> QED
    BY <2>1, <2>2, <2>3, <2>4, <2>5

\* The fields that the parser of a header, and of a body, may change.
HeaderFields == {"kind", "pos", "buffer", "parser", "error", "expect", "status"}

\* A step of the parser inside the header is steady.
LEMMA HeaderParsedSteady ==
    ASSUME NEW c, Steady(c), c.headerStatus = "ONGOING", NEW x \in World,
           NEW r, HeaderParsed(c, r, x), r.res >= 0, Good(r.c)
    PROVE  /\ Steady(r.c)
           /\ Changes(c, r.c, HeaderFields)
           /\ r.c.pos < c.pos => c.parser = "RLINE" /\ c.pos >= Size(c.kind)
           /\ r.res = 0 /\ r.c.parser = "RLINE" => c.parser = "RLINE"
           /\ c.buffer > 0 \/ c.pos > 0 => r.c.pos > 0
<1> DEFINE d == r.c
<1>1. /\ c \in ClientType /\ c.pos \in Nat /\ c.buffer \in Nat
      /\ c.kind \in KindType /\ x.kind \in KindType
  BY DEF Steady, Good, ClientType, World
<1>2. /\ c.kind.body \in Nat /\ c.kind.refuse \in Refusals
      /\ x.kind.body \in Nat /\ x.kind.refuse \in Refusals
  BY <1>1 DEF KindType
<1>3. ~c.expect /\ c.response # 100 /\ c.bodyStatus = "NONE"
  BY DEF Steady, ExpectKept, Good, ParserMatchesStatus
<1>4. ASSUME Changes(c, d, HeaderFields), d.expect = c.expect,
             d.status \in {c.status, 501} \union Refusals,
             d.parser = "RLINE" => d.pos <= Size(d.kind)
      PROVE  Steady(d)
  <2>1. /\ d.tmpBody = c.tmpBody /\ d.bodyFile = c.bodyFile /\ d.unlink = c.unlink
        /\ d.headerStatus = c.headerStatus /\ d.bodyStatus = c.bodyStatus
        /\ d.response = c.response /\ d.answers = c.answers /\ d.close = c.close
        /\ d.path = c.path
    BY <1>4 DEF Changes, Fields, HeaderFields
  <2>2. d.status # 100
    BY <1>4 DEF Refusals, Steady, ExpectKept
  <2>3. BodyOwned(d)
    BY <2>1 DEF Steady, BodyOwned
  <2>4. AnswerKept(d)
    BY <2>1 DEF Steady, AnswerKept, Final
  <2>5. ExpectKept(d) /\ LineKept(d)
    BY <1>3, <1>4, <2>1, <2>2 DEF ExpectKept, LineKept
  <2> QED
    BY <2>3, <2>4, <2>5 DEF Steady
<1>5. CASE d = c /\ r.res = 0 /\ c.buffer = 0
  BY <1>1, <1>5 DEF Changes
<1>6. CASE c.parser = "ONGOING" /\ FieldsParsed(c, r)
  <2>1. /\ Changes(c, d, HeaderFields) /\ d.expect = c.expect
        /\ d.status \in {c.status, 501} \union Refusals
        /\ d.parser = "ONGOING"
        /\ d.pos >= c.pos
    BY <1>2, <1>6 DEF FieldsParsed, Changes, Fields, HeaderFields
  <2>2. c.pos > 0
    BY <1>1, <1>6 DEF Steady, Good, ParserMatchesStatus, HeaderUnits
  <2>3. d.pos \in Nat
    BY DEF Good, ClientType
  <2> QED
    BY <1>1, <1>4, <2>1, <2>2, <2>3
<1>7. CASE /\ c.parser = "RLINE" /\ c.pos < Size(c.kind)
           /\ Changes(c, d, {"pos", "buffer", "status", "error"})
           /\ d.pos = c.pos + 1 /\ d.buffer = c.buffer - 1
           /\ r.res = 501 /\ d.status = 501
  <2>1. /\ Changes(c, d, HeaderFields) /\ d.expect = c.expect
        /\ d.kind = c.kind
    BY <1>7 DEF Changes, Fields, HeaderFields
  <2>2. d.pos <= Size(d.kind)
    BY <1>1, <1>2, <1>7, <2>1 DEF Size, HeaderUnits
  <2>3. d.pos > 0 /\ ~(d.pos < c.pos)
    BY <1>1, <1>7
  <2> QED
    BY <1>4, <1>7, <2>1, <2>2, <2>3
<1>8. ASSUME StartsRequest(c), c.buffer > 0, NEW s \in ClientType,
             Started(c, s, x.kind),
             \/ s.parser = "ONGOING" /\ FieldsParsed(s, r)
             \/ /\ s.parser = "RLINE"
                /\ d \in ClientType
                /\ Changes(s, d, {"status", "error"})
                /\ r.res = x.kind.refuse /\ d.status = r.res
      PROVE  /\ Steady(d)
             /\ Changes(c, d, HeaderFields)
             /\ d.pos < c.pos => c.parser = "RLINE" /\ c.pos >= Size(c.kind)
             /\ r.res = 0 /\ d.parser = "RLINE" => c.parser = "RLINE"
             /\ d.pos > 0
  <2>1. /\ Changes(c, s, {"kind", "pos", "buffer", "parser"})
        /\ s.kind = x.kind /\ s.pos = 1 /\ s.buffer = c.buffer - 1
    BY <1>8 DEF Started
  <2>2. d.pos < c.pos => c.parser = "RLINE" /\ c.pos >= Size(c.kind)
    <3>1. c.parser = "NEW" => c.pos = 0
      BY DEF Steady, Good, ParserMatchesStatus
    <3>2. d.pos \in Nat
      BY DEF Good, ClientType
    <3> QED
      BY <1>8, <3>1, <3>2 DEF StartsRequest
  <2>3. CASE s.parser = "ONGOING" /\ FieldsParsed(s, r)
    <3>1. /\ Changes(c, d, HeaderFields) /\ d.expect = c.expect
          /\ d.status \in {c.status, x.kind.refuse}
          /\ d.parser = "ONGOING"
          /\ d.pos >= 1
      BY <2>1, <2>3 DEF FieldsParsed, Changes, Fields, HeaderFields
    <3>2. d.pos > 0
      <4>1. d.pos \in Nat
        BY DEF Good, ClientType
      <4> QED
        BY <3>1, <4>1
    <3> QED
      BY <1>2, <1>4, <2>2, <3>1, <3>2
  <2>4. CASE /\ s.parser = "RLINE"
             /\ d \in ClientType
             /\ Changes(s, d, {"status", "error"})
             /\ r.res = x.kind.refuse /\ d.status = r.res
    <3>1. /\ Changes(c, d, HeaderFields) /\ d.expect = c.expect
          /\ d.pos = 1 /\ d.kind = x.kind
      BY <2>1, <2>4 DEF Changes, Fields, HeaderFields
    <3>2. d.pos <= Size(d.kind) /\ r.res # 0
      BY <1>2, <2>4, <3>1 DEF Size, HeaderUnits, Refusals
    <3> QED
      BY <1>2, <1>4, <2>2, <2>4, <3>1, <3>2
  <2> QED
    BY <1>8, <2>3, <2>4
<1> QED
  BY <1>5, <1>6, <1>7, <1>8 DEF HeaderParsed

ParserFields == HeaderFields \union {"request", "headerStatus", "bodyStatus"}

\* What a call of parseRequest may do to a connection.
ParseStep(c, n, r) ==
    /\ Steady(r.c)
    /\ Changes(c, r.c, ParserFields)
    /\ r.res \in {-1, 0} \union Refusals
    /\ r.res # 0 => ~Whole(c)
    /\ r.res >= 0 => /\ r.c.headerStatus = c.headerStatus
                     /\ r.c.bodyStatus = c.bodyStatus
    /\ r.res = -1 =>
         \/ c.headerStatus = "ONGOING" /\ r.c.headerStatus = "READY"
         \/ /\ c.headerStatus = "DONE" /\ c.bodyStatus = "ONGOING"
            /\ r.c.headerStatus = "DONE" /\ r.c.bodyStatus = "DONE"
    /\ r.c.pos < c.pos => /\ c.headerStatus = "ONGOING"
                          /\ c.parser = "RLINE"
                          /\ c.pos >= Size(c.kind)
    /\ r.res = 0 /\ r.c.headerStatus = "ONGOING" /\ r.c.parser = "RLINE" =>
         c.parser = "RLINE"
    /\ c.headerStatus # "ONGOING" /\ ~(c.headerStatus = "DONE" /\ c.bodyStatus = "ONGOING") =>
         Changes(c, r.c, {"request", "buffer"}) /\ r.res = 0
    /\ n + c.buffer > 0 \/ c.pos > 0 => r.c.pos > 0

\* Client::parseRequest keeps the connection steady and starts a request only
\* at the end of the one before.
LEMMA ParseRequestStep ==
    ASSUME NEW c, Steady(c), NEW n \in Nat, NEW x \in World
    PROVE  ParseStep(c, n, ParseRequest(c, n, x))
<1> DEFINE r == ParseRequest(c, n, x)
<1> SUFFICES ParseStep(c, n, r)
  OBVIOUS
<1>1. Good(c) /\ c \in ClientType /\ c.pos \in Nat /\ c.buffer \in Nat
  BY DEF Steady, Good, ClientType
<1>2. PICK d \in ClientType :
        Received(c, d, n) /\ Good(d) /\ RequestParsed(d, r, x)
  BY <1>1, ParseRequestFrame
<1>3. Good(r.c) /\ r.res \in {-1, 0} \union Refusals
  BY <1>1, ParseRequestGood
<1> HIDE DEF r
<1>4. Steady(d)
  BY <1>2, SameSteady DEF Received, Changes, Fields
<1>5. /\ Changes(c, d, {"request", "buffer"}) /\ d.buffer = c.buffer + n
      /\ d.headerStatus = c.headerStatus /\ d.bodyStatus = c.bodyStatus
      /\ d.parser = c.parser /\ d.pos = c.pos /\ d.kind = c.kind
  BY <1>2 DEF Received, Changes, Fields
<1>6. d.kind \in KindType /\ d.kind.refuse \in Refusals /\ d.kind.body \in Nat
      /\ d.pos \in Nat /\ d.buffer \in Nat /\ r.c.pos \in Nat
  BY <1>2, <1>3 DEF ClientType, KindType, Good
<1>7. CASE d.headerStatus = "ONGOING" /\ r.res >= 0 /\ HeaderParsed(d, r, x)
  <2>1. /\ Steady(r.c)
        /\ Changes(d, r.c, HeaderFields)
        /\ r.c.pos < d.pos => d.parser = "RLINE" /\ d.pos >= Size(d.kind)
        /\ r.res = 0 /\ r.c.parser = "RLINE" => d.parser = "RLINE"
        /\ d.buffer > 0 \/ d.pos > 0 => r.c.pos > 0
    BY <1>3, <1>4, <1>7, HeaderParsedSteady
  <2>2. Changes(c, r.c, ParserFields)
        /\ r.c.headerStatus = c.headerStatus /\ r.c.bodyStatus = c.bodyStatus
    BY <1>5, <2>1 DEF Changes, Fields, HeaderFields, ParserFields
  <2>3. ~Whole(c) /\ r.res # -1
    BY <1>5, <1>7 DEF Whole
  <2>4. n + c.buffer > 0 \/ c.pos > 0 => r.c.pos > 0
    BY <1>1, <1>5, <2>1
  <2>5. r.c.pos < c.pos => c.parser = "RLINE" /\ c.pos >= Size(c.kind)
    BY <1>5, <2>1
  <2> QED
    BY <1>3, <1>5, <1>7, <2>1, <2>2, <2>3, <2>4, <2>5 DEF ParseStep
<1>8. ASSUME d.headerStatus = "ONGOING", r.res = -1, NEW e \in ClientType,
             HeaderParsed(d, [c |-> e, res |-> -1], x),
             Changes(e, r.c, {"headerStatus"}), r.c.headerStatus = "READY"
      PROVE  ParseStep(c, n, r)
  <2>1. \E s \in ClientType :
          /\ FieldsParsed(s, [c |-> e, res |-> -1])
          /\ s = d \/ (Started(d, s, x.kind) /\ StartsRequest(d))
    <3>1. x.kind.refuse # -1
      BY DEF World, KindType, Refusals
    <3> DEFINE q == [c |-> e, res |-> -1]
    <3>2. q.res = -1 /\ HeaderParsed(d, q, x)
      BY <1>8
    <3> HIDE DEF q
    <3>3. \E s \in ClientType :
            FieldsParsed(s, q) /\ (s = d \/ (Started(d, s, x.kind) /\ StartsRequest(d)))
      <4>1. CASE FieldsParsed(d, q)
        <5> WITNESS d \in ClientType
        <5> QED
          BY <4>1
      <4>2. CASE /\ StartsRequest(d)
                 /\ \E s \in ClientType :
                      /\ Started(d, s, x.kind)
                      /\ \/ s.parser = "ONGOING" /\ FieldsParsed(s, q)
                         \/ q.res = x.kind.refuse
        BY <3>1, <3>2, <4>2
      <4> QED
        BY <3>2, <4>1, <4>2 DEF HeaderParsed
    <3> QED
      BY <3>3 DEF q
  <2>2. PICK s \in ClientType :
          /\ FieldsParsed(s, [c |-> e, res |-> -1])
          /\ s = d \/ (Started(d, s, x.kind) /\ StartsRequest(d))
    BY <2>1
  <2>3. /\ Changes(s, e, HeaderFields)
        /\ e.pos = HeaderUnits /\ e.status = s.status /\ e.pos >= s.pos
    <3>1. s.kind.refuse # -1
      BY DEF ClientType, KindType, Refusals
    <3> QED
      BY <2>2, <3>1 DEF FieldsParsed, Changes, Fields, HeaderFields
  <2>4. Changes(d, s, {"kind", "pos", "buffer", "parser"})
    BY <2>2 DEF Started, Changes
  <2>5. /\ Changes(c, r.c, ParserFields)
        /\ r.c.bodyStatus = c.bodyStatus /\ r.c.response = c.response
        /\ r.c.bodyFile = c.bodyFile /\ r.c.tmpBody = c.tmpBody
        /\ r.c.answers = c.answers /\ r.c.close = c.close
        /\ r.c.status = c.status /\ r.c.pos = HeaderUnits
    BY <1>5, <1>8, <2>3, <2>4 DEF Changes, Fields, HeaderFields, ParserFields
  <2>6. c.headerStatus = "ONGOING" /\ c.bodyFile = "none" /\ ~c.tmpBody
        /\ c.response # 100 /\ c.bodyStatus = "NONE" /\ c.status # 100
    BY <1>5, <1>8 DEF Steady, BodyOwned, ExpectKept, Good, ParserMatchesStatus
  <2>7. Steady(r.c)
    <3>1. BodyOwned(r.c)
      BY <2>5, <2>6 DEF BodyOwned
    <3>2. AnswerKept(r.c) /\ LineKept(r.c)
      BY <1>8, <2>5 DEF Steady, AnswerKept, LineKept, Final
    <3>3. ExpectKept(r.c)
      BY <1>8, <2>5, <2>6 DEF ExpectKept
    <3> QED
      BY <1>3, <3>1, <3>2, <3>3 DEF Steady
  <2>8. r.c.pos < c.pos => c.parser = "RLINE" /\ c.pos >= Size(c.kind)
    <3>1. CASE s = d
      BY <1>1, <1>5, <2>3, <2>5, <3>1 DEF HeaderUnits
    <3>2. CASE StartsRequest(d)
      <4>1. d.parser = "NEW" => d.pos = 0
        BY <1>2, <1>8 DEF Good, ParserMatchesStatus
      <4> QED
        BY <1>5, <2>5, <3>2, <4>1 DEF StartsRequest, HeaderUnits
    <3> QED
      BY <2>2, <3>1, <3>2
  <2>9. ~Whole(c) /\ r.c.pos > 0
    BY <2>5, <2>6 DEF Whole, HeaderUnits
  <2> QED
    BY <1>3, <1>8, <2>5, <2>6, <2>7, <2>8, <2>9 DEF ParseStep
<1>9. ASSUME d.headerStatus = "DONE", d.bodyStatus = "ONGOING", NEW e \in ClientType,
             BodyParsed(d, [c |-> e, res |-> r.res]),
             Changes(e, r.c, {"bodyStatus"}),
             \/ r.res >= 0 /\ r.c.bodyStatus = d.bodyStatus
             \/ r.res = -1 /\ r.c.bodyStatus = "DONE"
      PROVE  ParseStep(c, n, r)
  <2>1. /\ Changes(d, e, {"pos", "buffer", "error", "status"})
        /\ e.pos >= d.pos
        /\ e.status \in {d.status} \union Refusals
    BY <1>6, <1>9 DEF BodyParsed
  <2>2. /\ Changes(c, r.c, ParserFields)
        /\ r.c.response = c.response /\ r.c.headerStatus = c.headerStatus
        /\ r.c.bodyFile = c.bodyFile /\ r.c.tmpBody = c.tmpBody
        /\ r.c.unlink = c.unlink /\ r.c.path = c.path /\ r.c.kind = c.kind
        /\ r.c.answers = c.answers /\ r.c.close = c.close
        /\ r.c.expect = c.expect
        /\ r.c.status \in {c.status} \union Refusals /\ r.c.pos >= c.pos
    BY <1>5, <1>9, <2>1 DEF Changes, Fields, HeaderFields, ParserFields
  <2>3. r.c.status # 100 /\ (c.status >= 300 => r.c.status >= 300)
    <3>1. c.status # 100
      BY DEF Steady, ExpectKept
    <3> QED
      BY <2>2, <3>1 DEF Refusals
  <2>4. Steady(r.c)
    <3>1. BodyOwned(r.c)
      BY <2>2, <2>3 DEF Steady, BodyOwned, Final
    <3>2. AnswerKept(r.c) /\ LineKept(r.c)
      BY <1>5, <1>9, <2>2 DEF Steady, AnswerKept, LineKept, Final
    <3>3. ExpectKept(r.c)
      BY <1>5, <1>9, <2>2, <2>3, ZenonT(60) DEF Steady, ExpectKept
    <3> QED
      BY <1>3, <3>1, <3>2, <3>3 DEF Steady
  <2>5. ~Whole(c) /\ c.pos > 0
    <3>1. c.pos \in HeaderUnits..Size(c.kind)
      BY <1>5, <1>9 DEF Steady, Good, ParserMatchesStatus
    <3> QED
      BY <1>1, <1>5, <1>9, <3>1 DEF Whole, HeaderUnits
  <2>6. r.c.pos > 0 /\ ~(r.c.pos < c.pos)
    BY <1>1, <1>6, <2>2, <2>5
  <2> QED
    <3>1. r.res >= 0 => r.c.bodyStatus = c.bodyStatus
      BY <1>5, <1>9
    <3>2. r.res = -1 => r.c.bodyStatus = "DONE"
      BY <1>9
    <3>3. c.headerStatus = "DONE" /\ c.bodyStatus = "ONGOING"
      BY <1>5, <1>9
    <3> QED
      BY <1>3, <2>2, <2>4, <2>5, <2>6, <3>1, <3>2, <3>3 DEF ParseStep
<1>10. CASE /\ d.headerStatus # "ONGOING"
            /\ d.headerStatus # "DONE" \/ d.bodyStatus # "ONGOING"
            /\ r.c = d /\ r.res = 0
  <2>1. c.pos > 0
    <3>1. c.pos \in HeaderUnits..Size(c.kind)
      BY <1>5, <1>10 DEF Steady, Good, ParserMatchesStatus
    <3> QED
      BY <1>1, <3>1 DEF HeaderUnits
  <2>2. Changes(c, r.c, ParserFields)
    BY <1>5, <1>10 DEF Changes, ParserFields, HeaderFields
  <2> QED
    BY <1>1, <1>4, <1>5, <1>6, <1>10, <2>1, <2>2 DEF ParseStep
<1> QED
  <2>1. CASE /\ d.headerStatus = "DONE" /\ d.bodyStatus = "ONGOING" /\ r.res >= 0
             /\ BodyParsed(d, r)
    <3>1. r.c \in ClientType /\ Changes(r.c, r.c, {"bodyStatus"})
          /\ r.c.bodyStatus = d.bodyStatus
      BY <2>1 DEF BodyParsed, Changes, Fields
    <3>2. BodyParsed(d, [c |-> r.c, res |-> r.res])
      BY <2>1 DEF BodyParsed
    <3> QED
      BY <1>9, <2>1, <3>1, <3>2
  <2>2. CASE /\ d.headerStatus = "DONE" /\ d.bodyStatus = "ONGOING" /\ r.res = -1
             /\ \E e \in ClientType :
                  /\ BodyParsed(d, [c |-> e, res |-> -1])
                  /\ r.c \in ClientType
                  /\ Changes(e, r.c, {"bodyStatus"}) /\ r.c.bodyStatus = "DONE"
    BY <1>9, <2>2
  <2> QED
    BY <1>2, <1>7, <1>8, <1>10, <2>1, <2>2 DEF RequestParsed

\* resHints.path names neither an error page nor a script's output.
Named(c) == c.path \notin {"errpage", "cgiout"}

\* What handleRequestBodyDone returns.
BodyDone(c, r) ==
    /\ r.c \in ClientType
    /\ Changes(c, r.c, {"path", "foreign"})
    /\ r.c.path \in {c.path, "none"}
    /\ (c.type = "static" /\ c.kind.method = "DELETE" => Named(c)) =>
         r.c.foreign = c.foreign
    /\ \/ r.res \in {200, 204}
       \/ r.res = c.status /\ c.type = "static" /\ c.kind.method = "PUT"
          /\ c.kind.body > 0

\* handleRequestBodyDone changes the path at most and asks for a status.
LEMMA HandleRequestBodyDoneFrame ==
    ASSUME NEW c \in ClientType
    PROVE  BodyDone(c, HandleRequestBodyDone(c))
<1>1. CASE c.type = "static" /\ c.kind.method = "PUT"
  <2> DEFINE st == IF c.kind.body > 0 THEN c.status ELSE 204
  <2>1. HandleRequestBodyDone(c) = [c |-> c, res |-> st]
    BY <1>1 DEF HandleRequestBodyDone, Result
  <2> QED
    BY <1>1, <2>1 DEF BodyDone, Changes
<1>2. CASE c.type = "static" /\ c.kind.method = "DELETE"
  <2> DEFINE u == IF c.path \in {"errpage", "cgiout"} THEN TRUE ELSE c.foreign
             d == [c EXCEPT !.path = "none", !.foreign = u]
  <2>1. HandleRequestBodyDone(c) = [c |-> d, res |-> 204]
    BY <1>2 DEF HandleRequestBodyDone, Result
  <2>2. u \in BOOLEAN /\ (Named(c) => u = c.foreign)
    BY DEF ClientType, Named
  <2> HIDE DEF u
  <2>3. d \in ClientType
    BY <2>2 DEF ClientType, Paths
  <2>4. Changes(c, d, {"path", "foreign"}) /\ d.path = "none"
        /\ d.foreign = u
    BY DEF ClientType, Changes, Fields
  <2> HIDE DEF d
  <2> QED
    BY <1>2, <2>1, <2>2, <2>3, <2>4 DEF BodyDone
<1>3. CASE /\ ~(c.type = "static" /\ c.kind.method = "PUT")
           /\ ~(c.type = "static" /\ c.kind.method = "DELETE")
  <2>1. HandleRequestBodyDone(c) = [c |-> c, res |-> 200]
    BY <1>3 DEF HandleRequestBodyDone, Result
  <2> QED
    BY <2>1 DEF BodyDone, Changes
<1> QED
  BY <1>1, <1>2, <1>3

\* What the end of handleClientIn does with the result of the parser.
DoneStep(r, q) ==
    /\ Steady(q.c)
    /\ Changes(r.c, q.c, {"path", "foreign"})
    /\ q.res \in Int /\ q.res # 100
    /\ q.res \in 200..299 => Whole(q.c)
    /\ q.res # r.res => r.res <= 0 /\ Whole(r.c)
    /\ r.res <= 0 /\ r.c.bodyStatus # "ONGOING" => BodyDone(r.c, q)
    /\ ~(r.res <= 0 /\ r.c.bodyStatus # "ONGOING") => q = r

\* The end of handleClientIn asks for a success only when the request is
\* whole.
LEMMA BodyDoneIfCompleteStep ==
    ASSUME NEW r, Steady(r.c), r.c.headerStatus = "DONE",
           r.res \in {-1, 0} \union Refusals
    PROVE  DoneStep(r, BodyDoneIfComplete(r))
<1> DEFINE q == BodyDoneIfComplete(r)
<1> SUFFICES DoneStep(r, q)
  OBVIOUS
<1>1. /\ Good(r.c) /\ r.c \in ClientType /\ r.c.status \in Nat
      /\ r.c.status # 100
  BY DEF Steady, Good, ClientType, ExpectKept
<1>2. InResult(q)
  BY <1>1, BodyDoneIfCompleteGood
<1>3. CASE r.res <= 0 /\ r.c.bodyStatus # "ONGOING"
  <2>1. q = HandleRequestBodyDone(r.c)
    BY <1>3 DEF BodyDoneIfComplete
  <2>2. BodyDone(r.c, q)
    BY <1>1, <2>1, HandleRequestBodyDoneFrame
  <2>3. Whole(r.c)
    BY <1>3 DEF Steady, Good, ParserMatchesStatus
  <2> HIDE DEF q
  <2>4. q.res # 100
    BY <1>1, <2>2 DEF BodyDone
  <2>5. Steady(q.c)
    <3>1. /\ q.c.tmpBody = r.c.tmpBody /\ q.c.bodyFile = r.c.bodyFile
          /\ q.c.headerStatus = r.c.headerStatus /\ q.c.unlink = r.c.unlink
          /\ q.c.status = r.c.status /\ q.c.response = r.c.response
          /\ q.c.answers = r.c.answers /\ q.c.close = r.c.close
          /\ q.c.expect = r.c.expect /\ q.c.bodyStatus = r.c.bodyStatus
          /\ q.c.kind = r.c.kind /\ q.c.parser = r.c.parser
          /\ q.c.pos = r.c.pos /\ q.c.path \in {r.c.path, "none"}
      BY <2>2 DEF BodyDone, Changes, Fields
    <3> QED
      BY <1>2, <3>1 DEF InResult, Steady, BodyOwned, AnswerKept, ExpectKept,
                        LineKept, Final
  <2> QED
    BY <1>2, <1>3, <2>2, <2>3, <2>4, <2>5 DEF DoneStep, InResult, BodyDone
<1>4. CASE ~(r.res <= 0 /\ r.c.bodyStatus # "ONGOING")
  <2>1. q = r
    BY <1>4 DEF BodyDoneIfComplete
  <2>2. q.res # 100
    BY <2>1 DEF Refusals
  <2> HIDE DEF q
  <2> QED
    BY <1>2, <1>4, <2>1, <2>2 DEF DoneStep, InResult, Changes
<1> QED
  BY <1>3, <1>4

\* handleClientIn leaves these fields alone.
InKept == {"live", "close", "cgiRedir", "cgi", "tmpOut", "answers"}

\* What a call of handleClientIn may do to a connection.
InStep(c, n, r) ==
    /\ Steady(r.c)
    /\ Changes(c, r.c, Fields \ InKept)
    /\ r.res \in Int /\ r.res # 100
    /\ r.res \in 200..299 => Whole(r.c)
    /\ r.res > 0 => ~Whole(c)
    /\ UnlinksTmp(c) => UnlinksTmp(r.c)
    /\ \/ /\ r.c.response = c.response
          /\ r.c.out = c.out
          /\ r.c.mode = c.mode
       \/ /\ r.c.response = 100
          /\ r.c.out = c.out + 1
          /\ r.c.mode = "WRITE"
          /\ r.c.expect
    /\ r.c.pos < c.pos => /\ c.headerStatus = "ONGOING"
                          /\ c.parser = "RLINE"
                          /\ c.pos >= Size(c.kind)
    /\ r.res <= 0 /\ r.c.headerStatus = "ONGOING" /\ r.c.parser = "RLINE" =>
         c.headerStatus = "ONGOING" /\ c.parser = "RLINE"
    /\ r.res <= 0 /\ r.c.headerStatus = "READY" => c.headerStatus = "READY"
    /\ Whole(c) => Changes(c, r.c, {"request", "buffer"}) /\ r.res = 0
    /\ n + c.buffer > 0 \/ c.pos > 0 => r.c.pos > 0

\* At the blank line the header may be checked, the body not looked for yet.
LEMMA ReadyForCheck ==
    ASSUME NEW c, Steady(c), c.headerStatus = "READY", NEW d \in ClientType,
           Changes(c, d, {"bodyStatus"}), d.bodyStatus = "NONE"
    PROVE  Steady(d) /\ MayBeChecked(d)
<1>0. Good(c)
  BY DEF Steady
<1>1. /\ d.tmpBody = c.tmpBody /\ d.bodyFile = c.bodyFile
      /\ d.headerStatus = c.headerStatus /\ d.unlink = c.unlink
      /\ d.status = c.status /\ d.path = c.path /\ d.response = c.response
      /\ d.answers = c.answers /\ d.close = c.close /\ d.expect = c.expect
      /\ d.kind = c.kind /\ d.parser = c.parser /\ d.pos = c.pos
  BY DEF Changes, Fields
<1>2. Good(d)
  <2>1. d.mode = c.mode /\ d.cgiRedir = c.cgiRedir /\ d.out = c.out
        /\ d.cgi = c.cgi
    BY DEF Changes, Fields
  <2> QED
    BY <1>0, <1>1, <2>1 DEF Good, ResponseMatchesMode,
                  ParserMatchesStatus, WorkIsWhole, Whole
<1> QED
  BY <1>1, <1>2 DEF Steady, BodyOwned, AnswerKept, ExpectKept,
                          LineKept, Final, MayBeChecked

\* handleClientIn at the blank line: check the header, then parse the body
\* that is there already.
LEMMA HandleHeadersReadyStep ==
    ASSUME NEW c, Steady(c), c.headerStatus = "READY", NEW x \in World
    PROVE  LET r == HandleHeadersReady(c, x)
           IN /\ Steady(r.c)
              /\ UnlinksTmp(r.c)
              /\ Changes(c, r.c, Fields \ InKept)
              /\ r.res \in Int /\ r.res # 100
              /\ r.res \in 200..299 => Whole(r.c)
              /\ r.c.pos >= c.pos
              /\ r.res <= 0 => r.c.headerStatus = "DONE"
              /\ \/ /\ r.c.response = c.response
                    /\ r.c.out = c.out
                    /\ r.c.mode = c.mode
                 \/ /\ r.c.response = 100
                    /\ r.c.out = c.out + 1
                    /\ r.c.mode = "WRITE"
                    /\ r.c.expect
<1> DEFINE d == [c EXCEPT !.bodyStatus = "NONE"]
           r == HandleRequestHeaders(d)
           q == IF r.c.bodyStatus # "NONE" THEN ParseRequest(r.c, 0, x) ELSE r
           z == HandleHeadersReady(c, x)
<1>1. Good(c) /\ c \in ClientType /\ c.pos \in Nat
  BY DEF Steady, Good, ClientType
<1>2. d \in ClientType
  BY <1>1 DEF ClientType, BodyStatuses
<1>3. Changes(c, d, {"bodyStatus"}) /\ d.bodyStatus = "NONE"
  BY <1>1 DEF ClientType, Changes, Fields
<1>4. z = IF r.res # 0 THEN r ELSE BodyDoneIfComplete(q)
  BY DEF HandleHeadersReady
<1> HIDE DEF d, z
<1>5. Steady(d) /\ MayBeChecked(d)
  BY <1>2, <1>3, ReadyForCheck
<1>6. Steady(r.c) /\ UnlinksTmp(r.c) /\ HeaderChecked(d, r)
  BY <1>2, <1>5, HandleRequestHeadersSteady, HandleRequestHeadersFrame
<1>7. d.kind.refuse \in Refusals
  BY <1>2 DEF ClientType, KindType
<1>8. r.res \in {0} \union Refusals /\ (r.res = 0 => r.c.headerStatus = "DONE")
  <2>1. HeadersMayBeChecked(d)
    BY <1>5 DEF HeadersMayBeChecked, MayBeChecked
  <2> QED
    BY <1>5, <2>1, HandleRequestHeadersGood DEF Steady
<1> HIDE DEF r
<1>9. /\ Changes(c, r.c, Fields \ InKept)
      /\ r.c.pos = c.pos
      /\ \/ /\ r.c.response = c.response
            /\ r.c.out = c.out
            /\ r.c.mode = c.mode
         \/ /\ r.c.response = 100
            /\ r.c.out = c.out + 1
            /\ r.c.mode = "WRITE"
            /\ r.c.expect
  <2>1. /\ Changes(d, r.c, Fields \ (InKept \union {"pos"}))
        /\ \/ /\ r.c.response = d.response
              /\ r.c.out = d.out
              /\ r.c.mode = d.mode
           \/ /\ r.c.response = 100
              /\ r.c.out = d.out + 1
              /\ r.c.mode = "WRITE"
              /\ r.c.expect
    <3>1. CASE \E f \in ClientType :
             /\ HeaderAccepted(d, f)
             /\ r.res = 0
             /\ \/ d.expect /\ f.bodyStatus # "NONE"
                   /\ Changes(f, r.c, {"response", "out", "mode"})
                   /\ r.c.response = 100 /\ r.c.out = f.out + 1
                   /\ r.c.mode = "WRITE"
                \/ ~d.expect /\ r.c = f
      <4>1. PICK f \in ClientType :
             /\ HeaderAccepted(d, f)
             /\ \/ /\ d.expect
                   /\ Changes(f, r.c, {"response", "out", "mode"})
                   /\ r.c.response = 100 /\ r.c.out = f.out + 1
                   /\ r.c.mode = "WRITE"
                \/ r.c = f
        BY <3>1
      <4>2. Changes(d, f, {"bodyStatus", "type", "status", "path", "unlink",
                      "bodyFile", "tmpBody", "headerStatus"})
        BY <4>1 DEF HeaderAccepted
      <4>3. f.out = d.out /\ f.expect = d.expect /\ f.response = d.response
            /\ f.mode = d.mode
        BY <4>2 DEF Changes, Fields
      <4>4. CASE r.c = f
        BY <4>2, <4>3, <4>4 DEF Changes, Fields, InKept
      <4>5. CASE /\ d.expect
                 /\ Changes(f, r.c, {"response", "out", "mode"})
                 /\ r.c.response = 100 /\ r.c.out = f.out + 1
                 /\ r.c.mode = "WRITE"
        BY <4>2, <4>3, <4>5 DEF Changes, Fields, InKept
      <4> QED
        BY <4>1, <4>4, <4>5
    <3>2. CASE Changes(d, r.c, {"status", "type", "bodyStatus", "path", "expect"})
      BY <3>2 DEF Changes, Fields, InKept
    <3>3. \/ Changes(d, r.c, {"status", "type", "bodyStatus", "path", "expect"})
          \/ \E f \in ClientType :
             /\ HeaderAccepted(d, f)
             /\ r.res = 0
             /\ \/ d.expect /\ f.bodyStatus # "NONE"
                   /\ Changes(f, r.c, {"response", "out", "mode"})
                   /\ r.c.response = 100 /\ r.c.out = f.out + 1
                   /\ r.c.mode = "WRITE"
                \/ ~d.expect /\ r.c = f
      BY <1>6 DEF HeaderChecked, Changes
    <3> QED
      BY <3>1, <3>2, <3>3
  <2> QED
    BY <1>3, <2>1 DEF Changes, Fields, InKept
<1>10. CASE r.res # 0
  <2>1. z = r
    BY <1>4, <1>10
  <2>2. r.res \in Refusals
    BY <1>8, <1>10
  <2>3. \A m \in Refusals : m \in Int /\ m # 100 /\ m > 0 /\ ~(m \in 200..299)
    BY DEF Refusals
  <2>4. r.res \in Int /\ r.res # 100 /\ r.res > 0 /\ ~(r.res \in 200..299)
    BY <2>2, <2>3
  <2> QED
    BY <1>1, <1>6, <1>9, <2>1, <2>4 DEF z
<1>11. CASE r.res = 0
  <2>1. /\ Steady(q.c) /\ q.c.headerStatus = "DONE"
        /\ q.res \in {-1, 0} \union Refusals
        /\ Changes(r.c, q.c, ParserFields \ {"expect"})
        /\ q.c.pos >= r.c.pos
    <3>1. CASE r.c.bodyStatus # "NONE"
      <4>1. ParseStep(r.c, 0, q)
        BY <1>6, <3>1, ParseRequestStep
      <4>2. q = ParseRequest(r.c, 0, x)
        BY <3>1
      <4>3. r.c \in ClientType /\ q.c \in ClientType
        BY <1>6, <4>1 DEF ParseStep, Steady, Good
      <4>4. r.c.pos \in Nat /\ q.c.pos \in Nat
        BY <4>3 DEF ClientType
      <4>5. r.c.headerStatus = "DONE"
        BY <1>8, <1>11
      <4>6. q.res = -1 \/ q.res >= 0
        BY <4>1 DEF ParseStep, Refusals
      <4>7. q.c.headerStatus = "DONE"
        BY <4>1, <4>5, <4>6 DEF ParseStep
      <4>8. Changes(r.c, q.c, ParserFields \ {"expect"})
        <5>1. PICK e \in ClientType :
                Received(r.c, e, 0) /\ RequestParsed(e, q, x)
          BY <1>6, <4>2, ParseRequestFrame DEF Steady
        <5>2. Changes(r.c, e, {"request", "buffer"}) /\ e.headerStatus = "DONE"
          BY <4>5, <5>1 DEF Received, Changes, Fields
        <5>3. Changes(e, q.c, {"pos", "buffer", "error", "status", "bodyStatus"})
          <6> HIDE DEF q
          <6>1. CASE BodyParsed(e, q)
            BY <6>1 DEF BodyParsed, Changes
          <6>2. CASE \E g \in ClientType :
                  /\ BodyParsed(e, [c |-> g, res |-> -1])
                  /\ Changes(g, q.c, {"bodyStatus"})
            BY <6>2 DEF BodyParsed, Changes, Fields
          <6>3. CASE q.c = e
            BY <6>3 DEF Changes
          <6> QED
            BY <5>1, <5>2, <6>1, <6>2, <6>3 DEF RequestParsed
        <5> HIDE DEF q
        <5> QED
          BY <5>2, <5>3 DEF Changes, Fields, ParserFields, HeaderFields
      <4> HIDE DEF q
      <4> QED
        BY <4>1, <4>4, <4>5, <4>7, <4>8 DEF ParseStep
    <3>2. CASE r.c.bodyStatus = "NONE"
      <4>1. q = r
        BY <3>2
      <4>2. r.c.pos \in Nat
        BY <1>6 DEF Steady, Good, ClientType
      <4> QED
        BY <1>6, <1>8, <1>11, <4>1, <4>2 DEF Changes
    <3> QED
      BY <3>1, <3>2
  <2>2. z = BodyDoneIfComplete(q)
    BY <1>4, <1>11
  <2> HIDE DEF q
  <2>3. DoneStep(q, z)
    BY <2>1, <2>2, BodyDoneIfCompleteStep
  <2>4. /\ Changes(r.c, z.c, (ParserFields \ {"expect"}) \union {"path", "foreign"})
        /\ z.c.headerStatus = "DONE" /\ z.c.pos = q.c.pos
    BY <2>1, <2>3 DEF DoneStep, Changes, Fields, ParserFields, HeaderFields
  <2>5. /\ z.c.response = r.c.response /\ z.c.out = r.c.out
        /\ z.c.mode = r.c.mode /\ z.c.expect = r.c.expect
        /\ z.c.bodyFile = r.c.bodyFile /\ z.c.unlink = r.c.unlink
    BY <2>4 DEF Changes, Fields, ParserFields, HeaderFields
  <2>6. UnlinksTmp(z.c)
    BY <1>6, <2>5 DEF UnlinksTmp
  <2>7. Changes(c, z.c, Fields \ InKept)
    BY <1>9, <2>4 DEF Changes, Fields, ParserFields, HeaderFields, InKept
  <2> QED
    BY <1>9, <2>1, <2>3, <2>4, <2>5, <2>6, <2>7 DEF DoneStep, z
<1> QED
  BY <1>10, <1>11

\* IControl::handleClientIn on n more units, however they are cut.
LEMMA HandleClientInStep ==
    ASSUME NEW c, Steady(c), NEW n \in Nat, NEW x \in World
    PROVE  InStep(c, n, HandleClientIn(c, n, x))
<1> DEFINE p == ParseRequest(c, n, x)
           h == HandleHeadersReady(p.c, x)
           b == BodyDoneIfComplete(p)
           r == HandleClientIn(c, n, x)
<1>1. ParseStep(c, n, p)
  BY ParseRequestStep
<1>2. r = IF p.res >= 0 THEN p ELSE IF p.c.headerStatus = "READY" THEN h ELSE b
  BY DEF HandleClientIn
<1> SUFFICES InStep(c, n, r)
  OBVIOUS
<1> HIDE DEF p, r
<1>3. Steady(p.c) /\ c.pos \in Nat /\ p.c.pos \in Nat
  BY <1>1 DEF ParseStep, Steady, Good, ClientType
<1>4. /\ p.c.response = c.response /\ p.c.out = c.out /\ p.c.mode = c.mode
      /\ p.c.bodyFile = c.bodyFile /\ p.c.unlink = c.unlink
      /\ Changes(c, p.c, Fields \ InKept)
  BY <1>1 DEF ParseStep, Changes, Fields, ParserFields, HeaderFields, InKept
<1>5. \A m \in Refusals : m \in Int /\ m # 100 /\ m > 0 /\ ~(m \in 200..299)
  BY DEF Refusals
<1>6. /\ p.c.pos < c.pos => /\ c.headerStatus = "ONGOING"
                            /\ c.parser = "RLINE"
                            /\ c.pos >= Size(c.kind)
      /\ n + c.buffer > 0 \/ c.pos > 0 => p.c.pos > 0
      /\ p.res \in {-1, 0} \union Refusals
      /\ p.res # 0 => ~Whole(c)
  BY <1>1 DEF ParseStep
<1>7. CASE p.res >= 0
  <2>1. r = p
    BY <1>2, <1>7
  <2>2. p.res \in {0} \union Refusals
    BY <1>6, <1>7
  <2>3. p.res \in Int /\ p.res # 100 /\ ~(p.res \in 200..299)
    BY <1>5, <2>2
  <2>4. p.res <= 0 => p.res = 0
    BY <1>7, <2>3
  <2>5. Whole(c) => Changes(c, p.c, {"request", "buffer"}) /\ p.res = 0
    BY <1>1 DEF ParseStep, Whole
  <2>6. /\ p.res = 0 /\ p.c.headerStatus = "ONGOING" /\ p.c.parser = "RLINE" =>
           c.parser = "RLINE"
        /\ p.c.headerStatus = c.headerStatus
    BY <1>1, <1>7 DEF ParseStep
  <2> QED
    BY <1>3, <1>4, <1>6, <2>1, <2>3, <2>4, <2>5, <2>6 DEF InStep, UnlinksTmp
<1>8. CASE p.res = -1 /\ p.c.headerStatus = "READY"
  <2>1. r = h
    BY <1>2, <1>8
  <2>2. /\ Steady(h.c)
        /\ UnlinksTmp(h.c)
        /\ Changes(p.c, h.c, Fields \ InKept)
        /\ h.res \in Int /\ h.res # 100
        /\ h.res \in 200..299 => Whole(h.c)
        /\ h.c.pos >= p.c.pos
        /\ h.res <= 0 => h.c.headerStatus = "DONE"
        /\ \/ /\ h.c.response = p.c.response
              /\ h.c.out = p.c.out
              /\ h.c.mode = p.c.mode
           \/ /\ h.c.response = 100
              /\ h.c.out = p.c.out + 1
              /\ h.c.mode = "WRITE"
              /\ h.c.expect
    BY <1>3, <1>8, HandleHeadersReadyStep
  <2> HIDE DEF h
  <2>3. Changes(c, h.c, Fields \ InKept)
    BY <1>4, <2>2 DEF Changes, Fields, InKept
  <2>4. ~Whole(c)
    BY <1>6, <1>8
  <2>5. h.c.pos \in Nat
    BY <2>2 DEF Steady, Good, ClientType
  <2>6. /\ h.c.pos < c.pos => /\ c.headerStatus = "ONGOING"
                              /\ c.parser = "RLINE"
                              /\ c.pos >= Size(c.kind)
        /\ n + c.buffer > 0 \/ c.pos > 0 => h.c.pos > 0
    BY <1>3, <1>6, <2>2, <2>5
  <2>7. \/ /\ h.c.response = c.response
           /\ h.c.out = c.out
           /\ h.c.mode = c.mode
        \/ /\ h.c.response = 100
           /\ h.c.out = c.out + 1
           /\ h.c.mode = "WRITE"
           /\ h.c.expect
    BY <1>4, <2>2
  <2> QED
    BY <2>1, <2>2, <2>3, <2>4, <2>6, <2>7 DEF InStep
<1>9. CASE p.res = -1 /\ p.c.headerStatus # "READY"
  <2>1. r = b
    BY <1>2, <1>9
  <2>2. p.c.headerStatus = "DONE"
    BY <1>1, <1>9 DEF ParseStep
  <2>3. DoneStep(p, b)
    BY <1>3, <1>6, <2>2, BodyDoneIfCompleteStep
  <2> HIDE DEF b
  <2>4. /\ Changes(c, b.c, Fields \ InKept)
        /\ b.c.response = c.response /\ b.c.out = c.out /\ b.c.mode = c.mode
        /\ b.c.bodyFile = c.bodyFile /\ b.c.unlink = c.unlink
        /\ b.c.headerStatus = "DONE" /\ b.c.pos = p.c.pos
    BY <1>4, <2>2, <2>3 DEF DoneStep, Changes, Fields, InKept
  <2>5. ~Whole(c)
    BY <1>6, <1>9
  <2>6. Steady(b.c) /\ b.res \in Int /\ b.res # 100
        /\ (b.res \in 200..299 => Whole(b.c))
    BY <2>3 DEF DoneStep
  <2> QED
    BY <1>3, <1>6, <2>1, <2>4, <2>5, <2>6 DEF InStep, UnlinksTmp
<1>10. p.res >= 0 \/ p.res = -1
  BY <1>6, <1>5
<1> QED
  BY <1>7, <1>8, <1>9, <1>10

-----------------------------------------------------------------------------
\* A response that is there has buffers to send.
Queued(c) == c.response # NoResponse => c.out > 0

\* A request line that was refused, and a header that was not accepted, have
\* their response.
LineAnswered(c) ==
    /\ c.headerStatus = "ONGOING" /\ c.parser = "RLINE" =>
         c.response # NoResponse
    /\ c.headerStatus = "READY" => c.response # NoResponse

\* What making a response may change.
ResponseFields == {"status", "path", "unlink", "close", "response", "out",
                   "mode", "answers"}

\* Client::generateResponse, whether there is a response already or not.
LEMMA GenerateResponseStep ==
    ASSUME NEW c, Steady(c), NEW st \in Nat, NEW x \in World, Queued(c),
           (IF st # 0 THEN st ELSE c.status) # 100,
           (IF st # 0 THEN st ELSE c.status) \in 200..299 => Whole(c)
    PROVE  LET d == GenerateResponse(c, st, x)
           IN /\ Steady(d) /\ Queued(d)
              /\ Changes(c, d, ResponseFields)
              /\ d.response # NoResponse
              /\ c.response # NoResponse => d = c
              /\ c.response = NoResponse =>
                   Answered(c, d, IF st # 0 THEN st ELSE c.status, x)
<1> DEFINE d == GenerateResponse(c, st, x)
<1>1. Steady(d)
  BY GenerateResponseSteady
<1>2. c \in ClientType
  BY DEF Steady, Good
<1>3. CASE c.response # NoResponse
  <2>1. d = c
    BY <1>3 DEF GenerateResponse
  <2> QED
    BY <1>1, <1>3, <2>1 DEF Changes
<1>4. CASE c.response = NoResponse
  <2>1. Answered(c, d, IF st # 0 THEN st ELSE c.status, x)
    BY <1>2, <1>4, GenerateResponseFrame
  <2> HIDE DEF d
  <2>2. d.response = d.status /\ d.status \in Nat /\ d.out = c.out + x.out
    BY <2>1 DEF Answered, ClientType
  <2>3. c.out \in Nat /\ x.out \in 1..MaxOut /\ MaxOut \in Nat
    BY <1>2, BoundsAssumption DEF ClientType, World
  <2>4. d.response # NoResponse /\ d.out > 0
    BY <2>2, <2>3 DEF NoResponse
  <2>5. Changes(c, d, ResponseFields)
    BY <2>1 DEF Answered, ResponseFields
  <2> QED
    BY <1>1, <1>4, <2>1, <2>4, <2>5 DEF Queued, d
<1> QED
  BY <1>3, <1>4

\* What handleClientResponse may change.
RespondFields == ResponseFields \union {"cgi", "tmpOut"}

Responded(c, res, d) ==
    /\ Steady(d) /\ Queued(d)
    /\ Changes(c, d, RespondFields)
    /\ d.response # NoResponse \/ (d.cgi = "running" /\ Whole(c))
    /\ c.response # NoResponse => d.response = c.response /\ d.out = c.out
    /\ \/ d.cgi = c.cgi /\ d.tmpOut = c.tmpOut
       \/ /\ d.cgi = "running" /\ d.response = c.response
          /\ d.path = "cgiout" /\ d.mode = "WRITE"
    /\ d.status \in {c.status, res, 500}
    /\ d.response \in {c.response, res, 500}
    /\ d.response # c.response => d.response = d.status

\* handleClientResponse makes a response, or launches the script of a whole
\* request.
LEMMA HandleClientResponseStep ==
    ASSUME NEW c, Steady(c), Queued(c), UnlinksTmp(c), NEW x \in World,
           NEW res \in Nat \ {0, 100}, res \in 200..299 => Whole(c)
    PROVE  Responded(c, res, HandleClientResponse(c, res, x))
<1> DEFINE d == HandleClientResponse(c, res, x)
           r == GenerateCGIProcess(c, x)
           t == 500
<1> SUFFICES Responded(c, res, d)
  OBVIOUS
<1>t. t \in Nat /\ t # 0 /\ t # 100 /\ ~(t \in 200..299)
  OBVIOUS
<1>1. c \in ClientType
  BY DEF Steady, Good
<1>2. CASE c.type # "cgi" \/ res # 200
  <2>1. d = GenerateResponse(c, res, x)
    BY <1>2 DEF HandleClientResponse
  <2> DEFINE g == GenerateResponse(c, res, x)
  <2>2. /\ Steady(g) /\ Queued(g)
        /\ Changes(c, g, ResponseFields)
        /\ g.response # NoResponse
        /\ c.response # NoResponse => g = c
        /\ c.response = NoResponse => Answered(c, g, res, x)
    <3>1. (IF res # 0 THEN res ELSE c.status) = res
      OBVIOUS
    <3> QED
      BY <3>1, GenerateResponseStep
  <2> HIDE DEF g, d
  <2>3. /\ g.status \in {c.status, res, 500}
        /\ g.response \in {c.response, res, 500}
        /\ g.response # c.response => g.response = g.status
    BY <2>2 DEF Answered
  <2>4. g.cgi = c.cgi /\ g.tmpOut = c.tmpOut /\ Changes(c, g, RespondFields)
    BY <2>2 DEF Changes, Fields, ResponseFields, RespondFields
  <2>5. d = g
    BY <2>1 DEF g
  <2> QED
    BY <2>2, <2>3, <2>4, <2>5 DEF Responded
<1>3. CASE c.type = "cgi" /\ res = 200
  <2>1. Whole(c)
    BY <1>3
  <2>2. Launched(c, r) /\ Steady(r.c)
    BY <1>1, <2>1, GenerateCGIProcessFrame, GenerateCGIProcessSteady
  <2>3. d = IF r.res = 0 THEN r.c ELSE GenerateResponse(r.c, t, x)
    BY <1>3 DEF HandleClientResponse
  <2> HIDE DEF r, d, t
  <2>4. /\ r.c.response = c.response /\ r.c.out = c.out
        /\ r.c.status = c.status
        /\ Changes(c, r.c, RespondFields)
        /\ r.res = 0 => /\ r.c.cgi = "running"
                        /\ r.c.path = "cgiout" /\ r.c.mode = "WRITE"
        /\ r.res # 0 => r.c.cgi = c.cgi /\ r.c.tmpOut = c.tmpOut
    BY <2>2 DEF Launched, Changes, Fields, RespondFields, ResponseFields
  <2>5. Queued(r.c)
    BY <2>4 DEF Queued
  <2>6. CASE r.res = 0
    <3>1. d = r.c
      BY <2>3, <2>6
    <3> QED
      BY <2>1, <2>2, <2>4, <2>5, <2>6, <3>1 DEF Responded
  <2>7. CASE r.res # 0
    <3> DEFINE g == GenerateResponse(r.c, t, x)
    <3>1. (IF t # 0 THEN t ELSE r.c.status) = t
      BY <1>t
    <3>2. /\ Steady(g) /\ Queued(g)
          /\ Changes(r.c, g, ResponseFields)
          /\ g.response # NoResponse
          /\ r.c.response # NoResponse => g = r.c
          /\ r.c.response = NoResponse => Answered(r.c, g, t, x)
      BY <1>t, <2>2, <2>5, <3>1, GenerateResponseStep
    <3>3. d = g
      BY <2>3, <2>7
    <3> HIDE DEF g
    <3>4. Changes(c, g, RespondFields) /\ g.cgi = r.c.cgi
          /\ g.tmpOut = r.c.tmpOut
      BY <2>4, <3>2 DEF Changes, Fields, ResponseFields, RespondFields
    <3>5. /\ g.status \in {c.status, 500} /\ g.response \in {c.response, 500}
          /\ g.response # c.response => g.response = g.status
      BY <2>4, <3>2 DEF Answered, t
    <3> QED
      BY <2>4, <2>7, <3>2, <3>3, <3>4, <3>5 DEF Responded
  <2> QED
    BY <2>6, <2>7
<1> QED
  BY <1>2, <1>3

\* What is kept from event to event, beside Steady.
Settled(c) == Steady(c) /\ SuccessEnds(c) /\ Queued(c) /\ LineAnswered(c)

\* A connection in WRITE mode has a response or a script.
HasWork(c) ==
    c.mode = "WRITE" => c.response # NoResponse \/ c.cgi # "none"

\* What handleClientIn with its response may do to a connection.
ReadStep(c, n, d) ==
    /\ Settled(d)
    /\ d.live = c.live
    /\ d.cgi \in {c.cgi, "running"}
    /\ d.cgi = "none" => d.tmpOut = c.tmpOut
    /\ c.cgi = "none" /\ d.cgi # "none" => d.path = "cgiout" /\ d.mode = "WRITE"
    /\ c.response # NoResponse /\ d.response # 100 =>
         d.response = c.response /\ d.out = c.out
    /\ HasWork(c) => HasWork(d)
    /\ Whole(c) => Changes(c, d, {"request", "buffer"})
    /\ d.pos < c.pos => /\ c.headerStatus = "ONGOING"
                        /\ c.parser = "RLINE"
                        /\ c.pos >= Size(c.kind)
    /\ n + c.buffer > 0 \/ c.pos > 0 => d.pos > 0

\* A response asked for by handleClientIn finds what it needs.
LEMMA RespondAfterRead ==
    ASSUME NEW c, Settled(c), ReadsInput(c), NEW n \in Nat, NEW x \in World,
           NEW r, InStep(c, n, r), r.res > 0
    PROVE  Responded(r.c, r.res, HandleClientResponse(r.c, r.res, x))
<1>1. Steady(c) /\ Good(c) /\ c \in ClientType /\ Queued(c)
  BY DEF Settled, Steady, Good
<1>2. Steady(r.c) /\ r.c \in ClientType /\ ~Whole(c)
  BY DEF InStep, Steady, Good
<1>3. Queued(r.c)
  <2>1. c.out \in Nat /\ r.c.out \in Nat
    BY <1>1, <1>2 DEF ClientType
  <2> QED
    BY <1>1, <2>1 DEF InStep, Queued
<1>4. UnlinksTmp(c)
  <2>1. CASE c.mode = "READ"
    <3>1. ~Final(c)
      BY <1>1, <2>1 DEF Good, ResponseMatchesMode, Final
    <3> QED
      BY <1>1, <3>1 DEF Steady, BodyOwned, UnlinksTmp
  <2>2. CASE c.bodyStatus # "ONGOING"
    <3>1. c.headerStatus # "DONE"
      BY <1>1, <1>2, <2>2 DEF Good, ParserMatchesStatus
    <3> QED
      BY <1>1, <3>1 DEF Steady, BodyOwned, UnlinksTmp
  <2> QED
    BY <2>1, <2>2 DEF ReadsInput
<1>5. UnlinksTmp(r.c) /\ r.res \in Nat \ {0, 100}
      /\ (r.res \in 200..299 => Whole(r.c))
  BY <1>4 DEF InStep
<1> QED
  BY <1>2, <1>3, <1>5, HandleClientResponseStep

\* One EPOLLIN, up to and including the response it asks for, leaves the
\* connection settled.
LEMMA ReadAndRespondStep ==
    ASSUME NEW c, Settled(c), ReadsInput(c), NEW n \in Nat, NEW x \in World
    PROVE  ReadStep(c, n, ReadAndRespond(c, n, x))
<1> DEFINE r == HandleClientIn(c, n, x)
           d == ReadAndRespond(c, n, x)
<1> SUFFICES ReadStep(c, n, d)
  OBVIOUS
<1>1. Steady(c) /\ Good(c) /\ c \in ClientType
  BY DEF Settled, Steady, Good
<1>2. InStep(c, n, r)
  BY <1>1, HandleClientInStep
<1>3. d = IF r.res > 0 THEN HandleClientResponse(r.c, r.res, x) ELSE r.c
  BY DEF ReadAndRespond
<1> HIDE DEF r, d
<1>4. Steady(r.c) /\ r.c \in ClientType
  BY <1>2 DEF InStep, Steady, Good
<1>5. /\ r.c.live = c.live /\ r.c.cgi = c.cgi /\ r.c.tmpOut = c.tmpOut
  BY <1>2 DEF InStep, Changes, Fields, InKept
<1>6. /\ r.c.response # c.response => r.c.response = 100
      /\ r.c.response # 100 => r.c.out = c.out
      /\ c.response # NoResponse => r.c.response # NoResponse
      /\ r.c.out >= c.out
      /\ Queued(r.c)
      /\ HasWork(c) => HasWork(r.c)
  <2>1. c.out \in Nat /\ r.c.out \in Nat
    BY <1>1, <1>4 DEF ClientType
  <2>2. Queued(c)
    BY DEF Settled
  <2>3. CASE r.c.response = c.response /\ r.c.out = c.out /\ r.c.mode = c.mode
    BY <1>5, <2>1, <2>2, <2>3 DEF Queued, HasWork
  <2>4. CASE r.c.response = 100 /\ r.c.out = c.out + 1
    <3>1. r.c.response # NoResponse /\ r.c.out > 0 /\ r.c.out >= c.out
      BY <2>1, <2>4 DEF NoResponse
    <3> QED
      BY <2>4, <3>1 DEF Queued, HasWork
  <2> QED
    BY <1>2, <2>3, <2>4 DEF InStep
<1>7. CASE ~(r.res > 0)
  <2>1. d = r.c
    BY <1>3, <1>7
  <2>2. r.res <= 0
    BY <1>2, <1>7 DEF InStep
  <2>3. SuccessEnds(d)
    <3>1. d.response \in 200..299 => c.response \in 200..299
      BY <1>6, <2>1
    <3>2. c.response \in 200..299 => d.status = c.status
      BY <1>1, <1>2, <2>1 DEF Good, WorkIsWhole, InStep, Changes, Fields
    <3> QED
      BY <1>5, <2>1, <3>1, <3>2 DEF Settled, SuccessEnds
  <2>4. LineAnswered(d)
    <3>1. LineAnswered(c)
      BY DEF Settled
    <3> QED
      BY <1>2, <1>6, <2>1, <2>2, <3>1 DEF InStep, LineAnswered
  <2> QED
    BY <1>2, <1>4, <1>5, <1>6, <2>1, <2>3, <2>4 DEF ReadStep, Settled, InStep
<1>8. CASE r.res > 0
  <2>1. d = HandleClientResponse(r.c, r.res, x)
    BY <1>3, <1>8
  <2>2. ~Whole(c)
    BY <1>2, <1>8 DEF InStep
  <2>5. Responded(r.c, r.res, d)
    BY <1>2, <1>8, <2>1, RespondAfterRead
  <2>6. /\ d.live = r.c.live
        /\ d.headerStatus = r.c.headerStatus /\ d.pos = r.c.pos
    BY <2>5 DEF Responded, Changes, Fields, RespondFields, ResponseFields
  <2>7. c.cgi = "none" /\ c.response \notin 200..299
    BY <1>1, <2>2 DEF Good, WorkIsWhole
  <2>8. SuccessEnds(d)
    <3>1. r.c.response \notin 200..299
      BY <1>6, <2>7
    <3>2. d.response \in 200..299 => d.status = d.response
      BY <2>5, <3>1 DEF Responded
    <3>3. d.response \in 200..299 => d.cgi = "none"
      BY <1>5, <2>5, <2>7, <3>1 DEF Responded
    <3>4. d.response \in 200..299 => d.status < 300
      BY <3>2
    <3> QED
      BY <3>3, <3>4 DEF SuccessEnds
  <2>9. LineAnswered(d)
    BY <2>5, <2>6 DEF Responded, LineAnswered, Whole
  <2>10. HasWork(d) /\ d.cgi \in {c.cgi, "running"}
    BY <1>5, <2>5 DEF Responded, HasWork
  <2>12. /\ d.cgi = "none" => d.tmpOut = c.tmpOut
         /\ d.cgi # "none" => d.path = "cgiout" /\ d.mode = "WRITE"
    BY <1>5, <2>5, <2>7 DEF Responded
  <2>13. c.response # NoResponse /\ d.response # 100 =>
           d.response = c.response /\ d.out = c.out
    BY <1>6, <2>5 DEF Responded
  <2>11. /\ d.pos < c.pos => /\ c.headerStatus = "ONGOING"
                             /\ c.parser = "RLINE"
                             /\ c.pos >= Size(c.kind)
         /\ n + c.buffer > 0 \/ c.pos > 0 => d.pos > 0
    BY <1>2, <2>6 DEF InStep
  <2> QED
    BY <1>5, <2>2, <2>5, <2>6, <2>8, <2>9, <2>10, <2>11, <2>12, <2>13
       DEF ReadStep, Settled, Responded
<1> QED
  BY <1>7, <1>8

-----------------------------------------------------------------------------
(***************************************************************************)
(* CGI.                                                                    *)
(***************************************************************************)
\* What making the responses of handleCGIProcess may change.
CgiFields == ResponseFields \union {"cgi", "tmpOut", "foreign"}

\* What deleting the CGIProcess, which reads resHints.path, leaves on disk
\* as long as that path is the script's output.
OutputKept(c, d) ==
    c.path = "cgiout" =>
      /\ d.foreign = c.foreign
      /\ d.cgi # "none" => d.path = "cgiout"
      /\ c.cgi # "none" /\ d.cgi = "none" /\ c.cgi # "badstatus" =>
           d.tmpOut = FALSE

\* The response that handleCGIProcess leaves behind.
CgiResponse(c, x, d) ==
    \/ d.response = c.response
    \/ d.response \in {200, 302, 400, 500, 503, x.to.refuse}
    \/ d.response = 100 /\ c.expect
    \/ /\ d.response = 0
       /\ c.cgi = "local"
       /\ x.to.type # "cgi"
       /\ x.to.at # "late"

\* What handleCGIProcess may do to a connection.
CgiStep(c, x, d) ==
    /\ Settled(d)
    /\ Whole(d)
    /\ Size(d.kind) = Size(c.kind)
    /\ Changes(c, d, Fields \ {"live", "buffer", "request", "pos"})
    /\ d.cgi \in {c.cgi, "none", "running"}
    /\ d.mode \in {c.mode, "WRITE"}
    /\ HasWork(d) \/ c.cgi = "malformed"
    /\ OutputKept(c, d)
    /\ ~c.expect => ~d.expect
    /\ c.response # NoResponse /\ ~c.expect =>
         d.response = c.response /\ d.out = c.out
    /\ CgiResponse(c, x, d)
    /\ d.kind.refuse \in {c.kind.refuse, x.to.refuse}
    /\ d.response = NoResponse => d.status \in {c.status, 0, 500}

\* A failed, late or empty script is answered with 503.
LEMMA ServiceUnavailableStep ==
    ASSUME NEW c, Settled(c), Whole(c), NEW x \in World
    PROVE  CgiStep(c, x, ServiceUnavailable(c, x))
<1> DEFINE b == DeleteCGIProcess(c)
           t == 503
           d == ServiceUnavailable(c, x)
           g == GenerateResponse(b, t, x)
<1> SUFFICES CgiStep(c, x, d)
  OBVIOUS
<1>t. t \in Nat /\ t # 0 /\ t # 100 /\ ~(t \in 200..299)
  OBVIOUS
<1>1. d = g
  BY DEF ServiceUnavailable
<1>2. Steady(c) /\ c \in ClientType /\ Queued(c)
  BY DEF Settled, Steady, Good
<1>3. /\ b \in ClientType
      /\ Changes(c, b, {"cgi", "tmpOut", "foreign"})
      /\ b.cgi = "none"
      /\ c.cgi # "none" /\ c.path = "cgiout" => b.tmpOut = FALSE
      /\ c.path \notin {"target", "errpage"} => b.foreign = c.foreign
  BY <1>2, DeleteCGIProcessType, DeleteCGIProcessFrame
<1> HIDE DEF b, d, t
<1>4. Changes(c, b, {"live", "buffer", "request", "error", "type",
                          "cgi", "tmpOut", "foreign"})
  BY <1>3 DEF Changes
<1>5. Steady(b)
  BY <1>2, <1>3, <1>4, SameSteady
<1>6. b.response = c.response /\ b.out = c.out /\ b.status = c.status
      /\ b.mode = c.mode
  BY <1>3 DEF Changes, Fields
<1>7. Queued(b)
  BY <1>2, <1>6 DEF Queued
<1>8. (IF t # 0 THEN t ELSE b.status) = t
  BY <1>t
<1>9. /\ Steady(g) /\ Queued(g)
      /\ Changes(b, g, ResponseFields)
      /\ g.response # NoResponse
      /\ b.response # NoResponse => g = b
      /\ b.response = NoResponse => Answered(b, g, t, x)
  BY <1>t, <1>5, <1>7, <1>8, GenerateResponseStep
<1> HIDE DEF g
<1>10. Changes(c, g, CgiFields) /\ g.cgi = "none" /\ g.tmpOut = b.tmpOut
       /\ g.foreign = b.foreign
  BY <1>3, <1>9 DEF Changes, Fields, ResponseFields, CgiFields
<1>11. /\ g.live = c.live /\ g.buffer = c.buffer /\ g.request = c.request
       /\ g.pos = c.pos /\ g.kind = c.kind /\ g.headerStatus = c.headerStatus
       /\ g.bodyStatus = c.bodyStatus /\ g.expect = c.expect
  BY <1>10 DEF Changes, Fields, CgiFields, ResponseFields
<1>12. Whole(g)
  BY <1>11 DEF Whole
<1>18. g.response \in 200..299 => g.status < 300
  <2>1. CASE b.response # NoResponse
    BY <1>6, <1>9, <2>1 DEF Settled, SuccessEnds
  <2>2. CASE b.response = NoResponse
    BY <1>9, <2>2 DEF Answered, t
  <2> QED
    BY <2>1, <2>2
<1>13. Settled(g)
  BY <1>9, <1>10, <1>12, <1>18 DEF Settled, SuccessEnds, LineAnswered, Whole
<1>14. Changes(c, g, Fields \ {"live", "buffer", "request", "pos"})
  BY <1>11 DEF Changes, Fields
<1>15. g.mode \in {c.mode, "WRITE"} /\ (g.response = c.response \/ g.response \in {500, 503})
  <2>1. CASE b.response # NoResponse
    BY <1>6, <1>9, <2>1
  <2>2. CASE b.response = NoResponse
    BY <1>9, <2>2 DEF Answered, t
  <2> QED
    BY <2>1, <2>2
<1>16. OutputKept(c, g)
  BY <1>3, <1>10 DEF OutputKept
<1>17. c.response # NoResponse => g.response = c.response /\ g.out = c.out
  BY <1>6, <1>9
<1> QED
  BY <1>1, <1>9, <1>10, <1>11, <1>12, <1>13, <1>14, <1>15, <1>16, <1>17
     DEF CgiStep, CgiResponse, HasWork

\* The status a script's output is sent with.
OutputStatus(c, st) ==
    /\ st \in {200, 302, 500}
    /\ st = 500 => c.cgi = "badstatus"

\* A script's output is answered before its CGIProcess is deleted.
LEMMA SendOutputStep ==
    ASSUME NEW c, Settled(c), Whole(c), c.path = "cgiout", c.tmpOut = TRUE,
           c.cgi # "none", NEW st, OutputStatus(c, st), NEW x \in World
    PROVE  CgiStep(c, x, SendOutput(c, st, x))
<1> DEFINE b == [c EXCEPT !.status = st]
           z == 0
           g == GenerateResponse(b, z, x)
           e == DeleteCGIProcess(g)
           d == SendOutput(c, st, x)
<1> SUFFICES CgiStep(c, x, d)
  OBVIOUS
<1>t. /\ st \in Nat /\ st # 100 /\ z = 0 /\ st \in {200, 302, 500}
      /\ st = 500 => c.cgi = "badstatus"
  BY DEF OutputStatus
<1>1. d = e
  BY DEF SendOutput
<1>2. Steady(c) /\ c \in ClientType /\ Queued(c)
  BY DEF Settled, Steady, Good
<1>3. b \in ClientType /\ Changes(c, b, {"status"}) /\ b.status = st
  BY <1>2, <1>t DEF ClientType, Changes, Fields
<1> HIDE DEF b, d, z
<1>4. /\ b.response = c.response /\ b.out = c.out /\ b.mode = c.mode
      /\ b.path = c.path /\ b.tmpOut = c.tmpOut /\ b.bodyFile = c.bodyFile
      /\ b.unlink = c.unlink /\ b.tmpBody = c.tmpBody /\ b.expect = c.expect
  BY <1>3 DEF Changes, Fields
<1>a. /\ b.headerStatus = c.headerStatus /\ b.bodyStatus = c.bodyStatus
      /\ b.kind = c.kind /\ b.pos = c.pos /\ b.parser = c.parser
      /\ b.answers = c.answers /\ b.close = c.close /\ b.cgi = c.cgi
      /\ b.cgiRedir = c.cgiRedir
  BY <1>3 DEF Changes, Fields
<1>5. Steady(b) /\ Whole(b) /\ Queued(b)
  <2>1. Good(b)
    BY <1>2, <1>3, <1>4, <1>a, SameGood DEF Steady, SameButCgi
  <2>2. BodyOwned(b)
    BY <1>2, <1>4, <1>a DEF Steady, BodyOwned
  <2>3. AnswerKept(b) /\ ExpectKept(b) /\ LineKept(b)
    BY <1>2, <1>3, <1>4, <1>a, <1>t DEF Steady, AnswerKept, ExpectKept, LineKept, Final
  <2> QED
    BY <1>2, <1>4, <1>a, <2>1, <2>2, <2>3 DEF Steady, Whole, Queued
<1>6. (IF z # 0 THEN z ELSE b.status) = st /\ z \in Nat
  BY <1>t, <1>3
<1>7. /\ Steady(g) /\ Queued(g)
      /\ Changes(b, g, ResponseFields)
      /\ g.response # NoResponse
      /\ b.response # NoResponse => g = b
      /\ b.response = NoResponse => Answered(b, g, st, x)
  BY <1>t, <1>5, <1>6, GenerateResponseStep
<1>8. g \in ClientType
  BY <1>7 DEF Steady, Good
<1> HIDE DEF g
<1>9. /\ e \in ClientType
      /\ Changes(g, e, {"cgi", "tmpOut", "foreign"})
      /\ e.cgi = "none"
      /\ g.cgi # "none" /\ g.path = "cgiout" => e.tmpOut = FALSE
      /\ g.path \notin {"target", "errpage"} => e.foreign = g.foreign
  BY <1>8, DeleteCGIProcessType, DeleteCGIProcessFrame
<1> HIDE DEF e
<1>10. Changes(g, e, {"live", "buffer", "request", "error", "type",
                          "cgi", "tmpOut", "foreign"})
  BY <1>9 DEF Changes
<1>11. Steady(e)
  BY <1>7, <1>9, <1>10, SameSteady
<1>12. /\ e.live = c.live /\ e.buffer = c.buffer /\ e.request = c.request
       /\ e.pos = c.pos /\ e.kind = c.kind /\ e.headerStatus = c.headerStatus
       /\ e.bodyStatus = c.bodyStatus /\ e.expect = c.expect
       /\ g.cgi = c.cgi /\ g.foreign = c.foreign /\ e.response = g.response
       /\ e.mode = g.mode /\ e.out = g.out /\ e.status = g.status
  BY <1>3, <1>7, <1>9 DEF Changes, Fields, ResponseFields
<1>13. Whole(e)
  BY <1>12 DEF Whole
<1>14. Queued(e)
  BY <1>7, <1>12 DEF Queued
<1>b. e.response \in 200..299 => e.status < 300
  <2>1. CASE b.response # NoResponse
    BY <1>4, <1>7, <1>12, <2>1 DEF Settled, SuccessEnds
  <2>2. CASE b.response = NoResponse
    BY <1>7, <1>12, <2>2 DEF Answered
  <2> QED
    BY <2>1, <2>2
<1>15. Settled(e)
  BY <1>9, <1>11, <1>13, <1>14, <1>b DEF Settled, SuccessEnds, LineAnswered, Whole
<1>16. Changes(c, e, Fields \ {"live", "buffer", "request", "pos"})
  BY <1>12 DEF Changes, Fields
<1>17. g.mode \in {c.mode, "WRITE"}
       /\ (g.response = c.response \/ g.response \in {200, 302, 500})
       /\ g.path \in {"cgiout", "none"}
       /\ (st # 500 => g.path = "cgiout")
  <2>1. CASE b.response # NoResponse
    BY <1>4, <1>7, <2>1
  <2>2. CASE b.response = NoResponse
    <3>1. Answered(b, g, st, x) /\ ~HasErrorPage(st)
      BY <1>7, <1>t, <2>2 DEF HasErrorPage
    <3>2. /\ g.mode = "WRITE" /\ g.response \in {st, 500}
          /\ g.path = b.path \/ g.path = "none"
          /\ st \in {200, 302} => g.path = "cgiout"
      BY <1>4, <1>t, <3>1 DEF Answered
    <3> QED
      BY <1>4, <1>t, <3>2
  <2> QED
    BY <2>1, <2>2
<1>18. OutputKept(c, e)
  BY <1>9, <1>12, <1>17, <1>t DEF OutputKept
<1>19. c.response # NoResponse => e.response = c.response /\ e.out = c.out
  BY <1>4, <1>7, <1>12
<1> QED
  BY <1>1, <1>7, <1>9, <1>12, <1>13, <1>15, <1>16, <1>17, <1>18, <1>19
     DEF CgiStep, CgiResponse, HasWork

\* setUri changes where the request leads, and not how long it is.
LEMMA SetUriFrame ==
    ASSUME NEW c \in ClientType, NEW to \in RedirType
    PROVE  LET d == SetUri(c, to)
           IN /\ Changes(c, d, {"kind"})
              /\ d.kind.body = c.kind.body
              /\ d.kind.at = to.at
              /\ d.kind.refuse = to.refuse
              /\ d.kind.type = to.type
<1> DEFINE k == [c.kind EXCEPT !.at = to.at, !.refuse = to.refuse,
                               !.type = to.type]
           d == [c EXCEPT !.kind = k]
<1>1. c.kind \in KindType
  BY DEF ClientType
<1>2. k.body = c.kind.body /\ k.at = to.at /\ k.refuse = to.refuse
      /\ k.type = to.type
  BY <1>1 DEF KindType
<1>3. SetUri(c, to) = d
  BY <1>1 DEF SetUri, ClientType, KindType
<1> HIDE DEF k
<1>4. d.kind = k /\ Changes(c, d, {"kind"})
  BY DEF ClientType, Changes, Fields
<1> QED
  BY <1>2, <1>3, <1>4

\* Of a redirected request whose header is checked again.
Rechecked(d, r) ==
    /\ Steady(r.c) /\ UnlinksTmp(r.c) /\ Whole(r.c)
    /\ Changes(d, r.c, {"status", "type", "bodyStatus", "path", "expect",
                        "unlink", "bodyFile", "tmpBody", "headerStatus",
                        "response", "out", "mode"})
    /\ r.res \in {0} \union Refusals
    /\ Queued(r.c)
    /\ r.c.path \in {d.path, "target"}
    /\ ~d.expect => ~r.c.expect
    /\ r.c.mode \in {d.mode, "WRITE"}
    /\ \/ r.c.response = d.response /\ r.c.out = d.out
       \/ r.c.response = 100 /\ d.expect
    /\ r.res # 0 => r.res \in {400, d.kind.refuse}
    /\ r.res = 0 => /\ r.c.type = d.kind.type
                    /\ d.kind.at # "late"
                    /\ r.c.status = 0

\* handleRequestHeaders on the whole request of a script that redirects.
LEMMA RecheckStep ==
    ASSUME NEW d, Steady(d), Whole(d), d.cgiRedir = TRUE, d.path = "cgiout",
           Queued(d)
    PROVE  Rechecked(d, HandleRequestHeaders(d))
<1> DEFINE r == HandleRequestHeaders(d)
<1>1. Good(d) /\ d \in ClientType /\ d.kind.refuse \in Refusals
  BY DEF Steady, Good, ClientType, KindType
<1>2. MayBeChecked(d) /\ HeadersMayBeChecked(d)
  BY DEF MayBeChecked, HeadersMayBeChecked
<1>3. /\ Steady(r.c) /\ UnlinksTmp(r.c) /\ HeaderChecked(d, r)
      /\ r.res \in {0} \union Refusals /\ Whole(r.c)
  BY <1>1, <1>2, HandleRequestHeadersSteady, HandleRequestHeadersFrame,
     HandleRequestHeadersGood
<1>4. r.res = 0 => d.kind.at # "late"
  <2>1. d.kind.refuse # 0
    BY <1>1 DEF Refusals
  <2> QED
    BY <2>1 DEF HandleRequestHeaders, Result
<1> SUFFICES Rechecked(d, r)
  OBVIOUS
<1> HIDE DEF r
<1>5. d.out \in Nat
  BY <1>1 DEF ClientType
<1>6. CASE /\ Changes(d, r.c, {"status", "type", "bodyStatus"})
           /\ r.res = d.kind.refuse
  <2>1. /\ r.c.response = d.response /\ r.c.mode = d.mode /\ r.c.out = d.out
        /\ r.c.path = d.path /\ r.c.expect = d.expect
    BY <1>6 DEF Changes, Fields
  <2>2. Changes(d, r.c, {"status", "type", "bodyStatus", "path", "expect",
                         "unlink", "bodyFile", "tmpBody", "headerStatus",
                         "response", "out", "mode"})
    BY <1>6 DEF Changes
  <2>3. r.res # 0
    BY <1>1, <1>6 DEF Refusals
  <2> QED
    BY <1>3, <1>6, <2>1, <2>2, <2>3 DEF Rechecked, Queued
<1>7. CASE /\ Changes(d, r.c, {"status", "type", "path", "expect"})
           /\ r.res = 400
           /\ r.c.expect = FALSE
           /\ r.c.path \in {d.path, "target"}
  <2>1. /\ r.c.response = d.response /\ r.c.mode = d.mode /\ r.c.out = d.out
    BY <1>7 DEF Changes, Fields
  <2>2. Changes(d, r.c, {"status", "type", "bodyStatus", "path", "expect",
                         "unlink", "bodyFile", "tmpBody", "headerStatus",
                         "response", "out", "mode"})
    BY <1>7 DEF Changes
  <2> QED
    BY <1>3, <1>7, <2>1, <2>2 DEF Rechecked, Queued
<1>8. ASSUME NEW f \in ClientType, HeaderAccepted(d, f), r.res = 0,
             \/ d.expect /\ f.bodyStatus # "NONE"
                /\ Changes(f, r.c, {"response", "out", "mode"})
                /\ r.c.response = 100 /\ r.c.out = f.out + 1
                /\ r.c.mode = "WRITE"
             \/ ~d.expect /\ r.c = f
      PROVE  Rechecked(d, r)
  <2>1. /\ Changes(d, f, {"bodyStatus", "type", "status", "path", "unlink",
                      "bodyFile", "tmpBody", "headerStatus"})
        /\ f.type = d.kind.type /\ f.status = 0 /\ f.path \in {d.path, "target"}
    BY <1>8 DEF HeaderAccepted
  <2>2. /\ f.response = d.response /\ f.mode = d.mode /\ f.out = d.out
        /\ f.expect = d.expect
    BY <2>1 DEF Changes, Fields
  <2>3. CASE ~d.expect /\ r.c = f
    <3>1. Changes(d, r.c, {"status", "type", "bodyStatus", "path", "expect",
                         "unlink", "bodyFile", "tmpBody", "headerStatus",
                         "response", "out", "mode"})
      BY <2>1, <2>3 DEF Changes
    <3> QED
      BY <1>3, <1>4, <1>8, <2>1, <2>2, <2>3, <3>1 DEF Rechecked, Queued
  <2>4. CASE /\ d.expect
             /\ Changes(f, r.c, {"response", "out", "mode"})
             /\ r.c.response = 100 /\ r.c.out = f.out + 1
             /\ r.c.mode = "WRITE"
    <3>1. Changes(d, r.c, {"status", "type", "bodyStatus", "path", "expect",
                         "unlink", "bodyFile", "tmpBody", "headerStatus",
                         "response", "out", "mode"})
      BY <2>1, <2>4 DEF Changes, Fields
    <3>2. r.c.type = f.type /\ r.c.status = f.status /\ r.c.path = f.path
      BY <2>4 DEF Changes, Fields
    <3>3. Queued(r.c)
      BY <1>5, <2>2, <2>4 DEF Queued
    <3> QED
      BY <1>3, <1>4, <1>8, <2>1, <2>4, <3>1, <3>2, <3>3 DEF Rechecked
  <2> QED
    BY <1>8, <2>3, <2>4
<1>9. Changes(d, r.c, {"status"}) => Changes(d, r.c, {"status", "type", "bodyStatus"})
  BY DEF Changes
<1> QED
  BY <1>3, <1>6, <1>7, <1>8, <1>9 DEF HeaderChecked

\* A local redirection ends in a response or in another script.
LEMMA LocalRedirectStep ==
    ASSUME NEW c, Settled(c), Whole(c), c.path = "cgiout", c.cgiRedir = TRUE,
           c.cgi = "local", NEW x \in World
    PROVE  CgiStep(c, x, LocalRedirect(c, x))
<1> DEFINE b == DeleteCGIProcess(c)
           d == SetUri(b, x.to)
           r == HandleRequestHeaders(d)
           g == GenerateCGIProcess(r.c, x)
           t == 500
           z == LocalRedirect(c, x)
<1> SUFFICES CgiStep(c, x, z)
  OBVIOUS
<1>t. t \in Nat /\ t # 0 /\ t # 100 /\ ~(t \in 200..299) /\ t = 500
  OBVIOUS
<1>1. z = IF r.res # 0 \/ r.c.type # "cgi" THEN GenerateResponse(r.c, r.res, x)
          ELSE IF g.res = 0 THEN g.c ELSE GenerateResponse(g.c, t, x)
  BY DEF LocalRedirect
<1>2. Steady(c) /\ c \in ClientType /\ Queued(c) /\ c.response \notin 200..299
  BY DEF Settled, Steady, Good, SuccessEnds
<1>3. /\ b \in ClientType
      /\ Changes(c, b, {"cgi", "tmpOut", "foreign"})
      /\ b.cgi = "none" /\ b.tmpOut = FALSE /\ b.foreign = c.foreign
  BY <1>2, DeleteCGIProcessType, DeleteCGIProcessFrame
<1> HIDE DEF b, z, t
<1>4. Changes(c, b, {"live", "buffer", "request", "error", "type",
                          "cgi", "tmpOut", "foreign"})
  BY <1>3 DEF Changes
<1>5. Steady(b)
  BY <1>2, <1>3, <1>4, SameSteady
<1>6. Whole(b) /\ b.cgiRedir = TRUE
  BY <1>3 DEF Whole, Changes, Fields
<1>7. x.to \in RedirType
  BY DEF World
<1>8. /\ Changes(b, d, {"kind"}) /\ d.kind.body = b.kind.body
      /\ d.kind.at = x.to.at /\ d.kind.refuse = x.to.refuse
      /\ d.kind.type = x.to.type
      /\ Good(d) /\ Whole(d)
  BY <1>3, <1>5, <1>6, <1>7, SetUriFrame, SetUriGood DEF Steady
<1> HIDE DEF d
<1>9. Changes(c, d, {"cgi", "tmpOut", "foreign", "kind"})
      /\ d.cgi = "none" /\ d.tmpOut = FALSE /\ d.foreign = c.foreign
      /\ d.kind.body = c.kind.body
  BY <1>3, <1>8 DEF Changes, Fields
<1>10. Steady(d)
  <2>1. /\ d.tmpBody = b.tmpBody /\ d.bodyFile = b.bodyFile
        /\ d.headerStatus = b.headerStatus /\ d.unlink = b.unlink
        /\ d.status = b.status /\ d.path = b.path /\ d.response = b.response
        /\ d.answers = b.answers /\ d.close = b.close /\ d.expect = b.expect
        /\ d.bodyStatus = b.bodyStatus
    BY <1>8 DEF Changes, Fields
  <2> QED
    BY <1>5, <1>8, <2>1 DEF Steady, BodyOwned, AnswerKept, ExpectKept,
                            LineKept, Final, Whole
<1>11. d.path = "cgiout" /\ d.cgiRedir = TRUE /\ d.response = c.response
       /\ d.out = c.out /\ d.mode = c.mode /\ d.expect = c.expect
  BY <1>9 DEF Changes, Fields
<1>12. Queued(d)
  BY <1>2, <1>11 DEF Queued
<1>13. Rechecked(d, r)
  BY <1>8, <1>10, <1>11, <1>12, RecheckStep
<1> HIDE DEF r
<1>14. /\ r.c.cgi = "none" /\ r.c.tmpOut = FALSE /\ r.c.foreign = c.foreign
       /\ r.c.live = c.live /\ r.c.buffer = c.buffer /\ r.c.request = c.request
       /\ r.c.pos = c.pos /\ r.c.kind = d.kind
  BY <1>9, <1>13 DEF Rechecked, Changes, Fields
<1>15. /\ Steady(r.c) /\ UnlinksTmp(r.c) /\ Whole(r.c) /\ Queued(r.c)
       /\ r.c \in ClientType
       /\ r.c.mode \in {c.mode, "WRITE"}
       /\ ~c.expect => ~r.c.expect
       /\ r.c.response = c.response \/ (r.c.response = 100 /\ c.expect)
       /\ ~c.expect => r.c.response = c.response /\ r.c.out = c.out
       /\ r.c.response \notin 200..299
  BY <1>2, <1>11, <1>13 DEF Rechecked, Steady, Good
<1>16. ASSUME NEW e, Steady(e), Queued(e), SuccessEnds(e),
              Changes(r.c, e, RespondFields),
              e.mode \in {r.c.mode, "WRITE"},
              e.cgi \in {"none", "running"},
              e.response # NoResponse \/ e.cgi # "none",
              e.cgi # "none" => e.path = "cgiout",
              e.cgi = "none" => e.tmpOut = FALSE,
              e.response = r.c.response \/ CgiResponse(c, x, e),
              r.c.response # NoResponse =>
                e.response = r.c.response /\ e.out = r.c.out,
              e.response = NoResponse => e.status = 0
       PROVE  CgiStep(c, x, e)
  <2>1. /\ e.headerStatus = r.c.headerStatus /\ e.bodyStatus = r.c.bodyStatus
        /\ e.pos = c.pos /\ e.kind = d.kind /\ e.live = c.live
        /\ e.buffer = c.buffer /\ e.request = c.request
        /\ e.foreign = c.foreign /\ e.expect = r.c.expect
    BY <1>14, <1>16 DEF Changes, Fields, RespondFields, ResponseFields
  <2>2. Whole(e)
    <3>1. Whole(r.c) /\ r.c.pos = c.pos /\ r.c.kind = d.kind
      BY <1>14, <1>15
    <3>2. /\ e.headerStatus = r.c.headerStatus /\ e.bodyStatus = r.c.bodyStatus
          /\ e.pos = c.pos /\ e.kind = d.kind
      BY <2>1
    <3> QED
      BY <3>1, <3>2 DEF Whole
  <2>3. Settled(e)
    BY <1>16, <2>2 DEF Settled, LineAnswered, Whole
  <2>4. Size(e.kind) = Size(c.kind)
    BY <1>9, <2>1 DEF Size
  <2>5. Changes(c, e, Fields \ {"live", "buffer", "request", "pos"})
    BY <2>1 DEF Changes, Fields
  <2>6. OutputKept(c, e) /\ HasWork(e)
    BY <1>16, <2>1 DEF OutputKept, HasWork
  <2>7. CgiResponse(c, x, e)
    BY <1>15, <1>16 DEF CgiResponse
  <2> QED
    BY <1>8, <1>15, <1>16, <2>1, <2>2, <2>3, <2>4, <2>5, <2>6, <2>7 DEF CgiStep
<1>17. CASE r.res # 0 \/ r.c.type # "cgi"
  <2> DEFINE e == GenerateResponse(r.c, r.res, x)
             s == IF r.res # 0 THEN r.res ELSE r.c.status
  <2>1. z = e
    BY <1>1, <1>17
  <2>2. r.res \in Nat
    BY <1>13 DEF Rechecked, Refusals
  <2>3. s # 100 /\ (s \in {400, x.to.refuse} \/ (s = 0 /\ x.to.type # "cgi" /\ x.to.at # "late"))
    <3>1. d.kind.refuse \in Refusals
      BY <1>7, <1>8 DEF RedirType
    <3>2. d.kind.refuse # 100
      BY <3>1 DEF Refusals
    <3> QED
      BY <1>8, <1>13, <1>17, <3>2 DEF Rechecked
  <2>4. /\ Steady(e) /\ Queued(e)
        /\ Changes(r.c, e, ResponseFields)
        /\ e.response # NoResponse
        /\ r.c.response # NoResponse => e = r.c
        /\ r.c.response = NoResponse => Answered(r.c, e, s, x)
    BY <1>15, <2>2, <2>3, GenerateResponseStep
  <2> HIDE DEF e, s
  <2>5. Changes(r.c, e, RespondFields) /\ e.cgi = "none" /\ e.tmpOut = FALSE
    BY <1>14, <2>4 DEF Changes, Fields, RespondFields, ResponseFields
  <2>6. /\ e.mode \in {r.c.mode, "WRITE"}
        /\ e.response = r.c.response \/ CgiResponse(c, x, e)
    <3>1. CASE r.c.response # NoResponse
      BY <2>4, <3>1
    <3>2. CASE r.c.response = NoResponse
      <4>1. e.mode = "WRITE" /\ e.response \in {s, 500}
        BY <2>4, <3>2 DEF Answered
      <4> QED
        BY <2>3, <4>1 DEF CgiResponse
    <3> QED
      BY <3>1, <3>2
  <2>8. SuccessEnds(e)
    <3>1. e.response \in 200..299 => e.response = e.status
      BY <1>15, <2>4 DEF Answered
    <3> QED
      BY <2>5, <3>1 DEF SuccessEnds
  <2>7. CgiStep(c, x, e)
    BY <1>16, <2>4, <2>5, <2>6, <2>8
  <2> QED
    BY <2>1, <2>7
<1>18. CASE r.res = 0 /\ r.c.type = "cgi"
  <2>1. Launched(r.c, g) /\ Steady(g.c)
    BY <1>15, GenerateCGIProcessFrame, GenerateCGIProcessSteady
  <2> HIDE DEF g
  <2>2. /\ g.c.response = r.c.response /\ g.c.out = r.c.out
        /\ Changes(r.c, g.c, RespondFields)
        /\ g.c.path = "cgiout"
        /\ g.c.mode \in {r.c.mode, "WRITE"}
        /\ g.res = 0 => g.c.cgi = "running"
        /\ g.res # 0 => g.c.cgi = "none" /\ g.c.tmpOut = FALSE
    BY <1>14, <2>1 DEF Launched, Changes, Fields, RespondFields, ResponseFields
  <2>3. Queued(g.c)
    BY <1>15, <2>2 DEF Queued
  <2>4. CASE g.res = 0
    <3>1. z = g.c
      BY <1>1, <1>18, <2>4
    <3>2. SuccessEnds(g.c)
      BY <1>15, <2>2 DEF SuccessEnds
    <3>3. g.c.status = 0
      BY <1>13, <1>18, <2>1 DEF Launched, Rechecked, Changes, Fields
    <3>4. CgiStep(c, x, g.c)
      BY <1>16, <2>1, <2>2, <2>3, <2>4, <3>2, <3>3
    <3> QED
      BY <3>1, <3>4
  <2>5. CASE g.res # 0
    <3> DEFINE e == GenerateResponse(g.c, t, x)
    <3>1. z = e
      BY <1>1, <1>18, <2>5
    <3>2. (IF t # 0 THEN t ELSE g.c.status) = t
      BY <1>t
    <3>3. /\ Steady(e) /\ Queued(e)
          /\ Changes(g.c, e, ResponseFields)
          /\ e.response # NoResponse
          /\ g.c.response # NoResponse => e = g.c
          /\ g.c.response = NoResponse => Answered(g.c, e, t, x)
      BY <1>t, <2>1, <2>3, <3>2, GenerateResponseStep
    <3> HIDE DEF e
    <3>4. Changes(r.c, e, RespondFields) /\ e.cgi = "none" /\ e.tmpOut = FALSE
      BY <2>2, <2>5, <3>3 DEF Changes, Fields, RespondFields, ResponseFields
    <3>5. /\ e.mode \in {r.c.mode, "WRITE"}
          /\ e.response = r.c.response \/ CgiResponse(c, x, e)
      <4>1. CASE g.c.response # NoResponse
        BY <2>2, <3>3, <4>1
      <4>2. CASE g.c.response = NoResponse
        <5>1. e.mode = "WRITE" /\ e.response = 500
          BY <1>t, <3>3, <4>2 DEF Answered
        <5> QED
          BY <5>1 DEF CgiResponse
      <4> QED
        BY <4>1, <4>2
    <3>6. r.c.response # NoResponse =>
            e.response = r.c.response /\ e.out = r.c.out
      BY <2>2, <3>3
    <3>8. SuccessEnds(e)
      <4>1. e.response \in 200..299 => e.response = e.status
        BY <1>15, <2>2, <3>3 DEF Answered
      <4> QED
        BY <3>4, <4>1 DEF SuccessEnds
    <3>7. CgiStep(c, x, e)
      BY <1>16, <3>3, <3>4, <3>5, <3>6, <3>8
    <3> QED
      BY <3>1, <3>7
  <2> QED
    BY <2>4, <2>5
<1> QED
  BY <1>17, <1>18

\* Whatever a script has printed, the connection is settled afterwards.
LEMMA HandleOutputStep ==
    ASSUME NEW c, Settled(c), c.cgi # "none", NEW x \in World
    PROVE  CgiStep(c, x, HandleOutput(c, x))
<1> DEFINE o == OutputRead(c)
           u == o # "malformed"
           d == [c EXCEPT !.cgiRedir = u]
           t == 500
           e == [d EXCEPT !.status = t]
           b == DeleteCGIProcess(e)
           z == HandleOutput(c, x)
<1> SUFFICES CgiStep(c, x, z)
  OBVIOUS
<1>1. c \in ClientType /\ Steady(c) /\ Whole(c) /\ Queued(c)
  BY DEF Settled, Steady, Good, WorkIsWhole
<1>2. u \in BOOLEAN /\ t \in Nat /\ t # 100 /\ t >= 300
  OBVIOUS
<1>3. z = CASE o = "doc"       -> SendOutput(d, 200, x)
            [] o = "badstatus" -> SendOutput(d, 500, x)
            [] o = "redirect"  -> SendOutput(d, 302, x)
            [] o = "local"     -> LocalRedirect(d, x)
            [] o = "malformed" -> b
            [] OTHER           -> ServiceUnavailable(d, x)
  BY DEF HandleOutput
<1>4. u = (o # "malformed")
  OBVIOUS
<1>5. o # "empty" => c.path = "cgiout" /\ c.tmpOut = TRUE /\ c.cgi = o
  BY <1>1 DEF OutputRead, ClientType
<1> HIDE DEF u, o, z, t
<1>6. d \in ClientType
  BY <1>1, <1>2 DEF ClientType
<1>7. Changes(c, d, {"cgiRedir"}) /\ d.cgiRedir = u
  BY <1>1 DEF ClientType, Changes, Fields
<1>8. e \in ClientType /\ Changes(d, e, {"status"}) /\ e.status = t
  BY <1>2, <1>6 DEF ClientType, Changes, Fields
<1>9. /\ b \in ClientType
      /\ Changes(e, b, {"cgi", "tmpOut", "foreign"})
      /\ b.cgi = "none"
      /\ e.cgi # "none" /\ e.path = "cgiout" => b.tmpOut = FALSE
      /\ e.path \notin {"target", "errpage"} => b.foreign = e.foreign
  BY <1>8, DeleteCGIProcessType, DeleteCGIProcessFrame
<1> HIDE DEF b, e, d
<1>10. /\ d.kind = c.kind /\ d.mode = c.mode /\ d.headerStatus = c.headerStatus
       /\ d.bodyStatus = c.bodyStatus /\ d.pos = c.pos /\ d.parser = c.parser
       /\ d.response = c.response /\ d.out = c.out /\ d.cgi = c.cgi
       /\ d.tmpBody = c.tmpBody /\ d.bodyFile = c.bodyFile
  BY <1>7 DEF Changes, Fields
<1>11. /\ d.unlink = c.unlink /\ d.status = c.status /\ d.path = c.path
       /\ d.answers = c.answers /\ d.close = c.close /\ d.expect = c.expect
       /\ d.tmpOut = c.tmpOut /\ d.foreign = c.foreign
       /\ d.live = c.live /\ d.buffer = c.buffer /\ d.request = c.request
  BY <1>7 DEF Changes, Fields
<1>12. Good(d) /\ Whole(d)
  BY <1>1, <1>6, <1>10 DEF Steady, Good, ResponseMatchesMode,
                           ParserMatchesStatus, WorkIsWhole, Whole
<1>13. Steady(d)
  BY <1>1, <1>10, <1>11, <1>12 DEF Steady, BodyOwned, AnswerKept, ExpectKept,
                                   LineKept, Final
<1>14. Settled(d)
  <2>1. SuccessEnds(d) /\ Queued(d) /\ LineAnswered(d)
    BY <1>10 DEF Settled, SuccessEnds, Queued, LineAnswered
  <2> QED
    BY <1>13, <2>1 DEF Settled
<1>15. ASSUME NEW f, CgiStep(d, x, f)
       PROVE  CgiStep(c, x, f)
  <2>1. Changes(c, f, Fields \ {"live", "buffer", "request", "pos"})
    BY <1>10, <1>11, <1>15 DEF CgiStep, Changes, Fields
  <2>2. OutputKept(c, f) /\ CgiResponse(c, x, f)
    BY <1>10, <1>11, <1>15 DEF CgiStep, OutputKept, CgiResponse
  <2> QED
    BY <1>10, <1>11, <1>15, <2>1, <2>2 DEF CgiStep
<1>16. CASE o \in {"doc", "badstatus", "redirect"}
  <2>1. d.path = "cgiout" /\ d.tmpOut = TRUE /\ d.cgi = o
    BY <1>5, <1>10, <1>11, <1>16
  <2>2. ASSUME NEW st, OutputStatus(d, st)
        PROVE  CgiStep(c, x, SendOutput(d, st, x))
    <3>1. CgiStep(d, x, SendOutput(d, st, x))
      BY <1>12, <1>14, <1>16, <2>1, <2>2, SendOutputStep
    <3> QED
      BY <1>15, <3>1
  <2> DEFINE s == IF o = "doc" THEN 200 ELSE IF o = "badstatus" THEN 500 ELSE 302
  <2>3. z = SendOutput(d, s, x)
    BY <1>3, <1>16
  <2>4. OutputStatus(d, s)
    BY <2>1 DEF OutputStatus
  <2> HIDE DEF s
  <2> QED
    BY <2>2, <2>3, <2>4
<1>17. CASE o = "local"
  <2>1. d.path = "cgiout" /\ d.cgi = "local" /\ u
    BY <1>4, <1>5, <1>10, <1>11, <1>17
  <2>2. d.cgiRedir = TRUE
    BY <1>2, <1>7, <2>1
  <2>3. CgiStep(d, x, LocalRedirect(d, x))
    BY <1>12, <1>14, <2>1, <2>2, LocalRedirectStep
  <2>4. z = LocalRedirect(d, x)
    BY <1>3, <1>17
  <2> QED
    BY <1>15, <2>3, <2>4
<1>18. CASE o \notin {"doc", "badstatus", "redirect", "local", "malformed"}
  <2>1. CgiStep(d, x, ServiceUnavailable(d, x))
    BY <1>12, <1>14, ServiceUnavailableStep
  <2>2. z = ServiceUnavailable(d, x)
    BY <1>3, <1>18
  <2> QED
    BY <1>15, <2>1, <2>2
<1>19. CASE o = "malformed"
  <2>1. z = b /\ c.cgi = "malformed" /\ c.path = "cgiout"
    BY <1>3, <1>5, <1>19
  <2>2. Changes(c, b, {"cgiRedir", "status", "cgi", "tmpOut", "foreign"})
        /\ b.status = t
    BY <1>7, <1>8, <1>9 DEF Changes, Fields
  <2>3. b.tmpOut = FALSE /\ b.foreign = c.foreign
    <3>1. e.cgi = "malformed" /\ e.path = "cgiout" /\ e.foreign = c.foreign
      BY <1>7, <1>8, <2>1 DEF Changes, Fields
    <3> QED
      BY <1>9, <3>1
  <2>4. /\ b.kind = c.kind /\ b.mode = c.mode /\ b.headerStatus = c.headerStatus
        /\ b.bodyStatus = c.bodyStatus /\ b.pos = c.pos /\ b.parser = c.parser
        /\ b.response = c.response /\ b.out = c.out
        /\ b.tmpBody = c.tmpBody /\ b.bodyFile = c.bodyFile
    BY <2>2 DEF Changes, Fields
  <2>5. /\ b.unlink = c.unlink /\ b.path = c.path
        /\ b.answers = c.answers /\ b.close = c.close /\ b.expect = c.expect
        /\ b.live = c.live /\ b.buffer = c.buffer /\ b.request = c.request
    BY <2>2 DEF Changes, Fields
  <2>6. Good(b) /\ Whole(b)
    BY <1>1, <1>9, <2>4 DEF Steady, Good, ResponseMatchesMode,
                            ParserMatchesStatus, WorkIsWhole, Whole
  <2>7. BodyOwned(b)
    BY <1>1, <2>1, <2>4, <2>5 DEF Steady, BodyOwned
  <2>8. AnswerKept(b) /\ ExpectKept(b) /\ LineKept(b)
    BY <1>1, <1>2, <2>2, <2>4, <2>5 DEF Steady, AnswerKept, ExpectKept,
                                   LineKept, Final
  <2>13. c.response \notin 200..299
    BY DEF Settled, SuccessEnds
  <2>9. SuccessEnds(b) /\ Queued(b) /\ LineAnswered(b)
    BY <1>1, <2>4, <2>6, <2>13 DEF SuccessEnds, Queued, LineAnswered, Whole
  <2>10. Settled(b)
    BY <2>6, <2>7, <2>8, <2>9 DEF Settled, Steady
  <2>11. Changes(c, b, Fields \ {"live", "buffer", "request", "pos"})
    BY <2>4, <2>5 DEF Changes, Fields
  <2>12. OutputKept(c, b) /\ CgiResponse(c, x, b)
    BY <1>9, <2>3, <2>4 DEF OutputKept, CgiResponse
  <2> QED
    BY <1>9, <2>1, <2>2, <2>4, <2>5, <2>6, <2>10, <2>11, <2>12 DEF CgiStep, t
<1> QED
  BY <1>16, <1>17, <1>18, <1>19

\* handleCGIProcess, whether the child runs, failed or has ended.
LEMMA HandleCGIProcessStep ==
    ASSUME NEW c, Settled(c), c.cgi # "none", NEW x \in World
    PROVE  CgiStep(c, x, HandleCGIProcess(c, x))
<1>1. Whole(c)
  BY DEF Settled, Steady, Good, WorkIsWhole
<1>2. CASE CheckEnd(c, x) = 0
  <2>1. CgiStep(c, x, c)
    <3>1. Changes(c, c, Fields \ {"live", "buffer", "request", "pos"})
      BY DEF Changes
    <3> QED
      BY <1>1, <3>1 DEF CgiStep, OutputKept, CgiResponse, HasWork
  <2> QED
    BY <1>2, <2>1 DEF HandleCGIProcess
<1>3. CASE CheckEnd(c, x) # 0
  BY <1>1, <1>3, ServiceUnavailableStep, HandleOutputStep DEF HandleCGIProcess
<1> QED
  BY <1>2, <1>3

-----------------------------------------------------------------------------
(***************************************************************************)
(* Sending.                                                                *)
(***************************************************************************)
\* The record after Client::clear, before it reads or for good.
Cleared(c, e) ==
    /\ Settled(e)
    /\ e.mode = "READ" /\ e.out = 0
    /\ e.headerStatus = "ONGOING" /\ e.parser = "NEW" /\ e.pos = 0
    /\ e.bodyStatus = "NONE"
    /\ e.kind = NoKind /\ e.expect = FALSE
    /\ e.response = NoResponse /\ e.cgi = "none"
    /\ e.status = 0 /\ e.path = "none" /\ e.unlink = FALSE
    /\ e.bodyFile = "none" /\ e.answers = 0
    /\ e.tmpOut = DeleteCGIProcess(c).tmpOut
    /\ ~TargetLost(c) => e.foreign = DeleteCGIProcess(c).foreign

\* A cleared record owns no temporary body.
LEMMA ClearedFrame ==
    ASSUME NEW c, Steady(c), NEW e, Good(e),
           Changes(Clear(c), e, {"live", "mode", "buffer", "out"}),
           e.mode = "READ", e.out = 0
    PROVE  Cleared(c, e)
<1> DEFINE d == Clear(c)
<1>1. c \in ClientType
  BY DEF Steady, Good
<1>2. /\ d.kind = NoKind /\ d.expect = FALSE
      /\ d.status = 0 /\ d.path = "none" /\ d.unlink = FALSE
      /\ d.bodyFile = "none" /\ d.answers = 0
      /\ d.tmpBody = DeleteBodyStream(c).tmpBody
      /\ d.tmpOut = DeleteCGIProcess(c).tmpOut
      /\ ~TargetLost(c) => d.foreign = DeleteCGIProcess(c).foreign
  BY <1>1, ClearFrame
<1>3. /\ d.headerStatus = "ONGOING" /\ d.bodyStatus = "NONE"
      /\ d.parser = "NEW" /\ d.pos = 0
      /\ d.response = NoResponse /\ d.cgi = "none"
  BY <1>1, ClearFacts
<1>4. DeleteBodyStream(c).tmpBody = FALSE
  <2>1. CASE ~c.tmpBody
    BY <1>1, <2>1, DeleteBodyStreamFrame
  <2>2. CASE c.tmpBody
    <3>1. c.bodyFile = "tmp" /\ UnlinksBody(c)
      BY <2>2 DEF Steady, BodyOwned, UnlinksBody
    <3> QED
      BY <1>1, <3>1, DeleteBodyStreamFrame
  <2> QED
    BY <2>1, <2>2
<1> HIDE DEF d
<1>5. Changes(d, e, {"live", "mode", "buffer", "out"})
  BY DEF d
<1>6. /\ e.kind = NoKind /\ e.expect = FALSE
      /\ e.status = 0 /\ e.path = "none" /\ e.unlink = FALSE
      /\ e.bodyFile = "none" /\ e.answers = 0
      /\ e.tmpBody = FALSE
      /\ e.tmpOut = DeleteCGIProcess(c).tmpOut
      /\ ~TargetLost(c) => e.foreign = DeleteCGIProcess(c).foreign
  BY <1>2, <1>4, <1>5 DEF Changes, Fields
<1>7. /\ e.headerStatus = "ONGOING" /\ e.bodyStatus = "NONE"
      /\ e.parser = "NEW" /\ e.pos = 0
      /\ e.response = NoResponse /\ e.cgi = "none"
  BY <1>3, <1>5 DEF Changes, Fields
<1>8. BodyOwned(e) /\ AnswerKept(e) /\ LineKept(e)
  BY <1>6, <1>7 DEF BodyOwned, AnswerKept, LineKept, Final
<1>9. ExpectKept(e)
  BY <1>6, <1>7 DEF ExpectKept, NoResponse
<1>10. Queued(e) /\ SuccessEnds(e) /\ LineAnswered(e)
  BY <1>6, <1>7 DEF Queued, SuccessEnds, LineAnswered
<1> QED
  BY <1>6, <1>7, <1>8, <1>9, <1>10 DEF Cleared, Settled, Steady

\* Client::clear, before the connection reads on.
LEMMA ClearStep ==
    ASSUME NEW c, Steady(c), c.out = 0
    PROVE  LET e == [Clear(c) EXCEPT !.mode = "READ"]
           IN Cleared(c, e) /\ e.live = c.live /\ e.buffer = c.buffer
<1> DEFINE d == Clear(c)
           e == [d EXCEPT !.mode = "READ"]
<1>1. c \in ClientType /\ d \in ClientType
  BY ClearFacts DEF Steady, Good
<1>2. d.live = c.live /\ d.buffer = c.buffer /\ d.out = 0
  BY <1>1, ClearFrame, ClearFacts
<1>3. Good(e)
  BY <1>1, ClearGood
<1> HIDE DEF d
<1>4. /\ Changes(d, e, {"live", "mode", "buffer", "out"})
      /\ e.mode = "READ" /\ e.out = 0 /\ e.live = c.live
      /\ e.buffer = c.buffer
  BY <1>1, <1>2 DEF ClientType, Changes, Fields
<1> HIDE DEF e
<1>5. Cleared(c, e)
  BY <1>3, <1>4, ClearedFrame DEF d
<1> QED
  BY <1>4, <1>5 DEF e, d

\* Client::terminate, from any state.
LEMMA TerminateStep ==
    ASSUME NEW c, Steady(c)
    PROVE  Cleared(c, Terminate(c)) /\ Terminate(c).live = FALSE
<1> DEFINE d == Clear(c)
           e == Terminate(c)
<1>1. c \in ClientType /\ d \in ClientType
  BY ClearFacts DEF Steady, Good
<1>2. e = [d EXCEPT !.live = FALSE, !.mode = "READ", !.buffer = 0, !.out = 0]
  BY DEF Terminate
<1>3. Good(e)
  BY <1>1, TerminateGood
<1> HIDE DEF d, e
<1>4. /\ Changes(d, e, {"live", "mode", "buffer", "out"})
      /\ e.mode = "READ" /\ e.out = 0 /\ e.live = FALSE
  BY <1>1, <1>2 DEF ClientType, Changes, Fields
<1>5. Cleared(c, e)
  BY <1>3, <1>4, ClearedFrame DEF d
<1> QED
  BY <1>4, <1>5 DEF e

\* What handleClientOut does once the last buffer is written.
Continued(c, z) ==
    /\ c.expect /\ c.response = 100
    /\ Changes(c, z, {"response", "expect", "mode"})
    /\ z.response = NoResponse /\ z.expect = FALSE /\ z.mode = "READ"

GoesOn(c, x, z) ==
    /\ c.response \in 200..299 /\ Whole(c) /\ c.answers > 0
    /\ \E e : /\ Cleared(c, e)
              /\ e.live = c.live /\ e.buffer = c.buffer
              /\ z = ReadAndRespond(e, 0, x)
              /\ ReadStep(e, 0, z)

Sent(c, x, z) ==
    /\ Settled(z)
    /\ HasWork(z)
    /\ \/ Continued(c, z)
       \/ c.close /\ Cleared(c, z) /\ z.live = FALSE
       \/ GoesOn(c, x, z)

\* After the last buffer: back to READ after a 100, close, or go on with the
\* next request, which only a success allows.
LEMMA HandleSentStep ==
    ASSUME NEW c, Steady(c), SuccessEnds(c), c.response # NoResponse,
           c.out = 0, NEW x \in World
    PROVE  Sent(c, x, HandleSent(c, x))
<1> DEFINE z == HandleSent(c, x)
<1> SUFFICES Sent(c, x, z)
  OBVIOUS
<1>1. c \in ClientType /\ Good(c)
  BY DEF Steady, Good
<1>2. CASE c.expect /\ c.response = 100
  <2> DEFINE u == FALSE
             e == [c EXCEPT !.response = NoResponse, !.expect = u, !.mode = "READ"]
  <2>1. z = e
    BY <1>1, <1>2 DEF HandleSent, ClearResponse, ClientType
  <2>2. Good(z)
    BY <1>1, HandleSentGood
  <2>3. /\ Changes(c, e, {"response", "expect", "mode"})
        /\ e.response = NoResponse /\ e.expect = FALSE /\ e.mode = "READ"
    BY <1>1 DEF ClientType, Changes, Fields
  <2> HIDE DEF z, e, u
  <2>4. /\ e.tmpBody = c.tmpBody /\ e.bodyFile = c.bodyFile
        /\ e.headerStatus = c.headerStatus /\ e.unlink = c.unlink
        /\ e.status = c.status /\ e.path = c.path
        /\ e.bodyStatus = c.bodyStatus /\ e.kind = c.kind
        /\ e.cgi = c.cgi
    BY <2>3 DEF Changes, Fields
  <2>5. c.headerStatus = "DONE" /\ ~Final(c)
    BY <1>2 DEF Steady, ExpectKept, Final
  <2>6. BodyOwned(e)
    BY <2>4, <2>5 DEF Steady, BodyOwned
  <2>7. AnswerKept(e) /\ LineKept(e)
    BY <2>3, <2>4, <2>5 DEF AnswerKept, LineKept, Final
  <2>8. ExpectKept(e)
    BY <2>3, <2>4, <2>5 DEF Steady, ExpectKept, NoResponse
  <2>9. SuccessEnds(e) /\ Queued(e) /\ LineAnswered(e) /\ HasWork(e)
    BY <2>3, <2>4, <2>5 DEF SuccessEnds, Queued, LineAnswered, HasWork, NoResponse
  <2> QED
    BY <1>2, <2>1, <2>2, <2>3, <2>6, <2>7, <2>8, <2>9
       DEF Sent, Continued, Settled, Steady
<1>3. CASE ~(c.expect /\ c.response = 100) /\ c.close
  <2>1. z = Terminate(c)
    BY <1>3 DEF HandleSent
  <2>2. Cleared(c, z) /\ z.live = FALSE
    BY <2>1, TerminateStep
  <2> HIDE DEF z
  <2> QED
    BY <1>3, <2>2 DEF Sent, Cleared, HasWork
<1>4. CASE ~(c.expect /\ c.response = 100) /\ ~c.close
  <2> DEFINE e == [Clear(c) EXCEPT !.mode = "READ"]
  <2>1. z = ReadAndRespond(e, 0, x)
    BY <1>4 DEF HandleSent
  <2>2. Cleared(c, e) /\ e.live = c.live /\ e.buffer = c.buffer
    BY ClearStep
  <2> HIDE DEF e, z
  <2>3. ReadsInput(e) /\ Settled(e) /\ HasWork(e)
    BY <2>2 DEF Cleared, ReadsInput, HasWork
  <2>4. ReadStep(e, 0, z)
    BY <2>1, <2>3, ReadAndRespondStep
  <2>5. c.response # 100
    BY <1>4 DEF Steady, ExpectKept
  <2>6. c.response \in 200..299 /\ c.answers > 0
    BY <1>4, <2>5 DEF Steady, AnswerKept, Final
  <2>7. Whole(c)
    BY <1>1, <2>6 DEF Good, WorkIsWhole
  <2>8. GoesOn(c, x, z)
    BY <2>1, <2>2, <2>4, <2>6, <2>7 DEF GoesOn
  <2> QED
    BY <2>3, <2>4, <2>8 DEF Sent, ReadStep
<1> QED
  BY <1>2, <1>3, <1>4

\* What handleClientOut may do to a connection.
OutStep(c, x, z) ==
    /\ Settled(z)
    /\ HasWork(z)
    /\ \/ Cleared(c, z) /\ z.live = FALSE
       \/ Changes(c, z, {"out"}) /\ z.out = c.out - 1
       \/ /\ c.out = 1
          /\ \E d : /\ Changes(c, d, {"out"}) /\ d.out = 0 /\ Steady(d)
                    /\ Sent(d, x, z)

\* handleClientOut writes one buffer, and a failed write closes.
LEMMA HandleClientOutStep ==
    ASSUME NEW c, Settled(c), c.response # NoResponse, NEW x \in World
    PROVE  OutStep(c, x, HandleClientOut(c, x))
<1> DEFINE n == c.out - 1
           d == [c EXCEPT !.out = n]
           z == HandleClientOut(c, x)
<1> SUFFICES OutStep(c, x, z)
  OBVIOUS
<1>1. c \in ClientType /\ Steady(c) /\ c.out \in Nat /\ c.out > 0
  BY DEF Settled, Steady, Good, ClientType, Queued
<1>2. n \in Nat
  BY <1>1
<1>3. z = IF x.writeError THEN Terminate(c)
          ELSE IF d.out = 0 THEN HandleSent(d, x) ELSE d
  <2>1. c.out # 0
    BY <1>1
  <2> QED
    BY <2>1 DEF HandleClientOut
<1> HIDE DEF n, z
<1>4. d \in ClientType /\ Changes(c, d, {"out"}) /\ d.out = n
  BY <1>1, <1>2 DEF ClientType, Changes, Fields
<1> HIDE DEF d
<1>5. /\ d.response = c.response /\ d.kind = c.kind /\ d.mode = c.mode
      /\ d.headerStatus = c.headerStatus /\ d.bodyStatus = c.bodyStatus
      /\ d.pos = c.pos /\ d.parser = c.parser /\ d.cgiRedir = c.cgiRedir
      /\ d.cgi = c.cgi /\ d.answers = c.answers
  BY <1>4 DEF Changes, Fields
<1>6. /\ d.unlink = c.unlink /\ d.status = c.status /\ d.path = c.path
      /\ d.close = c.close /\ d.expect = c.expect
      /\ d.tmpBody = c.tmpBody /\ d.bodyFile = c.bodyFile
  BY <1>4 DEF Changes, Fields
<1>7. Good(d)
  BY <1>1, <1>4, <1>5 DEF Steady, Good, ResponseMatchesMode,
                          ParserMatchesStatus, WorkIsWhole, Whole
<1>8. Steady(d)
  BY <1>1, <1>5, <1>6, <1>7 DEF Steady, BodyOwned, AnswerKept, ExpectKept,
                                LineKept, Final
<1>9. SuccessEnds(d) /\ LineAnswered(d)
  BY <1>5, <1>6 DEF Settled, SuccessEnds, LineAnswered
<1>10. CASE x.writeError
  <2>1. Cleared(c, z) /\ z.live = FALSE
    BY <1>1, <1>3, <1>10, TerminateStep
  <2> QED
    BY <2>1 DEF OutStep, Cleared, HasWork
<1>11. CASE ~x.writeError /\ d.out = 0
  <2>1. z = HandleSent(d, x)
    BY <1>3, <1>11
  <2>2. Sent(d, x, z)
    BY <1>5, <1>8, <1>9, <1>11, <2>1, HandleSentStep
  <2>3. c.out = 1
    BY <1>1, <1>4, <1>11 DEF n
  <2> QED
    BY <1>4, <1>8, <1>11, <2>2, <2>3 DEF OutStep, Sent
<1>12. CASE ~x.writeError /\ d.out # 0
  <2>1. z = d
    BY <1>3, <1>12
  <2>2. Queued(d)
    BY <1>2, <1>4, <1>12 DEF Queued
  <2>3. HasWork(d)
    BY <1>5 DEF HasWork
  <2> QED
    BY <1>4, <1>8, <1>9, <2>1, <2>2, <2>3 DEF OutStep, Settled, n
<1> QED
  BY <1>10, <1>11, <1>12

-----------------------------------------------------------------------------
(***************************************************************************)
(* The events.                                                             *)
(***************************************************************************)
\* What the EPOLLOUT branch of handleClientEvent may do to a connection.
Wrote(c, x, z) ==
    /\ Settled(z)
    /\ \E d : /\ \/ c.cgi # "none" /\ CgiStep(c, x, d)
                 \/ c.cgi = "none" /\ d = c
              /\ \/ d.response # NoResponse /\ OutStep(d, x, z)
                 \/ d.response = NoResponse /\ z = d

\* One EPOLLOUT: the script first, then one buffer of the response.
LEMMA WriteEventStep ==
    ASSUME NEW c, Settled(c), NEW x \in World
    PROVE  Wrote(c, x, WriteEvent(c, x))
<1> DEFINE d == IF c.cgi # "none" THEN HandleCGIProcess(c, x) ELSE c
           z == WriteEvent(c, x)
<1> SUFFICES Wrote(c, x, z)
  OBVIOUS
<1>1. \/ c.cgi # "none" /\ CgiStep(c, x, d)
      \/ c.cgi = "none" /\ d = c
  BY HandleCGIProcessStep
<1>2. z = IF d.response # NoResponse THEN HandleClientOut(d, x) ELSE d
  BY DEF WriteEvent
<1> HIDE DEF d, z
<1>3. Settled(d)
  BY <1>1 DEF CgiStep
<1>4. CASE d.response # NoResponse
  <2>1. OutStep(d, x, z)
    BY <1>2, <1>3, <1>4, HandleClientOutStep
  <2> QED
    BY <1>1, <1>4, <2>1 DEF Wrote, OutStep
<1>5. CASE d.response = NoResponse
  BY <1>1, <1>2, <1>3, <1>5 DEF Wrote
<1> QED
  BY <1>4, <1>5

\* What a timeout may do to a connection that has a request.
TimedOut(c, z) ==
    /\ Settled(z)
    /\ c.mode = "READ"
    /\ Changes(c, z, ResponseFields \union {"error"})
    /\ z.response \in {408, 500} /\ z.status = z.response
    /\ z.mode = "WRITE"

\* Client::checkTO answers 408, or 500 when the error page is missing.
LEMMA TimeOutStep ==
    ASSUME NEW c, Settled(c), c.mode = "READ", NEW x \in World
    PROVE  TimedOut(c, GenerateResponse(
                         FillError([c EXCEPT !.mode = "WRITE"], 408), 408, x))
<1> DEFINE t == 408
           b == [c EXCEPT !.mode = "WRITE"]
           d == FillError(b, t)
           z == GenerateResponse(d, t, x)
<1>t. t \in Nat /\ t # 0 /\ t # 100 /\ ~(t \in 200..299) /\ t = 408
  OBVIOUS
<1> SUFFICES TimedOut(c, z)
  OBVIOUS
<1> HIDE DEF t
<1>1. c \in ClientType /\ Good(c) /\ Steady(c)
  BY DEF Settled, Steady, Good
<1>2. c.response = NoResponse
  BY <1>1 DEF Good, ResponseMatchesMode
<1>3. b \in ClientType /\ Changes(c, b, {"mode"}) /\ b.mode = "WRITE"
  BY <1>1 DEF ClientType, Modes, Changes, Fields
<1> HIDE DEF b
<1>4. d \in ClientType /\ Changes(b, d, {"status", "error"}) /\ d.status = t
  BY <1>3, <1>t, FillErrorFrame
<1> HIDE DEF d
<1>5. Changes(c, d, {"mode", "status", "error"}) /\ d.mode = "WRITE"
  BY <1>3, <1>4 DEF Changes, Fields
<1>6. /\ d.response = c.response /\ d.kind = c.kind /\ d.out = c.out
      /\ d.headerStatus = c.headerStatus /\ d.bodyStatus = c.bodyStatus
      /\ d.pos = c.pos /\ d.parser = c.parser /\ d.cgiRedir = c.cgiRedir
      /\ d.cgi = c.cgi /\ d.answers = c.answers
  BY <1>5 DEF Changes, Fields
<1>7. /\ d.unlink = c.unlink /\ d.path = c.path
      /\ d.close = c.close /\ d.expect = c.expect
      /\ d.tmpBody = c.tmpBody /\ d.bodyFile = c.bodyFile
  BY <1>5 DEF Changes, Fields
<1>8. Good(d)
  BY <1>1, <1>4, <1>5, <1>6 DEF Good, ResponseMatchesMode,
                                ParserMatchesStatus, WorkIsWhole, Whole
<1>9. Steady(d)
  <2>1. ~Final(c)
    BY <1>2 DEF Final
  <2> QED
    BY <1>1, <1>2, <1>4, <1>6, <1>7, <1>8, <1>t, <2>1
       DEF Steady, BodyOwned, AnswerKept, ExpectKept, LineKept, Final
<1>10. Queued(d) /\ d.response = NoResponse
  BY <1>2, <1>6 DEF Queued
<1>11. (IF t # 0 THEN t ELSE d.status) = t
  BY <1>t
<1>12. /\ Steady(z) /\ Queued(z)
       /\ Changes(d, z, ResponseFields)
       /\ z.response # NoResponse
       /\ Answered(d, z, t, x)
  BY <1>t, <1>9, <1>10, <1>11, GenerateResponseStep
<1> HIDE DEF z
<1>13. z.response \in {408, 500} /\ z.mode = "WRITE" /\ z.status = z.response
  BY <1>12, <1>t DEF Answered
<1>14. Changes(c, z, ResponseFields \union {"error"})
  BY <1>5, <1>12 DEF Changes, Fields, ResponseFields
<1>15. SuccessEnds(z) /\ LineAnswered(z)
  BY <1>12, <1>13 DEF SuccessEnds, LineAnswered
<1> QED
  BY <1>12, <1>13, <1>14, <1>15 DEF TimedOut, Settled

\* What the end of the script changes.
Exited(c, z) ==
    /\ Settled(z)
    /\ c.cgi = "running"
    /\ Changes(c, z, {"cgi"})
    /\ z.cgi \in CgiOutputs \union {"failed"}

\* The end of the child changes nothing but what the next event will find.
LEMMA ChildExitsStep ==
    ASSUME NEW c, Settled(c), c.cgi = "running",
           NEW o \in CgiOutputs \union {"failed"}
    PROVE  Exited(c, [c EXCEPT !.cgi = o])
<1> DEFINE d == [c EXCEPT !.cgi = o]
<1>1. c \in ClientType /\ Good(c) /\ Steady(c) /\ o \in Children
  BY OutputsAssumption DEF Settled, Steady, Good, Children
<1>2. d \in ClientType /\ Changes(c, d, {"cgi"}) /\ d.cgi = o
  BY <1>1 DEF ClientType, Changes, Fields
<1> HIDE DEF d
<1>3. /\ d.response = c.response /\ d.kind = c.kind /\ d.out = c.out
      /\ d.headerStatus = c.headerStatus /\ d.bodyStatus = c.bodyStatus
      /\ d.pos = c.pos /\ d.parser = c.parser /\ d.cgiRedir = c.cgiRedir
      /\ d.answers = c.answers /\ d.mode = c.mode
  BY <1>2 DEF Changes, Fields
<1>4. /\ d.unlink = c.unlink /\ d.status = c.status /\ d.path = c.path
      /\ d.close = c.close /\ d.expect = c.expect
      /\ d.tmpBody = c.tmpBody /\ d.bodyFile = c.bodyFile
  BY <1>2 DEF Changes, Fields
<1>5. Whole(c) /\ c.response \notin 200..299
  BY <1>1 DEF Good, WorkIsWhole, Settled, SuccessEnds
<1>6. Good(d)
  BY <1>1, <1>2, <1>3, <1>5 DEF Good, ResponseMatchesMode,
                                ParserMatchesStatus, WorkIsWhole, Whole
<1>7. Steady(d)
  BY <1>1, <1>3, <1>4, <1>6 DEF Steady, BodyOwned, AnswerKept, ExpectKept,
                                LineKept, Final
<1>8. SuccessEnds(d) /\ Queued(d) /\ LineAnswered(d)
  BY <1>3, <1>5 DEF Settled, SuccessEnds, Queued, LineAnswered
<1> QED
  BY <1>2, <1>7, <1>8 DEF Exited, Settled, d

\* One event, as far as the properties below look at it.
EventStep(c, z) ==
    \/ \E n \in Nat : ReadsInput(c) /\ ReadStep(c, n, z)
    \/ Cleared(c, z) /\ z.live = FALSE
    \/ \E x \in World : c.mode = "WRITE" /\ Wrote(c, x, z)
    \/ TimedOut(c, z)
    \/ Exited(c, z)

\* The invariant: the connection is settled between two events, and its
\* child has printed nothing but what a script may print.
StepInv ==
    /\ Settled(client)
    /\ client.cgi \in {"none", "running", "failed"} \union CgiOutputs

\* A new connection is settled.
LEMMA InitSettled == Init => StepInv /\ HasWork(client)
<1> SUFFICES ASSUME Init PROVE StepInv /\ HasWork(client)
  OBVIOUS
<1>1. Good(client) /\ client = NewClient
  BY InitGood DEF Init, ConnectionInv
<1>2. /\ client.tmpBody = FALSE /\ client.bodyFile = "none"
      /\ client.response = NoResponse /\ client.cgi = "none"
      /\ client.expect = FALSE /\ client.bodyStatus = "NONE"
      /\ client.status = 0 /\ client.headerStatus = "ONGOING"
      /\ client.parser = "NEW" /\ client.mode = "READ"
  BY <1>1 DEF NewClient
<1>3. BodyOwned(client) /\ AnswerKept(client) /\ LineKept(client)
  BY <1>2 DEF BodyOwned, AnswerKept, LineKept, Final
<1>4. ExpectKept(client)
  BY <1>2 DEF ExpectKept, NoResponse
<1>5. Queued(client) /\ SuccessEnds(client) /\ LineAnswered(client)
      /\ HasWork(client)
  BY <1>2 DEF Queued, SuccessEnds, LineAnswered, NoResponse, HasWork
<1> QED
  BY <1>1, <1>2, <1>3, <1>4, <1>5 DEF StepInv, Settled, Steady

\* Every action is an event in the sense of EventStep.
LEMMA NextIsEvent ==
    ASSUME StepInv, Next
    PROVE  EventStep(client, client')
<1>1. Settled(client) /\ Steady(client)
  BY DEF StepInv, Settled
<1>2. CASE EpollIn
  <2>1. PICK n \in 1..(MaxUnits - received) :
          \E x \in InWorld(client, n) : client' = ReadAndRespond(client, n, x)
    BY <1>2 DEF EpollIn
  <2>2. PICK x \in InWorld(client, n) : client' = ReadAndRespond(client, n, x)
    BY <2>1
  <2>3. n \in Nat /\ ReadsInput(client) /\ x \in World
    BY <1>2, <2>1, InWorldType DEF EpollIn
  <2>4. ReadStep(client, n, client')
    BY <1>1, <2>2, <2>3, ReadAndRespondStep
  <2> QED
    BY <2>3, <2>4 DEF EventStep
<1>3. CASE PeerCloses \/ EpollHup
  BY <1>1, <1>3, TerminateStep DEF PeerCloses, EpollHup, EventStep
<1>4. CASE EpollOut
  <2>1. PICK x \in OutWorld(client) : client' = WriteEvent(client, x)
    BY <1>4 DEF EpollOut
  <2>2. x \in World
    BY OutWorldType
  <2>3. Wrote(client, x, client')
    BY <1>1, <2>1, <2>2, WriteEventStep
  <2> QED
    BY <1>4, <2>2, <2>3 DEF EventStep, EpollOut
<1>5. CASE CheckTO
  <2>1. CASE ~client.request
    BY <1>1, <1>5, <2>1, TerminateStep DEF CheckTO, EventStep
  <2>2. CASE client.request
    <3>1. PICK x \in InWorld(client, 0) :
             client' = GenerateResponse(
                         FillError([client EXCEPT !.mode = "WRITE"], 408), 408, x)
      BY <1>5, <2>2 DEF CheckTO
    <3>2. x \in World
      BY InWorldType
    <3>3. client.mode = "READ"
      BY <1>5 DEF CheckTO
    <3>4. TimedOut(client, client')
      BY <1>1, <3>1, <3>2, <3>3, TimeOutStep
    <3> QED
      BY <3>4 DEF EventStep
  <2> QED
    BY <2>1, <2>2
<1>6. CASE ChildExits
  BY <1>1, <1>6, ChildExitsStep DEF ChildExits, EventStep
<1> QED
  BY <1>2, <1>3, <1>4, <1>5, <1>6 DEF Next

\* Every event leaves the connection settled.
LEMMA EventSettles ==
    ASSUME NEW c, NEW z, EventStep(c, z)
    PROVE  Settled(z)
BY DEF EventStep, ReadStep, Cleared, Wrote, TimedOut, Exited

\* Where the child comes from, and that work is never lost but with a
\* malformed output.
LEMMA EventWork ==
    ASSUME NEW c, NEW z, EventStep(c, z)
    PROVE  /\ z.cgi \in {c.cgi, "none", "running", "failed"} \union CgiOutputs
           /\ c.cgi # "malformed" /\ HasWork(c) => HasWork(z)
<1>1. CASE \E n \in Nat : ReadsInput(c) /\ ReadStep(c, n, z)
  BY <1>1 DEF ReadStep
<1>2. CASE Cleared(c, z) /\ z.live = FALSE
  BY <1>2 DEF Cleared, HasWork
<1>3. CASE \E x \in World : c.mode = "WRITE" /\ Wrote(c, x, z)
  <2>1. PICK x \in World : Wrote(c, x, z)
    BY <1>3
  <2>2. PICK d : /\ \/ c.cgi # "none" /\ CgiStep(c, x, d)
                    \/ c.cgi = "none" /\ d = c
                 /\ \/ d.response # NoResponse /\ OutStep(d, x, z)
                    \/ d.response = NoResponse /\ z = d
    BY <2>1 DEF Wrote
  <2>3. d.cgi \in {c.cgi, "none", "running"}
        /\ (c.cgi # "malformed" /\ HasWork(c) => HasWork(d))
    BY <2>2 DEF CgiStep
  <2>4. CASE z = d
    BY <2>3, <2>4
  <2>5. CASE OutStep(d, x, z)
    <3>1. HasWork(z)
      BY <2>5 DEF OutStep
    <3>2. z.cgi \in {d.cgi, "none", "running"}
      <4>1. CASE Cleared(d, z)
        BY <4>1 DEF Cleared
      <4>2. CASE Changes(d, z, {"out"})
        BY <4>2 DEF Changes, Fields
      <4>3. CASE \E e : Changes(d, e, {"out"}) /\ Sent(e, x, z)
        <5>1. PICK e : Changes(d, e, {"out"}) /\ Sent(e, x, z)
          BY <4>3
        <5>2. e.cgi = d.cgi
          BY <5>1 DEF Changes, Fields
        <5>3. CASE Continued(e, z)
          BY <5>2, <5>3 DEF Continued, Changes, Fields
        <5>4. CASE Cleared(e, z)
          BY <5>4 DEF Cleared
        <5>5. CASE GoesOn(e, x, z)
          BY <5>5 DEF GoesOn, Cleared, ReadStep
        <5> QED
          BY <5>1, <5>3, <5>4, <5>5 DEF Sent
      <4> QED
        BY <2>5, <4>1, <4>2, <4>3 DEF OutStep
    <3> QED
      BY <2>3, <3>1, <3>2
  <2> QED
    BY <2>2, <2>4, <2>5
<1>4. CASE TimedOut(c, z)
  <2>1. z.cgi = c.cgi
    BY <1>4 DEF TimedOut, Changes, Fields, ResponseFields
  <2>2. z.response # NoResponse
    BY <1>4 DEF TimedOut, NoResponse
  <2> QED
    BY <2>1, <2>2 DEF HasWork
<1>5. CASE Exited(c, z)
  <2>1. z.cgi \in CgiOutputs \union {"failed"} /\ z.cgi # "none"
    BY <1>5, OutputsAssumption DEF Exited, OutputTypes
  <2> QED
    BY <2>1 DEF HasWork
<1> QED
  BY <1>1, <1>2, <1>3, <1>4, <1>5 DEF EventStep

\* StepInv is inductive.
LEMMA NextSettled == StepInv /\ [Next]_vars => StepInv'
<1> SUFFICES ASSUME StepInv, [Next]_vars PROVE StepInv'
  OBVIOUS
<1>1. CASE Next
  BY <1>1, NextIsEvent, EventSettles, EventWork DEF StepInv
<1>2. CASE UNCHANGED vars
  BY <1>2 DEF vars, StepInv
<1> QED
  BY <1>1, <1>2

\* Between two events every connection is settled, for any set of requests,
\* script outputs and redirections.
THEOREM StepInvariant == Spec => []StepInv
BY InitSettled, NextSettled, PTL DEF Spec

\* The temporary body file of a CGI request belongs to its stream until
\* deleteBodyStream removes both, however the request ends.
THEOREM TmpBodyOwnedAlways == Spec => []TmpBodyOwned
<1>1. StepInv => TmpBodyOwned
  BY DEF StepInv, Settled, Steady, BodyOwned, TmpBodyOwned
<1> QED
  BY <1>1, StepInvariant, PTL

\* Without malformed script output no connection is stuck in WRITE mode: it
\* has a response to send or a child to wait for.  (After a malformed output
\* it is, which the run malformed_output shows.)
THEOREM WriteHasWorkAlways ==
    ASSUME "malformed" \notin CgiOutputs
    PROVE  Spec => []WriteHasWork
<1>1. StepInv /\ HasWork(client) /\ [Next]_vars => HasWork(client)'
  <2> SUFFICES ASSUME StepInv, HasWork(client), [Next]_vars
               PROVE  HasWork(client')
    BY DEF HasWork
  <2>1. CASE Next
    <3>1. client.cgi # "malformed"
      BY DEF StepInv
    <3> QED
      BY <2>1, <3>1, NextIsEvent, EventWork
  <2>2. CASE UNCHANGED vars
    BY <2>2 DEF vars
  <2> QED
    BY <2>1, <2>2
<1>2. HasWork(client) => WriteHasWork
  BY DEF HasWork, WriteHasWork
<1>3. Init => HasWork(client)
  BY InitSettled
<1> QED
  BY <1>1, <1>2, <1>3, StepInvariant, PTL DEF Spec

\* An event starts the next request only where NextRequestAtBoundary allows.
LEMMA EventAtBoundary ==
    ASSUME NEW c, NEW z, Settled(c), EventStep(c, z), z.live, z.pos < c.pos
    PROVE  c.pos = Size(c.kind) /\ (c.answers > 0 \/ c.cgi # "none")
<1>1. Steady(c) /\ Good(c) /\ c \in ClientType /\ c.pos \in Nat /\ LineAnswered(c)
  BY DEF Settled, Steady, Good, ClientType
<1>2. z.pos \in Nat
  BY EventSettles DEF Settled, Steady, Good, ClientType
<1>3. CASE \E n \in Nat : ReadsInput(c) /\ ReadStep(c, n, z)
  <2>1. c.headerStatus = "ONGOING" /\ c.parser = "RLINE" /\ c.pos >= Size(c.kind)
    BY <1>3 DEF ReadStep
  <2>2. c.pos <= Size(c.kind)
    BY <1>1, <2>1 DEF Steady, LineKept
  <2>3. Size(c.kind) \in Nat
    BY <1>1 DEF ClientType, KindType, Size, HeaderUnits
  <2>4. c.response # NoResponse /\ c.response # 100
    BY <1>1, <2>1 DEF LineAnswered, Steady, ExpectKept
  <2>5. c.answers > 0
    BY <1>1, <2>4 DEF Steady, AnswerKept, Final
  <2> QED
    BY <1>1, <2>1, <2>2, <2>3, <2>5
<1>4. CASE Cleared(c, z) /\ z.live = FALSE
  BY <1>4
<1>5. CASE \E x \in World : c.mode = "WRITE" /\ Wrote(c, x, z)
  <2>1. PICK x \in World : Wrote(c, x, z)
    BY <1>5
  <2>2. CASE c.cgi # "none"
    BY <1>1, <2>2 DEF Good, WorkIsWhole, Whole
  <2>3. CASE c.cgi = "none"
    <3>1. \/ OutStep(c, x, z)
          \/ z = c
      BY <2>1, <2>3 DEF Wrote
    <3>2. OutStep(c, x, z)
      BY <1>2, <3>1
    <3>3. ~(Cleared(c, z) /\ z.live = FALSE)
      OBVIOUS
    <3>4. ~Changes(c, z, {"out"})
      BY <1>1, <1>2 DEF Changes, Fields
    <3>5. PICK e : Changes(c, e, {"out"}) /\ Sent(e, x, z)
      BY <3>2, <3>3, <3>4 DEF OutStep
    <3>6. /\ e.pos = c.pos /\ e.answers = c.answers /\ e.kind = c.kind
      BY <3>5 DEF Changes, Fields
    <3>7. ~Continued(e, z)
      BY <1>1, <1>2, <3>6 DEF Continued, Changes, Fields
    <3>8. GoesOn(e, x, z)
      BY <3>5, <3>7 DEF Sent
    <3> QED
      BY <3>6, <3>8 DEF GoesOn, Whole
  <2> QED
    BY <2>2, <2>3
<1>6. CASE TimedOut(c, z)
  BY <1>1, <1>2, <1>6 DEF TimedOut, Changes, Fields, ResponseFields
<1>7. CASE Exited(c, z)
  BY <1>1, <1>2, <1>7 DEF Exited, Changes, Fields
<1> QED
  BY <1>3, <1>4, <1>5, <1>6, <1>7 DEF EventStep

\* An event drops a 2xx response only with its last buffer.
LEMMA EventDelivers ==
    ASSUME NEW c, NEW z, Settled(c), EventStep(c, z), z.live,
           c.response \in 200..299, z.response # c.response
    PROVE  c.out <= 1
<1>1. Steady(c) /\ Good(c) /\ c \in ClientType /\ c.cgi = "none" /\ Whole(c)
      /\ c.response # NoResponse
  BY DEF Settled, Steady, Good, SuccessEnds, WorkIsWhole, NoResponse
<1>2. CASE \E n \in Nat : ReadsInput(c) /\ ReadStep(c, n, z)
  BY <1>1, <1>2 DEF ReadStep, Changes, Fields
<1>3. CASE Cleared(c, z) /\ z.live = FALSE
  BY <1>3
<1>4. CASE \E x \in World : c.mode = "WRITE" /\ Wrote(c, x, z)
  <2>1. PICK x \in World : Wrote(c, x, z)
    BY <1>4
  <2>2. OutStep(c, x, z)
    BY <1>1, <2>1 DEF Wrote
  <2>3. ~Changes(c, z, {"out"})
    BY DEF Changes, Fields
  <2> QED
    BY <2>2, <2>3 DEF OutStep
<1>5. CASE TimedOut(c, z)
  BY <1>1, <1>5 DEF TimedOut, Good, ResponseMatchesMode
<1>6. CASE Exited(c, z)
  BY <1>1, <1>6 DEF Exited
<1> QED
  BY <1>2, <1>3, <1>4, <1>5, <1>6 DEF EventStep

\* The parser starts the next request of a live connection only at the end of
\* the one before, which was answered or has its script: for every cut of the
\* stream, every pipelining and every timeout.
THEOREM NextRequestAtBoundaryAlways == Spec => NextRequestAtBoundary
<1>1. StepInv /\ [Next]_vars =>
        [client'.live /\ client'.pos < client.pos =>
           /\ client.pos = Size(client.kind)
           /\ client.answers > 0 \/ client.cgi # "none"]_vars
  <2> SUFFICES ASSUME StepInv, Next, client'.live, client'.pos < client.pos
               PROVE  /\ client.pos = Size(client.kind)
                      /\ client.answers > 0 \/ client.cgi # "none"
    OBVIOUS
  <2> QED
    BY NextIsEvent, EventAtBoundary DEF StepInv
<1> QED
  BY <1>1, StepInvariant, PTL DEF Spec, NextRequestAtBoundary

\* A 2xx response is neither taken back nor replaced before its last buffer
\* was handed to write().
THEOREM SuccessIsDeliveredAlways == Spec => SuccessIsDelivered
<1>1. StepInv /\ [Next]_vars =>
        [/\ client.response \in 200..299
         /\ client'.live
         /\ client'.response # client.response
         => client.out <= 1]_vars
  <2> SUFFICES ASSUME StepInv, Next, client.response \in 200..299,
                      client'.live, client'.response # client.response
               PROVE  client.out <= 1
    OBVIOUS
  <2> QED
    BY NextIsEvent, EventDelivers DEF StepInv
<1> QED
  BY <1>1, StepInvariant, PTL DEF Spec, SuccessIsDelivered

-----------------------------------------------------------------------------
(***************************************************************************)
(* What a connection owes a peer that sends no body before the 100 it asks *)
(* for, for every set of requests, script outputs and redirections.        *)
(*                                                                         *)
(* The theorems rest on one invariant, Ordered.  Its core is HeldBound: as *)
(* long as a 100 is owed, no more than the header has arrived.  Without it *)
(* the 100 of a request could still be in the queue when the request is    *)
(* whole and its script runs; sending it would put the connection back in  *)
(* READ mode, where checkTO answers 408 for a whole request and gives      *)
(* resHints.path another file, which ~CGIProcess then removes.  Ordered    *)
(* has a parameter S, the statuses that may be answered: each theorem      *)
(* chooses the S it needs.                                                 *)
(***************************************************************************)
\* No body arrives while the 100 the peer asked for is still to be sent: the
\* peer waits for it, or it never asks for one.
NoEarlyBody == Polite \/ \A k \in Kinds : ~k.expect

MayExpect == Polite /\ \E k \in Kinds : k.expect

\* The connection has a 100 to give, or will have at the blank line.
Held(c) ==
    \/ c.expect
    \/ c.headerStatus = "ONGOING" /\ c.parser = "ONGOING" /\ c.kind.expect

\* The peer holds the body back, n units from now included.
HeldBound(c, n) ==
    Held(c) => MayExpect /\ c.pos + c.buffer + n <= HeaderUnits

\* What a read of n units may bring.
Allowed(c, n, x) ==
    /\ HeldBound(c, n)
    /\ c.headerStatus = "ONGOING" /\ StartsRequest(c) /\ x.kind.expect =>
         MayExpect /\ c.buffer + n <= HeaderUnits

\* A body that is read is not all there, unless its refusal is pending.
BodyOpen(c) ==
    c.headerStatus = "DONE" /\ c.bodyStatus = "ONGOING" /\ ~Final(c) =>
        c.pos < Size(c.kind)

\* defineBodyParsing has set the status of an upload.
PutStatus(c) ==
    /\ c.headerStatus = "DONE" /\ c.bodyStatus = "ONGOING"
    /\ c.type = "static" /\ c.kind.method = "PUT"
    => c.status > 0

\* The path of a resource to delete is still the one checkRequest has set.
DeleteNamed(c) ==
    /\ c.headerStatus = "DONE" /\ c.bodyStatus = "ONGOING"
    /\ c.type = "static" /\ c.kind.method = "DELETE"
    => Named(c)

\* What parsing, up to handleClientIn, keeps of that, the statuses that are
\* not taken over from before being in S.
Kept(c, r, S) ==
    /\ HeldBound(r.c, 0)
    /\ PutStatus(r.c)
    /\ DeleteNamed(r.c)
    /\ r.c.foreign = c.foreign
    /\ r.c.kind.refuse \in S
    /\ \/ r.c.status \in S \union {0}
       \/ r.c.status = c.status /\ r.c.response = c.response
    /\ r.res > 0 => \/ r.res \in S
                    \/ r.res = c.status /\ r.c.response = c.response
    /\ r.res <= 0 => BodyOpen(r.c)
    /\ r.res > 0 => r.c.headerStatus # "DONE" \/ r.c.pos = Size(r.c.kind)

\* An upload whose body is complete has a status to answer with.
PutDone(r) ==
    /\ r.res = -1 /\ r.c.headerStatus = "DONE"
    /\ r.c.type = "static" /\ r.c.kind.method = "PUT"
    => r.c.status > 0

\* A resource is deleted by the path checkRequest has set.
DeleteDone(r) ==
    /\ r.res = -1 /\ r.c.headerStatus = "DONE"
    /\ r.c.type = "static" /\ r.c.kind.method = "DELETE"
    => Named(r.c)

\* The parser of a header keeps the bound of a polite peer.
LEMMA HeaderParsedKept ==
    ASSUME NEW c, Good(c), c.headerStatus = "ONGOING", c.expect = FALSE,
           NEW x \in World, NEW r, HeaderParsed(c, r, x), r.c \in ClientType,
           HeldBound(c, 0),
           StartsRequest(c) /\ x.kind.expect =>
             MayExpect /\ c.buffer <= HeaderUnits,
           NEW S, c.kind.refuse \in S, x.kind.refuse \in S, 501 \in S
    PROVE  /\ r.c.expect \/ (r.c.parser = "ONGOING" /\ r.c.kind.expect) =>
                MayExpect /\ r.c.pos + r.c.buffer <= HeaderUnits
           /\ r.c.kind.refuse \in S
           /\ r.c.status \in S \union {c.status}
           /\ r.res > 0 => r.res \in S
           /\ r.c.headerStatus = "ONGOING"
           /\ r.c.response = c.response
           /\ r.c.foreign = c.foreign
<1>1. c \in ClientType /\ c.pos \in Nat /\ c.buffer \in Nat
      /\ c.kind.expect \in BOOLEAN
  BY DEF Good, ClientType, KindType
<1>2. r.c.pos \in Nat /\ r.c.buffer \in Nat
  BY DEF ClientType
<1>3. CASE r.c = c /\ r.res = 0
  BY <1>1, <1>3 DEF HeldBound, Held
<1>4. CASE c.parser = "ONGOING" /\ FieldsParsed(c, r)
  <2>1. /\ r.c.kind = c.kind /\ r.c.headerStatus = c.headerStatus
        /\ r.c.response = c.response /\ r.c.foreign = c.foreign
    BY <1>4 DEF FieldsParsed, Changes, Fields
  <2>2. r.c.pos + r.c.buffer = c.pos + c.buffer
    BY <1>4 DEF FieldsParsed
  <2>3. r.c.expect \in {c.expect, c.kind.expect}
        /\ r.res \in {0, -1, c.kind.refuse}
        /\ r.c.status \in {c.status, c.kind.refuse}
    BY <1>4 DEF FieldsParsed
  <2>4. r.c.expect \/ (r.c.parser = "ONGOING" /\ r.c.kind.expect) =>
          MayExpect /\ c.pos + c.buffer <= HeaderUnits
    BY <1>1, <1>4, <2>1, <2>3 DEF HeldBound, Held
  <2> QED
    BY <2>1, <2>2, <2>3, <2>4
<1>5. CASE /\ c.parser = "RLINE"
           /\ Changes(c, r.c, {"pos", "buffer", "status", "error"})
           /\ r.c.pos = c.pos + 1 /\ r.c.buffer = c.buffer - 1
           /\ r.res = 501 /\ r.c.status = 501
  <2>1. /\ r.c.kind = c.kind /\ r.c.headerStatus = c.headerStatus
        /\ r.c.response = c.response /\ r.c.expect = c.expect
        /\ r.c.parser = c.parser /\ r.c.foreign = c.foreign
    BY <1>5 DEF Changes, Fields
  <2> QED
    BY <1>5, <2>1
<1>6. ASSUME NEW s \in ClientType, StartsRequest(c), Started(c, s, x.kind)
      PROVE  /\ s.pos + s.buffer = c.buffer /\ s.kind = x.kind
             /\ s.expect = FALSE /\ s.headerStatus = "ONGOING"
             /\ s.response = c.response /\ s.status = c.status
             /\ s.foreign = c.foreign
  BY <1>1, <1>6 DEF Started, Changes, Fields
<1>7. ASSUME NEW s \in ClientType, StartsRequest(c), Started(c, s, x.kind),
             s.parser = "ONGOING", FieldsParsed(s, r)
      PROVE  /\ r.c.expect \/ (r.c.parser = "ONGOING" /\ r.c.kind.expect) =>
                  MayExpect /\ r.c.pos + r.c.buffer <= HeaderUnits
             /\ r.c.kind.refuse \in S
             /\ r.c.status \in S \union {c.status}
             /\ r.res > 0 => r.res \in S
             /\ r.c.headerStatus = "ONGOING"
             /\ r.c.response = c.response
             /\ r.c.foreign = c.foreign
  <2>1. /\ r.c.kind = s.kind /\ r.c.headerStatus = s.headerStatus
        /\ r.c.response = s.response /\ r.c.foreign = s.foreign
    BY <1>7 DEF FieldsParsed, Changes, Fields
  <2>2. r.c.pos + r.c.buffer = s.pos + s.buffer
    BY <1>7 DEF FieldsParsed
  <2>3. r.c.expect \in {s.expect, s.kind.expect}
        /\ r.res \in {0, -1, s.kind.refuse}
        /\ r.c.status \in {s.status, s.kind.refuse}
    BY <1>7 DEF FieldsParsed
  <2>4. /\ s.pos + s.buffer = c.buffer /\ s.kind = x.kind
        /\ s.expect = FALSE /\ s.headerStatus = "ONGOING"
        /\ s.response = c.response /\ s.status = c.status
        /\ s.foreign = c.foreign
    BY <1>6, <1>7
  <2>5. r.c.expect \/ (r.c.parser = "ONGOING" /\ r.c.kind.expect) =>
          MayExpect /\ r.c.pos + r.c.buffer <= HeaderUnits
    <3>1. SUFFICES ASSUME r.c.expect \/ r.c.kind.expect
                   PROVE  MayExpect /\ r.c.pos + r.c.buffer <= HeaderUnits
      OBVIOUS
    <3>2. x.kind.expect
      <4>1. r.c.expect \in {FALSE, x.kind.expect} /\ r.c.kind = x.kind
        BY <2>1, <2>3, <2>4
      <4> QED
        BY <3>1, <4>1
    <3>3. MayExpect /\ c.buffer <= HeaderUnits
      BY <1>7, <3>2
    <3>4. r.c.pos + r.c.buffer = c.buffer
      BY <2>2, <2>4
    <3> QED
      BY <3>3, <3>4
  <2>6. /\ r.c.kind = x.kind /\ r.c.status \in {c.status, x.kind.refuse}
        /\ r.res \in {0, -1, x.kind.refuse}
    BY <2>1, <2>3, <2>4
  <2>7. /\ r.c.headerStatus = "ONGOING" /\ r.c.response = c.response
        /\ r.c.foreign = c.foreign
    BY <2>1, <2>4
  <2>8. r.res > 0 => r.res \in S
    BY <2>6
  <2> QED
    BY <2>5, <2>6, <2>7, <2>8
<1>8. ASSUME NEW s \in ClientType, StartsRequest(c), Started(c, s, x.kind),
             s.parser = "RLINE", Changes(s, r.c, {"status", "error"}),
             r.res = x.kind.refuse, r.c.status = r.res
      PROVE  /\ r.c.expect \/ (r.c.parser = "ONGOING" /\ r.c.kind.expect) =>
                  MayExpect /\ r.c.pos + r.c.buffer <= HeaderUnits
             /\ r.c.kind.refuse \in S
             /\ r.c.status \in S \union {c.status}
             /\ r.res > 0 => r.res \in S
             /\ r.c.headerStatus = "ONGOING"
             /\ r.c.response = c.response
             /\ r.c.foreign = c.foreign
  <2>1. /\ r.c.kind = s.kind /\ r.c.headerStatus = s.headerStatus
        /\ r.c.response = s.response /\ r.c.parser = "RLINE"
        /\ r.c.expect = s.expect /\ r.c.foreign = s.foreign
    BY <1>8 DEF Changes, Fields
  <2>2. /\ s.kind = x.kind /\ s.expect = FALSE /\ s.headerStatus = "ONGOING"
        /\ s.response = c.response /\ s.foreign = c.foreign
    BY <1>6, <1>8
  <2>3. ~r.c.expect /\ r.c.parser # "ONGOING" /\ r.c.kind = x.kind
    BY <2>1, <2>2
  <2>4. /\ r.c.headerStatus = "ONGOING" /\ r.c.response = c.response
        /\ r.c.foreign = c.foreign
    BY <2>1, <2>2
  <2> QED
    BY <1>8, <2>3, <2>4
<1> QED
  BY <1>3, <1>4, <1>5, <1>7, <1>8 DEF HeaderParsed

\* parseRequest keeps the bound of a polite peer.
LEMMA ParseRequestKept ==
    ASSUME NEW c, Steady(c), NEW n \in Nat, NEW x \in World, Allowed(c, n, x),
           PutStatus(c), DeleteNamed(c), BodyOpen(c),
           NEW S, c.kind.refuse \in S, x.kind.refuse \in S, 501 \in S
    PROVE  LET r == ParseRequest(c, n, x)
           IN Kept(c, r, S) /\ PutDone(r) /\ DeleteDone(r)
<1> DEFINE r == ParseRequest(c, n, x)
<1>1. Good(c) /\ c \in ClientType /\ c.pos \in Nat /\ c.buffer \in Nat
  BY DEF Steady, Good, ClientType
<1>2. PICK d \in ClientType :
        Received(c, d, n) /\ Good(d) /\ RequestParsed(d, r, x)
  BY <1>1, ParseRequestFrame
<1>3. ParseStep(c, n, r)
  BY ParseRequestStep
<1> SUFFICES Kept(c, r, S) /\ PutDone(r) /\ DeleteDone(r)
  OBVIOUS
<1> HIDE DEF r
<1>4. /\ d.headerStatus = c.headerStatus /\ d.bodyStatus = c.bodyStatus
      /\ d.kind = c.kind /\ d.pos = c.pos /\ d.parser = c.parser
      /\ d.expect = c.expect /\ d.status = c.status /\ d.type = c.type
      /\ d.response = c.response /\ d.buffer = c.buffer + n
      /\ d.path = c.path /\ d.foreign = c.foreign
  BY <1>2 DEF Received, Changes, Fields
<1>5. /\ d.pos \in Nat /\ d.buffer \in Nat
      /\ d.pos + d.buffer = c.pos + c.buffer + n
  BY <1>1, <1>4
<1>6. HeldBound(d, 0) /\ BodyOpen(d) /\ PutStatus(d) /\ DeleteNamed(d)
  <2>1. Held(d) = Held(c)
    BY <1>4 DEF Held
  <2>2. HeldBound(d, 0)
    BY <1>5, <2>1 DEF Allowed, HeldBound
  <2>3. BodyOpen(d) /\ PutStatus(d) /\ DeleteNamed(d)
    BY <1>4 DEF BodyOpen, PutStatus, DeleteNamed, Named, Final
  <2> QED
    BY <2>2, <2>3
<1>7. r.res >= 0 \/ r.res = -1
  BY <1>3 DEF ParseStep, Refusals
<1>8. ASSUME NEW e, e.c \in ClientType, d.headerStatus = "ONGOING",
             HeaderParsed(d, e, x)
      PROVE  /\ e.c.expect \/ (e.c.parser = "ONGOING" /\ e.c.kind.expect) =>
                  MayExpect /\ e.c.pos + e.c.buffer <= HeaderUnits
             /\ e.c.kind.refuse \in S
             /\ e.c.status \in S \union {d.status}
             /\ e.res > 0 => e.res \in S
             /\ e.c.headerStatus = "ONGOING"
             /\ e.c.response = d.response
             /\ e.c.foreign = d.foreign
  <2>1. d.expect = FALSE
    BY <1>1, <1>4, <1>8 DEF Steady, ExpectKept, ClientType
  <2>2. StartsRequest(d) /\ x.kind.expect => MayExpect /\ d.buffer <= HeaderUnits
    <3>1. StartsRequest(d) => StartsRequest(c)
      BY <1>4 DEF StartsRequest
    <3> QED
      BY <1>4, <1>8, <3>1 DEF Allowed
  <2>3. d.kind.refuse \in S
    BY <1>4
  <2> QED
    BY <1>2, <1>6, <1>8, <2>1, <2>2, <2>3, HeaderParsedKept
<1>9. CASE d.headerStatus = "ONGOING" /\ r.res >= 0 /\ HeaderParsed(d, r, x)
  <2>1. r.c \in ClientType
    BY <1>3 DEF ParseStep, Steady, Good
  <2>2. /\ r.c.expect \/ (r.c.parser = "ONGOING" /\ r.c.kind.expect) =>
             MayExpect /\ r.c.pos + r.c.buffer <= HeaderUnits
        /\ r.c.kind.refuse \in S
        /\ r.c.status \in S \union {d.status}
        /\ r.res > 0 => r.res \in S
        /\ r.c.headerStatus = "ONGOING"
        /\ r.c.response = d.response
        /\ r.c.foreign = d.foreign
    BY <1>8, <1>9, <2>1
  <2>3. r.c.pos \in Nat /\ r.c.buffer \in Nat
    BY <2>1 DEF ClientType
  <2>4. HeldBound(r.c, 0)
    BY <2>2, <2>3 DEF HeldBound, Held
  <2>5. /\ PutStatus(r.c) /\ BodyOpen(r.c) /\ PutDone(r)
        /\ DeleteNamed(r.c) /\ DeleteDone(r)
    BY <2>2 DEF PutStatus, BodyOpen, PutDone, DeleteNamed, DeleteDone
  <2> QED
    BY <1>4, <2>2, <2>4, <2>5 DEF Kept
<1>10. CASE /\ d.headerStatus = "ONGOING" /\ r.res = -1
            /\ \E e \in ClientType :
                 /\ HeaderParsed(d, [c |-> e, res |-> -1], x)
                 /\ r.c \in ClientType
                 /\ Changes(e, r.c, {"headerStatus"})
                 /\ r.c.headerStatus = "READY"
  <2>1. PICK e \in ClientType :
                 /\ HeaderParsed(d, [c |-> e, res |-> -1], x)
                 /\ r.c \in ClientType
                 /\ Changes(e, r.c, {"headerStatus"})
                 /\ r.c.headerStatus = "READY"
    BY <1>10
  <2> DEFINE q == [c |-> e, res |-> -1]
  <2>2. q.c = e /\ HeaderParsed(d, q, x)
    BY <2>1
  <2> HIDE DEF q
  <2>3. /\ e.expect \/ (e.parser = "ONGOING" /\ e.kind.expect) =>
             MayExpect /\ e.pos + e.buffer <= HeaderUnits
        /\ e.kind.refuse \in S
        /\ e.status \in S \union {d.status}
        /\ e.response = d.response /\ e.foreign = d.foreign
    BY <1>8, <1>10, <2>2
  <2>4. /\ r.c.expect = e.expect /\ r.c.pos = e.pos /\ r.c.buffer = e.buffer
        /\ r.c.kind = e.kind /\ r.c.status = e.status
        /\ r.c.response = e.response /\ r.c.foreign = e.foreign
    BY <2>1 DEF Changes, Fields
  <2>5. r.c.pos \in Nat /\ r.c.buffer \in Nat
    BY <2>1 DEF ClientType
  <2>6. HeldBound(r.c, 0)
    BY <2>1, <2>3, <2>4, <2>5 DEF HeldBound, Held
  <2>7. /\ PutStatus(r.c) /\ BodyOpen(r.c) /\ PutDone(r)
        /\ DeleteNamed(r.c) /\ DeleteDone(r)
    BY <2>1 DEF PutStatus, BodyOpen, PutDone, DeleteNamed, DeleteDone
  <2> QED
    BY <1>4, <1>10, <2>3, <2>4, <2>6, <2>7 DEF Kept
<1>11. ASSUME NEW e, d.headerStatus = "DONE", d.bodyStatus = "ONGOING",
              BodyParsed(d, e)
       PROVE  /\ e.c.headerStatus = "DONE" /\ e.c.bodyStatus = "ONGOING"
              /\ e.c.kind = d.kind /\ e.c.response = d.response
              /\ e.c.type = d.type /\ e.c.expect = d.expect
              /\ e.c.path = d.path /\ e.c.foreign = d.foreign
              /\ e.c.pos \in Nat /\ e.c.buffer \in Nat
              /\ e.c.pos + e.c.buffer = d.pos + d.buffer
              /\ e.c.status \in {d.status, d.kind.refuse}
              /\ e.c.kind.refuse > 0
              /\ e.res <= 0 => e.c.status = d.status
              /\ e.res > 0 => e.res = d.kind.refuse /\ e.c.pos = Size(d.kind)
              /\ e.res = 0 => e.c.pos = d.pos \/ e.c.pos < Size(d.kind)
  <2>1. /\ e.c \in ClientType
        /\ Changes(d, e.c, {"pos", "buffer", "error", "status"})
    BY <1>11 DEF BodyParsed
  <2>2. d.kind.refuse \in Refusals
    BY <1>2 DEF ClientType, KindType
  <2>3. d.kind.refuse \in Nat /\ d.kind.refuse > 0
    BY <2>2 DEF Refusals
  <2>4. /\ e.c.headerStatus = "DONE" /\ e.c.bodyStatus = "ONGOING"
        /\ e.c.kind = d.kind /\ e.c.response = d.response
        /\ e.c.type = d.type /\ e.c.expect = d.expect
        /\ e.c.path = d.path /\ e.c.foreign = d.foreign
    BY <1>11, <2>1 DEF Changes, Fields
  <2>5. e.c.pos \in Nat /\ e.c.buffer \in Nat
    BY <2>1 DEF ClientType
  <2>6. /\ e.c.pos + e.c.buffer = d.pos + d.buffer
        /\ e.c.status \in {d.status, d.kind.refuse}
        /\ e.res <= 0 => e.c.status = d.status
        /\ e.res > 0 => e.res = d.kind.refuse /\ e.c.pos = Size(d.kind)
        /\ e.res = 0 => e.c.pos = d.pos \/ e.c.pos < Size(d.kind)
    BY <1>11, <2>3 DEF BodyParsed
  <2> QED
    BY <2>3, <2>4, <2>5, <2>6
<1>12. CASE /\ d.headerStatus = "DONE" /\ d.bodyStatus = "ONGOING"
            /\ r.res >= 0 /\ BodyParsed(d, r)
  <2>1. /\ r.c.headerStatus = "DONE" /\ r.c.bodyStatus = "ONGOING"
        /\ r.c.kind = d.kind /\ r.c.response = d.response
        /\ r.c.type = d.type /\ r.c.expect = d.expect
        /\ r.c.path = d.path /\ r.c.foreign = d.foreign
        /\ r.c.pos \in Nat /\ r.c.buffer \in Nat
        /\ r.c.pos + r.c.buffer = d.pos + d.buffer
        /\ r.c.status \in {d.status, d.kind.refuse}
        /\ r.c.kind.refuse > 0
        /\ r.res <= 0 => r.c.status = d.status
        /\ r.res > 0 => r.res = d.kind.refuse /\ r.c.pos = Size(d.kind)
        /\ r.res = 0 => r.c.pos = d.pos \/ r.c.pos < Size(d.kind)
    BY <1>11, <1>12
  <2>2. HeldBound(r.c, 0)
    <3>1. Held(r.c) => Held(d)
      BY <2>1 DEF Held
    <3> QED
      BY <1>5, <1>6, <2>1, <3>1 DEF HeldBound
  <2>3. PutStatus(r.c) /\ DeleteNamed(r.c)
    BY <1>6, <1>12, <2>1 DEF PutStatus, DeleteNamed, Named
  <2>4. r.res <= 0 => BodyOpen(r.c)
    <3>1. r.res <= 0 => r.res = 0
      BY <1>3, <1>12 DEF ParseStep, Refusals
    <3>2. r.res = 0 /\ d.pos < Size(d.kind) => r.c.pos < Size(r.c.kind)
      BY <2>1
    <3>3. Final(r.c) = Final(d)
      BY <2>1 DEF Final
    <3> QED
      BY <1>6, <1>12, <3>1, <3>2, <3>3 DEF BodyOpen
  <2>5. PutDone(r) /\ DeleteDone(r)
    BY <1>12 DEF PutDone, DeleteDone
  <2>6. /\ r.c.kind.refuse \in S /\ r.c.foreign = c.foreign
        /\ \/ r.c.status \in S \union {0}
           \/ r.c.status = c.status /\ r.c.response = c.response
        /\ r.res > 0 => r.res \in S /\ r.c.pos = Size(r.c.kind)
    BY <1>4, <2>1
  <2> QED
    BY <2>2, <2>3, <2>4, <2>5, <2>6 DEF Kept
<1>13. CASE /\ d.headerStatus = "DONE" /\ d.bodyStatus = "ONGOING"
            /\ r.res = -1
            /\ \E e \in ClientType :
                 /\ BodyParsed(d, [c |-> e, res |-> -1])
                 /\ r.c \in ClientType
                 /\ Changes(e, r.c, {"bodyStatus"}) /\ r.c.bodyStatus = "DONE"
  <2>1. PICK e \in ClientType :
                 /\ BodyParsed(d, [c |-> e, res |-> -1])
                 /\ r.c \in ClientType
                 /\ Changes(e, r.c, {"bodyStatus"}) /\ r.c.bodyStatus = "DONE"
    BY <1>13
  <2> DEFINE q == [c |-> e, res |-> -1]
  <2>2. q.c = e /\ q.res = -1 /\ BodyParsed(d, q)
    BY <2>1
  <2> HIDE DEF q
  <2>3. /\ e.headerStatus = "DONE"
        /\ e.kind = d.kind /\ e.response = d.response
        /\ e.type = d.type /\ e.expect = d.expect
        /\ e.path = d.path /\ e.foreign = d.foreign
        /\ e.pos \in Nat /\ e.buffer \in Nat
        /\ e.pos + e.buffer = d.pos + d.buffer
        /\ e.status = d.status
    BY <1>11, <1>13, <2>2
  <2>4. /\ r.c.expect = e.expect /\ r.c.pos = e.pos /\ r.c.buffer = e.buffer
        /\ r.c.kind = e.kind /\ r.c.status = e.status /\ r.c.type = e.type
        /\ r.c.response = e.response /\ r.c.headerStatus = e.headerStatus
        /\ r.c.path = e.path /\ r.c.foreign = e.foreign
    BY <2>1 DEF Changes, Fields
  <2>5. HeldBound(r.c, 0)
    <3>1. Held(r.c) => Held(d)
      BY <2>3, <2>4 DEF Held
    <3> QED
      BY <1>5, <1>6, <2>3, <2>4, <3>1 DEF HeldBound
  <2>6. PutStatus(r.c) /\ BodyOpen(r.c) /\ DeleteNamed(r.c)
    BY <2>1 DEF PutStatus, BodyOpen, DeleteNamed
  <2>7. PutDone(r) /\ DeleteDone(r)
    BY <1>6, <1>13, <2>3, <2>4 DEF PutDone, PutStatus, DeleteDone, DeleteNamed, Named
  <2>8. r.c.status = c.status /\ r.c.response = c.response
        /\ r.c.kind.refuse \in S /\ r.c.foreign = c.foreign
    BY <1>4, <2>3, <2>4
  <2> QED
    BY <1>13, <2>5, <2>6, <2>7, <2>8 DEF Kept
<1>14. CASE r.c = d /\ r.res = 0
  BY <1>4, <1>6, <1>14 DEF Kept, PutDone, DeleteDone
<1> QED
  BY <1>2, <1>9, <1>10, <1>12, <1>13, <1>14 DEF RequestParsed

\* The statuses the server makes itself.
OwnStatuses == {200, 201, 204, 302, 400, 403, 500, 501, 503}

\* The end of handleClientIn always has a status for a whole request.
LEMMA BodyDoneKept ==
    ASSUME NEW c, NEW q, NEW S, Kept(c, q, S), PutDone(q), Steady(q.c),
           q.c.headerStatus = "DONE", q.res \in {-1, 0} \union Refusals,
           q.res = 0 /\ q.c.bodyStatus # "ONGOING" => q.c.kind.body = 0,
           /\ q.c.type = "static" /\ q.c.kind.method = "DELETE"
           /\ q.res <= 0 /\ q.c.bodyStatus # "ONGOING"
           => Named(q.c),
           OwnStatuses \subseteq S
    PROVE  LET z == BodyDoneIfComplete(q)
           IN Kept(c, z, S) /\ (z.res <= 0 => ~Whole(z.c))
<1> DEFINE z == BodyDoneIfComplete(q)
<1>1. DoneStep(q, z)
  BY BodyDoneIfCompleteStep
<1> SUFFICES Kept(c, z, S) /\ (z.res <= 0 => ~Whole(z.c))
  OBVIOUS
<1> HIDE DEF z
<1>2. CASE q.res <= 0 /\ q.c.bodyStatus # "ONGOING"
  <2>1. BodyDone(q.c, z) /\ Changes(q.c, z.c, {"path", "foreign"})
    BY <1>1, <1>2 DEF DoneStep
  <2>2. /\ z.c.headerStatus = q.c.headerStatus
        /\ z.c.bodyStatus = q.c.bodyStatus /\ z.c.kind = q.c.kind
        /\ z.c.pos = q.c.pos /\ z.c.buffer = q.c.buffer
        /\ z.c.expect = q.c.expect /\ z.c.parser = q.c.parser
        /\ z.c.type = q.c.type /\ z.c.status = q.c.status
        /\ z.c.response = q.c.response
    BY <2>1 DEF Changes, Fields
  <2>3. /\ \/ q.c.status \in S \union {0}
           \/ q.c.status = c.status /\ q.c.response = c.response
        /\ q.c.kind.refuse \in S /\ q.c.foreign = c.foreign
    BY DEF Kept
  <2>8. z.c.foreign = q.c.foreign
    BY <1>2, <2>1 DEF BodyDone
  <2>9. DeleteNamed(z.c)
    BY <1>2, <2>2 DEF DeleteNamed
  <2>4. /\ z.res > 0
        /\ z.res \in S \/ (z.res = c.status /\ z.c.response = c.response)
    <3>1. CASE z.res \in {200, 204}
      BY <3>1 DEF OwnStatuses
    <3>2. CASE /\ z.res = q.c.status /\ q.c.type = "static"
               /\ q.c.kind.method = "PUT" /\ q.c.kind.body > 0
      <4>1. q.res = -1
        <5>1. q.res # 0
          BY <1>2, <3>2
        <5>2. \A m \in Refusals : ~(m <= 0)
          BY DEF Refusals
        <5> QED
          BY <1>2, <5>1, <5>2
      <4>2. q.c.status > 0
        BY <3>2, <4>1 DEF PutDone
      <4>3. q.c.status # 0
        BY <4>2
      <4> QED
        BY <2>2, <2>3, <3>2, <4>2, <4>3
    <3> QED
      BY <2>1, <3>1, <3>2 DEF BodyDone
  <2>5. z.c.pos = Size(z.c.kind)
    <3>1. Whole(q.c)
      BY <1>2 DEF Steady, Good, ParserMatchesStatus
    <3> QED
      BY <2>2, <3>1 DEF Whole
  <2>6. ~(z.res <= 0)
    <3>1. z.res \in Int
      BY <1>1 DEF DoneStep
    <3> QED
      BY <2>4, <3>1
  <2>7. HeldBound(z.c, 0) /\ PutStatus(z.c)
    <3>1. HeldBound(q.c, 0) /\ PutStatus(q.c)
      BY DEF Kept
    <3> QED
      BY <2>2, <3>1 DEF HeldBound, Held, PutStatus
  <2> QED
    BY <2>2, <2>3, <2>4, <2>5, <2>6, <2>7, <2>8, <2>9 DEF Kept
<1>3. CASE ~(q.res <= 0 /\ q.c.bodyStatus # "ONGOING")
  <2>1. z = q
    BY <1>1, <1>3 DEF DoneStep
  <2> QED
    BY <1>3, <2>1 DEF Whole
<1> QED
  BY <1>2, <1>3

\* handleClientIn at the blank line keeps the bound of a polite peer, and
\* leaves no whole request without a status.
LEMMA HandleHeadersReadyKept ==
    ASSUME NEW c, Steady(c), c.headerStatus = "READY", HeldBound(c, 0),
           NEW x \in World,
           NEW S, c.kind.refuse \in S, x.kind.refuse \in S,
           OwnStatuses \subseteq S
    PROVE  LET z == HandleHeadersReady(c, x)
           IN Kept(c, z, S) /\ (z.res <= 0 => ~Whole(z.c))
<1> DEFINE d == [c EXCEPT !.bodyStatus = "NONE"]
           r == HandleRequestHeaders(d)
           q == IF r.c.bodyStatus # "NONE" THEN ParseRequest(r.c, 0, x) ELSE r
           z == HandleHeadersReady(c, x)
<1>1. Good(c) /\ c \in ClientType /\ c.pos \in Nat
  BY DEF Steady, Good, ClientType
<1>2. d \in ClientType
  BY <1>1 DEF ClientType, BodyStatuses
<1>3. Changes(c, d, {"bodyStatus"}) /\ d.bodyStatus = "NONE"
  BY <1>1 DEF ClientType, Changes, Fields
<1>4. z = IF r.res # 0 THEN r ELSE BodyDoneIfComplete(q)
  BY DEF HandleHeadersReady
<1> SUFFICES Kept(c, z, S) /\ (z.res <= 0 => ~Whole(z.c))
  OBVIOUS
<1> HIDE DEF d, z
<1>5. Steady(d) /\ MayBeChecked(d)
  BY <1>1, <1>2, <1>3, ReadyForCheck
<1>6. Steady(r.c) /\ HeaderChecked(d, r)
  BY <1>2, <1>5, HandleRequestHeadersSteady, HandleRequestHeadersFrame
<1>7. r.res \in {0} \union Refusals /\ (r.res = 0 => r.c.headerStatus = "DONE")
  <2>1. HeadersMayBeChecked(d)
    BY <1>5 DEF HeadersMayBeChecked, MayBeChecked
  <2> QED
    BY <1>5, <2>1, HandleRequestHeadersGood DEF Steady
<1> HIDE DEF r
<1>8. /\ d.pos = c.pos /\ d.buffer = c.buffer /\ d.kind = c.kind
      /\ d.expect = c.expect /\ d.response = c.response
      /\ d.headerStatus = "READY" /\ d.cgiRedir = c.cgiRedir
      /\ d.foreign = c.foreign
  BY <1>3 DEF Changes, Fields
<1>9. c.pos = HeaderUnits /\ ~c.cgiRedir
  BY <1>1 DEF Good, ParserMatchesStatus
<1>10. ASSUME r.c.kind = c.kind, r.c.pos = c.pos, r.c.buffer = c.buffer,
              r.c.expect => c.expect, r.c.headerStatus # "ONGOING"
       PROVE  HeldBound(r.c, 0)
  BY <1>10 DEF HeldBound, Held
<1>11. CASE /\ Changes(d, r.c, {"status", "type", "bodyStatus", "path", "expect"})
            /\ r.res \in {400, d.kind.refuse} /\ r.c.status = r.res
            /\ r.c.expect => d.expect
  <2>1. /\ r.c.kind = c.kind /\ r.c.pos = c.pos /\ r.c.buffer = c.buffer
        /\ r.c.headerStatus = "READY" /\ r.c.foreign = c.foreign
    BY <1>8, <1>11 DEF Changes, Fields
  <2>2. HeldBound(r.c, 0)
    BY <1>8, <1>10, <1>11, <2>1
  <2>3. r.res \in S /\ r.c.status \in S
    BY <1>8, <1>11 DEF OwnStatuses
  <2>4. PutStatus(r.c) /\ DeleteNamed(r.c) /\ BodyOpen(r.c) /\ ~Whole(r.c)
    BY <2>1 DEF PutStatus, DeleteNamed, BodyOpen, Whole
  <2>5. r.res # 0
    <3>1. d.kind.refuse \in Refusals
      BY <1>2 DEF ClientType, KindType
    <3> QED
      BY <1>11, <3>1 DEF Refusals
  <2>6. z = r
    BY <1>4, <2>5
  <2> QED
    BY <2>1, <2>2, <2>3, <2>4, <2>6 DEF Kept
<1>12. ASSUME NEW f \in ClientType, HeaderAccepted(d, f), r.res = 0,
              \/ d.expect /\ Changes(f, r.c, {"response", "out", "mode"})
              \/ ~d.expect /\ r.c = f
       PROVE  Kept(c, z, S) /\ (z.res <= 0 => ~Whole(z.c))
  <2>1. Changes(d, f, {"bodyStatus", "type", "status", "path", "unlink",
                       "bodyFile", "tmpBody", "headerStatus"})
    BY <1>12 DEF HeaderAccepted
  <2>2. Changes(f, r.c, {"response", "out", "mode"})
    BY <1>12 DEF Changes
  <2>3. /\ r.c.kind = c.kind /\ r.c.pos = c.pos /\ r.c.buffer = c.buffer
        /\ r.c.expect = c.expect /\ r.c.foreign = c.foreign
        /\ r.c.path = f.path
    BY <1>8, <2>1, <2>2 DEF Changes, Fields
  <2>4. /\ r.c.status = f.status /\ r.c.type = f.type
        /\ r.c.bodyStatus = f.bodyStatus /\ r.c.headerStatus = "DONE"
    BY <1>7, <1>12, <2>2 DEF Changes, Fields
  <2>5. r.c.bodyStatus = CheckBodyLength(d).bodyStatus
    BY <1>12, <2>4 DEF HeaderAccepted
  <2>6. HeldBound(r.c, 0)
    BY <1>10, <2>3, <2>4
  <2>7. /\ r.c.status \in {0, 200, 201, 403}
        /\ r.c.type = "static" /\ r.c.kind.method = "PUT" => r.c.status > 0
    BY <1>8, <1>9, <1>12, <2>3, <2>4 DEF HeaderAccepted
  <2>8. r.c.bodyStatus \in {"NONE", "ONGOING"}
    BY <1>2, <1>3, <2>5 DEF CheckBodyLength, ClientType
  <2>9. r.c.bodyStatus = "NONE" => r.c.kind.body = 0
    <3>1. Whole(r.c) => r.c.kind.body = 0
      <4>1. r.c.kind.body \in Nat
        BY <1>6 DEF Steady, Good, ClientType, KindType
      <4> QED
        BY <1>9, <2>3, <4>1 DEF Whole, Size, HeaderUnits
    <3>2. r.c.bodyStatus = "NONE" => Whole(r.c)
      BY <1>6, <2>4 DEF Steady, Good, ParserMatchesStatus
    <3> QED
      BY <3>1, <3>2
  <2>14. r.c.type = "static" /\ r.c.kind.method = "DELETE" => Named(r.c)
    BY <1>8, <1>12, <2>3, <2>4 DEF HeaderAccepted, Named
  <2>15. DeleteNamed(r.c)
    BY <2>14 DEF DeleteNamed
  <2>10. BodyOpen(r.c) /\ PutStatus(r.c)
    <3>1. r.c.kind.body \in Nat
      BY <1>6 DEF Steady, Good, ClientType, KindType
    <3>2. r.c.bodyStatus = "ONGOING" => r.c.kind.body > 0
      BY <1>6 DEF Steady, ExpectKept
    <3> QED
      BY <1>9, <2>3, <2>7, <3>1, <3>2 DEF BodyOpen, PutStatus, Size, HeaderUnits
  <2>11. r.c.status \in S \union {0} /\ r.c.kind.refuse \in S
    BY <2>3, <2>7 DEF OwnStatuses
  <2>12. /\ Steady(q.c) /\ q.c.headerStatus = "DONE"
         /\ q.res \in {-1, 0} \union Refusals
         /\ q.res = 0 /\ q.c.bodyStatus # "ONGOING" => q.c.kind.body = 0
         /\ Kept(c, q, S) /\ PutDone(q)
         /\ /\ q.c.type = "static" /\ q.c.kind.method = "DELETE"
            /\ q.res <= 0 /\ q.c.bodyStatus # "ONGOING"
            => Named(q.c)
    <3>1. CASE r.c.bodyStatus # "NONE"
      <4>1. ParseStep(r.c, 0, q)
        BY <1>6, <3>1, ParseRequestStep
      <4>2. q = ParseRequest(r.c, 0, x)
        BY <3>1
      <4>3. Allowed(r.c, 0, x) /\ 501 \in S
        BY <2>4, <2>6 DEF Allowed, OwnStatuses
      <4>4. Kept(r.c, q, S) /\ PutDone(q) /\ DeleteDone(q)
        BY <1>6, <2>10, <2>11, <2>15, <4>2, <4>3, ParseRequestKept
      <4> HIDE DEF q
      <4>5. q.res = -1 \/ q.res >= 0
        BY <4>1 DEF ParseStep, Refusals
      <4>6. q.c.headerStatus = "DONE"
        BY <2>4, <4>1, <4>5 DEF ParseStep
      <4>7. q.res = 0 => q.c.bodyStatus = "ONGOING"
        BY <2>8, <3>1, <4>1 DEF ParseStep
      <4>8. Kept(c, q, S)
        <5>1. q.res > 0 => q.res # 0
          OBVIOUS
        <5> QED
          BY <2>3, <2>11, <4>4, <5>1 DEF Kept
      <4>9. /\ q.c.type = "static" /\ q.c.kind.method = "DELETE"
            /\ q.res <= 0 /\ q.c.bodyStatus # "ONGOING"
            => Named(q.c)
        <5>1. q.res <= 0 /\ q.c.bodyStatus # "ONGOING" => q.res = -1
          BY <4>1, <4>7 DEF ParseStep, Refusals
        <5> QED
          BY <4>4, <4>6, <5>1 DEF DeleteDone
      <4> QED
        BY <4>1, <4>4, <4>6, <4>7, <4>8, <4>9 DEF ParseStep
    <3>2. CASE r.c.bodyStatus = "NONE"
      <4>1. q = r
        BY <3>2
      <4> HIDE DEF q
      <4>2. Kept(c, r, S)
        BY <1>12, <2>3, <2>6, <2>10, <2>11, <2>15 DEF Kept
      <4>3. PutDone(r)
        BY <1>12 DEF PutDone
      <4> QED
        BY <1>6, <1>12, <2>4, <2>9, <2>14, <3>2, <4>1, <4>2, <4>3
    <3> QED
      BY <3>1, <3>2
  <2>13. z = BodyDoneIfComplete(q)
    BY <1>4, <1>12
  <2> HIDE DEF q
  <2> QED
    BY <2>12, <2>13, BodyDoneKept
<1>13. \/ /\ Changes(d, r.c, {"status", "type", "bodyStatus", "path", "expect"})
          /\ r.res \in {400, d.kind.refuse} /\ r.c.status = r.res
          /\ r.c.expect => d.expect
       \/ \E f \in ClientType :
             /\ HeaderAccepted(d, f)
             /\ r.res = 0
             /\ \/ d.expect /\ Changes(f, r.c, {"response", "out", "mode"})
                \/ ~d.expect /\ r.c = f
  BY <1>6 DEF HeaderChecked, Changes, Fields
<1> QED
  BY <1>11, <1>12, <1>13

\* handleClientIn keeps the bound of a polite peer, and leaves no request
\* that has become whole without a status.
LEMMA HandleClientInKept ==
    ASSUME NEW c, Steady(c), NEW n \in Nat, NEW x \in World, Allowed(c, n, x),
           PutStatus(c), DeleteNamed(c), BodyOpen(c),
           NEW S, c.kind.refuse \in S, x.kind.refuse \in S,
           OwnStatuses \subseteq S
    PROVE  LET r == HandleClientIn(c, n, x)
           IN Kept(c, r, S) /\ (r.res <= 0 /\ ~Whole(c) => ~Whole(r.c))
<1> DEFINE p == ParseRequest(c, n, x)
           h == HandleHeadersReady(p.c, x)
           b == BodyDoneIfComplete(p)
           r == HandleClientIn(c, n, x)
<1>1. ParseStep(c, n, p)
  BY ParseRequestStep
<1>2. Kept(c, p, S) /\ PutDone(p) /\ DeleteDone(p)
  <2>1. 501 \in S
    BY DEF OwnStatuses
  <2> QED
    BY <2>1, ParseRequestKept
<1>3. r = IF p.res >= 0 THEN p ELSE IF p.c.headerStatus = "READY" THEN h ELSE b
  BY DEF HandleClientIn
<1> SUFFICES Kept(c, r, S) /\ (r.res <= 0 /\ ~Whole(c) => ~Whole(r.c))
  OBVIOUS
<1> HIDE DEF p, r
<1>4. Steady(p.c) /\ p.res \in {-1, 0} \union Refusals
  BY <1>1 DEF ParseStep
<1>5. p.res >= 0 \/ p.res = -1
  BY <1>4 DEF Refusals
<1>6. CASE p.res >= 0
  <2>1. r = p
    BY <1>3, <1>6
  <2>2. p.c.headerStatus = c.headerStatus /\ p.c.bodyStatus = c.bodyStatus
    BY <1>1, <1>6 DEF ParseStep
  <2>3. Whole(p.c) => Whole(c)
    <3>1. c.headerStatus = "DONE" /\ c.bodyStatus # "ONGOING" => Whole(c)
      BY DEF Steady, Good, ParserMatchesStatus
    <3> QED
      BY <2>2, <3>1 DEF Whole
  <2> QED
    BY <1>2, <2>1, <2>3
<1>7. CASE p.res = -1 /\ p.c.headerStatus = "READY"
  <2>1. r = h
    BY <1>3, <1>7
  <2>2. HeldBound(p.c, 0) /\ p.c.kind.refuse \in S
    BY <1>2 DEF Kept
  <2>3. Kept(p.c, h, S) /\ (h.res <= 0 => ~Whole(h.c))
    BY <1>4, <1>7, <2>2, HandleHeadersReadyKept
  <2> HIDE DEF h
  <2>4. \/ p.c.status \in S \union {0}
        \/ p.c.status = c.status /\ p.c.response = c.response
    BY <1>2 DEF Kept
  <2>5. h.res > 0 => h.res # 0
    OBVIOUS
  <2>7. p.c.foreign = c.foreign
    BY <1>2 DEF Kept
  <2>6. Kept(c, h, S)
    BY <2>3, <2>4, <2>5, <2>7 DEF Kept
  <2> QED
    BY <2>1, <2>3, <2>6
<1>8. CASE p.res = -1 /\ p.c.headerStatus # "READY"
  <2>1. r = b
    BY <1>3, <1>8
  <2>2. p.c.headerStatus = "DONE"
    BY <1>1, <1>8 DEF ParseStep
  <2>4. /\ p.c.type = "static" /\ p.c.kind.method = "DELETE"
        /\ p.res <= 0 /\ p.c.bodyStatus # "ONGOING"
        => Named(p.c)
    BY <1>2, <1>8, <2>2 DEF DeleteDone
  <2>3. Kept(c, b, S) /\ (b.res <= 0 => ~Whole(b.c))
    BY <1>2, <1>4, <1>8, <2>2, <2>4, BodyDoneKept
  <2> QED
    BY <2>1, <2>3
<1> QED
  BY <1>5, <1>6, <1>7, <1>8

(***************************************************************************)
(* The invariant.  S holds the statuses that the theorem at hand allows.   *)
(***************************************************************************)
Ordered(c, S) ==
    /\ HeldBound(c, 0)
    /\ BodyOpen(c)
    /\ PutStatus(c)
    /\ Whole(c) => c.mode = "WRITE"
    /\ ~Final(c) => DeleteNamed(c)
    /\ c.cgi # "none" => c.path = "cgiout"
    /\ c.foreign = FALSE
    /\ c.kind.refuse \in S
    /\ ~Final(c) => c.status \in S \union {0}

\* One EPOLLIN with its response keeps it.
LEMMA ReadAndRespondKept ==
    ASSUME NEW c, Settled(c), ReadsInput(c), NEW n \in Nat, NEW x \in World,
           Allowed(c, n, x),
           NEW S, Ordered(c, S), x.kind.refuse \in S, OwnStatuses \subseteq S
    PROVE  LET d == ReadAndRespond(c, n, x)
           IN Ordered(d, S) /\ d.response \in {c.response, 100} \union S
<1> DEFINE r == HandleClientIn(c, n, x)
           d == ReadAndRespond(c, n, x)
<1>1. Steady(c) /\ Good(c) /\ c \in ClientType
  BY DEF Settled, Steady, Good
<1>2. InStep(c, n, r)
  BY <1>1, HandleClientInStep
<1>12. DeleteNamed(c)
  <2>1. CASE c.mode = "READ"
    <3>1. ~Final(c)
      BY <1>1, <2>1 DEF Good, ResponseMatchesMode, Final
    <3> QED
      BY <3>1 DEF Ordered
  <2>2. CASE c.bodyStatus # "ONGOING"
    BY <2>2 DEF DeleteNamed
  <2> QED
    BY <2>1, <2>2 DEF ReadsInput
<1>3. Kept(c, r, S) /\ (r.res <= 0 /\ ~Whole(c) => ~Whole(r.c))
  BY <1>1, <1>12, HandleClientInKept DEF Ordered
<1>4. d = IF r.res > 0 THEN HandleClientResponse(r.c, r.res, x) ELSE r.c
  BY DEF ReadAndRespond
<1> SUFFICES Ordered(d, S) /\ d.response \in {c.response, 100} \union S
  OBVIOUS
<1> HIDE DEF r, d
<1>5. Steady(r.c) /\ r.c \in ClientType /\ r.res \in Int
  BY <1>2 DEF InStep, Steady, Good
<1>6. r.c.foreign = c.foreign /\ r.c.cgi = c.cgi
  BY <1>2, <1>3 DEF InStep, Kept, Changes, Fields, InKept
<1>7. r.c.response \in {c.response, 100}
  BY <1>2 DEF InStep
<1>8. \/ r.c.status \in S \union {0}
      \/ r.c.status = c.status /\ r.c.response = c.response
  BY <1>3 DEF Kept
<1>9. ~Final(c) => c.status \in S \union {0}
  BY DEF Ordered
<1>10. CASE ~(r.res > 0)
  <2>1. d = r.c /\ r.res <= 0
    BY <1>4, <1>5, <1>10
  <2>2. HeldBound(r.c, 0) /\ BodyOpen(r.c) /\ PutStatus(r.c)
        /\ DeleteNamed(r.c) /\ r.c.kind.refuse \in S
    BY <1>3, <2>1 DEF Kept
  <2>3. Whole(c) => r.c.mode = c.mode /\ r.c.path = c.path
    BY <1>2 DEF InStep, Changes, Fields
  <2>4. Whole(r.c) => r.c.mode = "WRITE"
    BY <1>3, <2>1, <2>3 DEF Ordered
  <2>5. r.c.cgi # "none" => r.c.path = "cgiout"
    <3>1. c.cgi # "none" => Whole(c)
      BY <1>1 DEF Good, WorkIsWhole
    <3> QED
      BY <1>6, <2>3, <3>1 DEF Ordered
  <2>6. ~Final(r.c) => r.c.status \in S \union {0}
    BY <1>8, <1>9 DEF Final
  <2>7. r.c.foreign = FALSE
    BY <1>6 DEF Ordered
  <2> QED
    BY <1>7, <2>1, <2>2, <2>4, <2>5, <2>6, <2>7 DEF Ordered
<1>11. CASE r.res > 0
  <2>1. Responded(r.c, r.res, d)
    BY <1>2, <1>4, <1>11, RespondAfterRead
  <2>2. ~Whole(c) /\ c.cgi = "none" /\ r.c.cgi = "none"
    BY <1>1, <1>2, <1>6, <1>11 DEF InStep, Good, WorkIsWhole
  <2>3. /\ d.headerStatus = r.c.headerStatus /\ d.bodyStatus = r.c.bodyStatus
        /\ d.kind = r.c.kind /\ d.pos = r.c.pos /\ d.buffer = r.c.buffer
        /\ d.expect = r.c.expect /\ d.parser = r.c.parser
        /\ d.type = r.c.type /\ d.foreign = r.c.foreign
    BY <2>1 DEF Responded, Changes, Fields, RespondFields, ResponseFields
  <2>4. /\ d.response # NoResponse \/ (d.cgi = "running" /\ Whole(r.c))
        /\ r.c.response # NoResponse => d.response = r.c.response
        /\ d.cgi = "none" \/ (d.path = "cgiout" /\ d.mode = "WRITE")
        /\ d.status \in {r.c.status, r.res, 500}
        /\ d.response \in {r.c.response, r.res, 500}
    BY <2>1, <2>2 DEF Responded
  <2>5. r.c.response # 100 /\ d.response # 100
    <3>1. SUFFICES ASSUME r.c.response = 100 PROVE FALSE
      BY <1>2, <2>4 DEF InStep
    <3>2. r.c.expect /\ r.c.headerStatus = "DONE" /\ r.c.bodyStatus # "NONE"
          /\ r.c.kind.body > 0
      BY <1>5, <3>1 DEF Steady, ExpectKept
    <3>3. r.c.pos + r.c.buffer + 0 <= HeaderUnits
      BY <1>3, <3>2 DEF Kept, HeldBound, Held
    <3>4. r.c.pos = Size(r.c.kind)
      BY <1>3, <1>11, <3>2 DEF Kept
    <3>5. r.c.buffer \in Nat /\ r.c.kind.body \in Nat
      BY <1>5 DEF ClientType, KindType
    <3> QED
      BY <3>2, <3>3, <3>4, <3>5 DEF Size, HeaderUnits
  <2>6. HeldBound(d, 0)
    BY <1>3, <2>3 DEF Kept, HeldBound, Held
  <2>7. BodyOpen(d)
    BY <2>3, <2>4, <2>5 DEF BodyOpen, Final, Whole
  <2>8. PutStatus(d)
    <3>1. r.res > 0
      BY <1>11
    <3>2. PutStatus(r.c)
      BY <1>3 DEF Kept
    <3> QED
      BY <2>3, <2>4, <3>1, <3>2 DEF PutStatus
  <2>9. d.mode = "WRITE"
    <3>1. d.mode = "READ" => d.response = NoResponse
      BY <2>1 DEF Responded, Steady, Good, ResponseMatchesMode
    <3>2. d.mode \in Modes
      BY <2>1 DEF Responded, Steady, Good, ClientType
    <3> QED
      BY <2>4, <3>1, <3>2 DEF Modes
  <2>10. 500 \in S /\ r.res # 0
    BY <1>11 DEF OwnStatuses
  <2>11. r.res \in S \/ (r.res = c.status /\ r.c.response = c.response)
    BY <1>3, <1>11 DEF Kept
  <2>12. ~Final(d) => d.status \in S \union {0}
    <3>1. SUFFICES ASSUME ~Final(d) PROVE d.status \in S \union {0}
      OBVIOUS
    <3>2. r.c.response = NoResponse
      BY <2>4, <2>5, <3>1 DEF Final
    <3>3. r.c.response = c.response => c.status \in S \union {0}
      BY <1>9, <3>2 DEF Final
    <3> QED
      BY <1>8, <2>4, <2>10, <2>11, <3>3
  <2>13. d.response \in {c.response, 100} \union S
    <3>1. CASE r.c.response # NoResponse
      BY <1>7, <2>4, <3>1
    <3>2. CASE r.c.response = NoResponse
      <4>1. r.c.response = c.response => c.status \in S \union {0}
        BY <1>9, <3>2 DEF Final
      <4> QED
        BY <1>7, <2>4, <2>10, <2>11, <4>1
    <3> QED
      BY <3>1, <3>2
  <2>14. d.foreign = FALSE /\ d.kind.refuse \in S
    BY <1>3, <1>6, <2>3 DEF Kept, Ordered
  <2>15. ~Final(d) => DeleteNamed(d)
    BY <2>3, <2>4, <2>5 DEF DeleteNamed, Final, Whole
  <2> QED
    BY <2>4, <2>6, <2>7, <2>8, <2>9, <2>12, <2>13, <2>14, <2>15 DEF Ordered
<1> QED
  BY <1>10, <1>11

\* What the constants must be like for S: the peer sends no body early, and S
\* holds every status that the server makes or that a request may be refused
\* with, the 0 of a redirection to a file included.
Admits(S) ==
    /\ NoEarlyBody
    /\ OwnStatuses \subseteq S
    /\ \A k \in Kinds : k.refuse \in S
    /\ \A t \in RedirTargets :
         t.refuse \in S /\ (0 \in S \/ t.type = "cgi" \/ t.at = "late")

\* The next request fits S and the bound.
NextFits(c, x, S) ==
    /\ x.kind.refuse \in S
    /\ x.kind.expect => MayExpect /\ c.buffer <= HeaderUnits

\* What the world decides fits S and the bound.
Fits(c, x, S) ==
    /\ NextFits(c, x, S)
    /\ x.to.refuse \in S
    /\ c.cgi = "local" => 0 \in S \/ x.to.type = "cgi" \/ x.to.at = "late"

\* Whole requests have had their 100, if they asked for one.
LEMMA WholeUnexpected ==
    ASSUME NEW c, Steady(c), Whole(c), HeldBound(c, 0)
    PROVE  c.expect = FALSE /\ c.response # 100
<1>1. c \in ClientType /\ c.kind.body \in Nat /\ c.buffer \in Nat
      /\ c.expect \in BOOLEAN
  BY DEF Steady, Good, ClientType, KindType
<1>2. ~c.expect
  <2>1. SUFFICES ASSUME c.expect PROVE FALSE
    OBVIOUS
  <2>2. c.kind.body > 0
    BY <2>1 DEF Steady, ExpectKept, Whole
  <2>3. c.pos + c.buffer + 0 <= HeaderUnits
    BY <2>1 DEF HeldBound, Held
  <2> QED
    BY <1>1, <2>2, <2>3 DEF Whole, Size, HeaderUnits
<1>3. c.response # 100
  BY <1>2 DEF Steady, ExpectKept
<1> QED
  BY <1>1, <1>2, <1>3

\* handleCGIProcess keeps the invariant.
LEMMA CgiStepKept ==
    ASSUME NEW c, Settled(c), c.cgi # "none", NEW x \in World, NEW d,
           CgiStep(c, x, d), NEW S, Ordered(c, S), Fits(c, x, S),
           OwnStatuses \subseteq S
    PROVE  /\ Ordered(d, S)
           /\ d.response \in {c.response} \union S
           /\ d.buffer = c.buffer
<1>1. Steady(c) /\ Whole(c) /\ c.path = "cgiout" /\ c.mode = "WRITE"
      /\ c.foreign = FALSE /\ HeldBound(c, 0) /\ c.kind.refuse \in S
      /\ (~Final(c) => c.status \in S \union {0})
  BY DEF Settled, Steady, Good, WorkIsWhole, Ordered
<1>2. c.expect = FALSE /\ c.response # 100
  BY <1>1, WholeUnexpected
<1>3. /\ Whole(d) /\ d.mode \in {c.mode, "WRITE"} /\ ~d.expect
      /\ OutputKept(c, d) /\ CgiResponse(c, x, d)
      /\ d.kind.refuse \in {c.kind.refuse, x.to.refuse}
      /\ d.response = NoResponse => d.status \in {c.status, 0, 500}
      /\ c.response # NoResponse => d.response = c.response
  BY <1>2 DEF CgiStep
<1>4. d.buffer = c.buffer
  BY DEF CgiStep, Changes, Fields
<1>5. x.to.refuse \in S /\ x.to.refuse # 100
  <2>1. x.to.refuse \in Refusals
    BY DEF World, RedirType
  <2> QED
    BY <2>1 DEF Fits, Refusals
<1>6. d.response \in {c.response} \union S
  BY <1>2, <1>3, <1>5 DEF CgiResponse, Fits, OwnStatuses
<1>7. d.response # 100
  BY <1>2, <1>3, <1>5 DEF CgiResponse
<1>8. ~Final(d) => d.status \in S \union {0}
  <2>1. SUFFICES ASSUME ~Final(d) PROVE d.status \in S \union {0}
    OBVIOUS
  <2>2. d.response = NoResponse /\ c.response = NoResponse
    BY <1>3, <1>7, <2>1 DEF Final
  <2>3. c.status \in S \union {0} /\ 500 \in S
    BY <1>1, <2>2 DEF Final, OwnStatuses
  <2> QED
    BY <1>3, <2>2, <2>3
<1>9. HeldBound(d, 0) /\ BodyOpen(d) /\ PutStatus(d) /\ DeleteNamed(d)
  BY <1>3 DEF HeldBound, Held, BodyOpen, PutStatus, DeleteNamed, Whole
<1>10. d.foreign = FALSE /\ (d.cgi # "none" => d.path = "cgiout")
  BY <1>1, <1>3 DEF OutputKept
<1> QED
  BY <1>1, <1>3, <1>4, <1>5, <1>6, <1>8, <1>9, <1>10 DEF Ordered

\* The target of an upload that is answered as done is not unlinked.
LEMMA TargetStays ==
    ASSUME NEW c, Settled(c)
    PROVE  ~TargetLost(c)
<1>1. c.bodyFile = "target" => ~c.unlink
  BY DEF Settled, Steady, BodyOwned
<1>2. Succeeded(c) => c.status < 300
  BY DEF Settled, SuccessEnds, Succeeded
<1>3. c.status \in Nat
  BY DEF Settled, Steady, Good, ClientType
<1> QED
  BY <1>1, <1>2, <1>3 DEF TargetLost, UnlinksBody

\* Client::clear keeps the invariant.
LEMMA ClearedKept ==
    ASSUME NEW c \in ClientType, NEW z, Cleared(c, z), NEW S,
           c.cgi # "none" => c.path = "cgiout", c.foreign = FALSE,
           ~TargetLost(c), OwnStatuses \subseteq S
    PROVE  /\ Ordered(z, S)
           /\ ~Held(z)
           /\ (c.tmpOut => c.cgi # "none") => z.tmpOut = FALSE
<1>1. c.tmpOut \in BOOLEAN
  BY DEF ClientType
<1>2. z.foreign = FALSE /\ ((c.tmpOut => c.cgi # "none") => z.tmpOut = FALSE)
  <2>1. z.foreign = DeleteCGIProcess(c).foreign
        /\ z.tmpOut = DeleteCGIProcess(c).tmpOut
    BY DEF Cleared
  <2>2. CASE c.cgi = "none"
    BY <1>1, <2>1, <2>2 DEF DeleteCGIProcess
  <2>3. CASE c.cgi # "none"
    BY <2>1, <2>3, DeleteCGIProcessFrame
  <2> QED
    BY <2>2, <2>3
<1>3. /\ z.expect = FALSE /\ z.parser = "NEW" /\ z.headerStatus = "ONGOING"
      /\ z.cgi = "none" /\ z.status = 0 /\ z.kind = NoKind
  BY DEF Cleared
<1>4. ~Held(z)
  BY <1>3 DEF Held
<1>5. HeldBound(z, 0) /\ BodyOpen(z) /\ PutStatus(z) /\ DeleteNamed(z)
      /\ ~Whole(z)
  BY <1>3, <1>4 DEF HeldBound, BodyOpen, PutStatus, DeleteNamed, Whole
<1>6. z.kind.refuse \in S
  BY <1>3 DEF NoKind, OwnStatuses
<1> QED
  BY <1>2, <1>3, <1>4, <1>5, <1>6 DEF Ordered

\* Sending a 100 keeps the invariant: the body is still to come.
LEMMA ContinuedKept ==
    ASSUME NEW c, Steady(c), NEW z, Continued(c, z), NEW S, Ordered(c, S)
    PROVE  Ordered(z, S)
<1>1. c.expect /\ c.response = 100 /\ c.headerStatus = "DONE"
  BY DEF Continued, Steady, ExpectKept
<1>2. ~Whole(c) /\ c.cgi = "none"
  <2>1. ~Whole(c)
    BY <1>1, WholeUnexpected DEF Ordered
  <2> QED
    BY <2>1 DEF Steady, Good, WorkIsWhole
<1>3. z.response = NoResponse /\ z.expect = FALSE
  BY DEF Continued
<1>4. /\ z.headerStatus = c.headerStatus /\ z.bodyStatus = c.bodyStatus
      /\ z.kind = c.kind /\ z.pos = c.pos /\ z.cgi = c.cgi
      /\ z.type = c.type /\ z.status = c.status /\ z.foreign = c.foreign
      /\ z.path = c.path
  BY DEF Continued, Changes, Fields
<1>5. ~Final(c)
  BY <1>1 DEF Final
<1>6. HeldBound(z, 0)
  BY <1>1, <1>3, <1>4 DEF HeldBound, Held
<1>7. BodyOpen(z) /\ PutStatus(z) /\ DeleteNamed(z) /\ ~Whole(z)
  BY <1>2, <1>4, <1>5 DEF Ordered, BodyOpen, PutStatus, DeleteNamed, Named, Whole
<1> QED
  BY <1>2, <1>4, <1>5, <1>6, <1>7 DEF Ordered

\* Writing one buffer keeps it, and so does a failed write.
LEMMA OutStepKept ==
    ASSUME NEW c, Settled(c), NEW x \in World, NEW z, OutStep(c, x, z),
           NEW S, Ordered(c, S), NextFits(c, x, S), OwnStatuses \subseteq S
    PROVE  /\ Ordered(z, S)
           /\ z.response \in {c.response, NoResponse, 100} \union S
<1>1. c \in ClientType /\ Steady(c)
  BY DEF Settled, Steady, Good
<1>2. (c.cgi # "none" => c.path = "cgiout") /\ c.foreign = FALSE
      /\ ~TargetLost(c)
  BY TargetStays DEF Ordered
<1>3. ASSUME NEW d, Changes(c, d, {"out"})
      PROVE  /\ Ordered(d, S) /\ d.response = c.response
             /\ d.cgi = c.cgi /\ d.path = c.path /\ d.foreign = c.foreign
             /\ d.buffer = c.buffer /\ ~TargetLost(d)
  <2>1. /\ d.headerStatus = c.headerStatus /\ d.bodyStatus = c.bodyStatus
        /\ d.kind = c.kind /\ d.pos = c.pos /\ d.parser = c.parser
        /\ d.type = c.type /\ d.status = c.status /\ d.expect = c.expect
        /\ d.mode = c.mode
    BY <1>3 DEF Changes, Fields
  <2>2. /\ d.response = c.response
        /\ d.cgi = c.cgi /\ d.path = c.path /\ d.foreign = c.foreign
        /\ d.buffer = c.buffer
    BY <1>3 DEF Changes, Fields
  <2>3. /\ HeldBound(d, 0) /\ BodyOpen(d) /\ PutStatus(d)
        /\ ~Final(d) => DeleteNamed(d)
    BY <2>1, <2>2 DEF Ordered, HeldBound, Held, BodyOpen, PutStatus,
                      DeleteNamed, Named, Final
  <2>4. Whole(d) = Whole(c) /\ Final(d) = Final(c)
    BY <2>1, <2>2 DEF Whole, Final
  <2>5. ~TargetLost(d)
    <3>1. d.unlink = c.unlink /\ d.bodyFile = c.bodyFile
      BY <1>3 DEF Changes, Fields
    <3> QED
      BY <1>2, <2>1, <2>2, <3>1 DEF TargetLost, UnlinksBody, Succeeded
  <2> QED
    BY <2>1, <2>2, <2>3, <2>4, <2>5 DEF Ordered
<1>4. CASE Cleared(c, z)
  BY <1>1, <1>2, <1>4, ClearedKept DEF Cleared
<1>5. CASE Changes(c, z, {"out"})
  BY <1>3, <1>5
<1>6. ASSUME NEW d, Changes(c, d, {"out"}), Steady(d), Sent(d, x, z)
      PROVE  /\ Ordered(z, S)
             /\ z.response \in {c.response, NoResponse, 100} \union S
  <2>1. /\ Ordered(d, S) /\ d.response = c.response
        /\ d.cgi = c.cgi /\ d.path = c.path /\ d.foreign = c.foreign
        /\ d.buffer = c.buffer /\ d \in ClientType /\ ~TargetLost(d)
    BY <1>3, <1>6 DEF Steady, Good
  <2>2. CASE Continued(d, z)
    BY <1>6, <2>1, <2>2, ContinuedKept DEF Continued
  <2>3. CASE Cleared(d, z)
    BY <1>2, <2>1, <2>3, ClearedKept DEF Cleared
  <2>4. CASE GoesOn(d, x, z)
    <3>1. PICK e : Cleared(d, e) /\ e.buffer = d.buffer
                   /\ z = ReadAndRespond(e, 0, x)
      BY <2>4 DEF GoesOn
    <3>2. Ordered(e, S) /\ ~Held(e)
      BY <1>2, <2>1, <3>1, ClearedKept
    <3>3. Settled(e) /\ ReadsInput(e) /\ e.response = NoResponse
      BY <3>1 DEF Cleared, ReadsInput
    <3>4. e.buffer = c.buffer /\ c.buffer \in Nat
      BY <1>1, <2>1, <3>1 DEF ClientType
    <3>5. Allowed(e, 0, x)
      BY <3>2, <3>4 DEF Allowed, HeldBound, NextFits
    <3>6. x.kind.refuse \in S
      BY DEF NextFits
    <3>7. Ordered(z, S) /\ z.response \in {e.response, 100} \union S
      BY <3>1, <3>2, <3>3, <3>5, <3>6, ReadAndRespondKept
    <3> QED
      BY <3>3, <3>7
  <2> QED
    BY <1>6, <2>2, <2>3, <2>4 DEF Sent
<1> QED
  BY <1>4, <1>5, <1>6 DEF OutStep

-----------------------------------------------------------------------------
\* What a peer that sends no body early may send is allowed.
LEMMA InWorldFits ==
    ASSUME NEW c, Steady(c), NEW S, Ordered(c, S), Admits(S), NEW n \in Nat,
           MaySend(c, n), NEW x \in InWorld(c, n)
    PROVE  Allowed(c, n, x) /\ x.kind.refuse \in S
<1>1. c \in ClientType /\ c.pos \in Nat /\ c.buffer \in Nat
  BY DEF Steady, Good, ClientType
<1>2. x.kind \in IF StartsRequest(c) THEN KindsSent(c.buffer + n) ELSE {NoKind}
  BY DEF InWorld
<1>3. x.kind.refuse \in S
  BY <1>2 DEF KindsSent, Admits, NoKind, OwnStatuses
<1>4. StartsRequest(c) /\ x.kind.expect =>
        MayExpect /\ c.buffer + n <= HeaderUnits
  BY <1>2 DEF KindsSent, Admits, NoEarlyBody, MayExpect
<1>5. HeldBound(c, n)
  <2>1. SUFFICES ASSUME Held(c)
                 PROVE  MayExpect /\ c.pos + c.buffer + n <= HeaderUnits
    BY DEF HeldBound
  <2>2. MayExpect
    BY <2>1 DEF Ordered, HeldBound
  <2>3. CASE c.expect
    <3>1. c.headerStatus # "ONGOING"
      BY <2>3 DEF Steady, ExpectKept
    <3>2. c.pos \in HeaderUnits..Size(c.kind)
      BY <3>1 DEF Steady, Good, ParserMatchesStatus
    <3>3. c.pos > 0 /\ ~(c.pos < HeaderUnits)
      BY <1>1, <3>2 DEF HeaderUnits
    <3>4. HeldBack(c)
      BY <2>2, <2>3, <3>3 DEF HeldBack, MayExpect
    <3> QED
      BY <2>2, <3>4 DEF MaySend
  <2>4. CASE c.headerStatus = "ONGOING" /\ c.parser = "ONGOING" /\ c.kind.expect
    <3>1. c.pos \in 1..(HeaderUnits - 1)
      BY <2>4 DEF Steady, Good, ParserMatchesStatus
    <3>2. c.pos > 0 /\ c.pos < HeaderUnits
      BY <3>1 DEF HeaderUnits
    <3>3. HeldBack(c)
      BY <2>2, <2>4, <3>2 DEF HeldBack, MayExpect
    <3> QED
      BY <2>2, <3>3 DEF MaySend
  <2> QED
    BY <2>1, <2>3, <2>4 DEF Held
<1> QED
  BY <1>3, <1>4, <1>5 DEF Allowed

\* What the world decides during an EPOLLOUT fits.
LEMMA OutWorldFits ==
    ASSUME NEW c \in ClientType, NEW S, Admits(S), NEW x \in OutWorld(c)
    PROVE  Fits(c, x, S)
<1>1. /\ x.kind \in IF c.buffer > 0 THEN KindsSent(c.buffer) ELSE {NoKind}
      /\ x.to \in IF c.cgi = "local" THEN RedirTargets ELSE {NoTarget}
  BY DEF OutWorld
<1>2. x.kind.refuse \in S /\ (x.kind.expect => MayExpect /\ c.buffer <= HeaderUnits)
  BY <1>1 DEF KindsSent, Admits, NoEarlyBody, MayExpect, NoKind, OwnStatuses
<1>3. /\ x.to.refuse \in S
      /\ c.cgi = "local" => 0 \in S \/ x.to.type = "cgi" \/ x.to.at = "late"
  BY <1>1 DEF Admits, NoTarget, OwnStatuses
<1> QED
  BY <1>2, <1>3 DEF Fits, NextFits

\* A timeout keeps the invariant.
LEMMA TimedOutKept ==
    ASSUME NEW c, Settled(c), NEW z, TimedOut(c, z), NEW S, Ordered(c, S)
    PROVE  Ordered(z, S)
<1>1. /\ z.headerStatus = c.headerStatus /\ z.bodyStatus = c.bodyStatus
      /\ z.kind = c.kind /\ z.pos = c.pos /\ z.parser = c.parser
      /\ z.expect = c.expect /\ z.cgi = c.cgi /\ z.foreign = c.foreign
      /\ z.buffer = c.buffer
  BY DEF TimedOut, Changes, Fields, ResponseFields
<1>2. z.response \in {408, 500} /\ z.status = z.response /\ z.mode = "WRITE"
      /\ c.mode = "READ"
  BY DEF TimedOut
<1>3. Final(z) /\ z.status > 0
  BY <1>2 DEF Final, NoResponse
<1>4. c.cgi = "none"
  <2>1. ~Whole(c)
    BY <1>2 DEF Ordered
  <2> QED
    BY <2>1 DEF Settled, Steady, Good, WorkIsWhole
<1>5. HeldBound(z, 0)
  BY <1>1 DEF Ordered, HeldBound, Held
<1> QED
  BY <1>1, <1>2, <1>3, <1>4, <1>5 DEF Ordered, BodyOpen, PutStatus

\* The end of the child keeps the invariant.
LEMMA ExitedKept ==
    ASSUME NEW c, NEW z, Exited(c, z), NEW S, Ordered(c, S)
    PROVE  Ordered(z, S) /\ z.response = c.response
<1>1. /\ z.headerStatus = c.headerStatus /\ z.bodyStatus = c.bodyStatus
      /\ z.kind = c.kind /\ z.pos = c.pos /\ z.parser = c.parser
      /\ z.expect = c.expect /\ z.foreign = c.foreign /\ z.path = c.path
      /\ z.buffer = c.buffer /\ z.type = c.type
  BY DEF Exited, Changes, Fields
<1>2. z.status = c.status /\ z.response = c.response /\ z.mode = c.mode
      /\ c.cgi # "none"
  BY DEF Exited, Changes, Fields
<1>3. /\ HeldBound(z, 0) /\ BodyOpen(z) /\ PutStatus(z)
      /\ ~Final(z) => DeleteNamed(z)
  BY <1>1, <1>2 DEF Ordered, HeldBound, Held, BodyOpen, PutStatus, DeleteNamed,
                    Named, Final
<1>4. Whole(z) = Whole(c) /\ Final(z) = Final(c)
  BY <1>1, <1>2 DEF Whole, Final
<1> QED
  BY <1>1, <1>2, <1>3, <1>4 DEF Ordered

\* Every action keeps the invariant, and only a timeout makes a response with
\* a status outside S.
LEMMA NextKept ==
    ASSUME StepInv, NEW S, Ordered(client, S), Admits(S), Next
    PROVE  /\ Ordered(client', S)
           /\ \/ client'.response \in {client.response, NoResponse, 100} \union S
              \/ TimedOut(client, client')
<1> DEFINE c == client
           z == client'
<1>1. Settled(c) /\ Steady(c) /\ c \in ClientType /\ OwnStatuses \subseteq S
  BY DEF StepInv, Settled, Steady, Good, Admits
<1>2. CASE EpollIn
  <2>1. PICK n \in 1..(MaxUnits - received) :
          /\ MaySend(c, n)
          /\ \E x \in InWorld(c, n) : z = ReadAndRespond(c, n, x)
    BY <1>2 DEF EpollIn
  <2>2. PICK x \in InWorld(c, n) : z = ReadAndRespond(c, n, x)
    BY <2>1
  <2>3. n \in Nat /\ ReadsInput(c) /\ x \in World
    BY <1>2, <2>1, InWorldType DEF EpollIn
  <2>4. Allowed(c, n, x) /\ x.kind.refuse \in S
    BY <1>1, <2>1, <2>3, InWorldFits
  <2>5. Ordered(z, S) /\ z.response \in {c.response, 100} \union S
    BY <1>1, <2>2, <2>3, <2>4, ReadAndRespondKept
  <2> QED
    BY <2>5
<1>3. ASSUME Cleared(c, z)
      PROVE  Ordered(z, S) /\ z.response = NoResponse
  BY <1>1, <1>3, ClearedKept, TargetStays DEF Cleared, Ordered
<1>4. CASE PeerCloses \/ EpollHup
  BY <1>1, <1>3, <1>4, TerminateStep DEF PeerCloses, EpollHup
<1>5. CASE EpollOut
  <2>1. PICK x \in OutWorld(c) : z = WriteEvent(c, x)
    BY <1>5 DEF EpollOut
  <2>2. x \in World /\ Fits(c, x, S)
    BY <1>1, OutWorldType, OutWorldFits
  <2>3. Wrote(c, x, z)
    BY <1>1, <2>1, <2>2, WriteEventStep
  <2>4. PICK d : /\ \/ c.cgi # "none" /\ CgiStep(c, x, d)
                    \/ c.cgi = "none" /\ d = c
                 /\ \/ d.response # NoResponse /\ OutStep(d, x, z)
                    \/ d.response = NoResponse /\ z = d
    BY <2>3 DEF Wrote
  <2>5. /\ Ordered(d, S) /\ Settled(d) /\ d.response \in {c.response} \union S
        /\ d.buffer = c.buffer
    <3>1. CASE c.cgi # "none" /\ CgiStep(c, x, d)
      <4>1. Settled(d)
        BY <3>1 DEF CgiStep
      <4> QED
        BY <1>1, <2>2, <3>1, <4>1, CgiStepKept
    <3>2. CASE d = c
      BY <1>1, <3>2
    <3> QED
      BY <2>4, <3>1, <3>2
  <2>6. CASE z = d
    BY <2>5, <2>6
  <2>7. CASE OutStep(d, x, z)
    <3>1. NextFits(d, x, S)
      BY <2>2, <2>5 DEF Fits, NextFits
    <3>2. /\ Ordered(z, S)
          /\ z.response \in {d.response, NoResponse, 100} \union S
      BY <1>1, <2>2, <2>5, <2>7, <3>1, OutStepKept
    <3> QED
      BY <2>5, <3>2
  <2> QED
    BY <2>4, <2>6, <2>7
<1>6. CASE CheckTO
  <2>1. CASE ~client.request
    BY <1>1, <1>3, <1>6, <2>1, TerminateStep DEF CheckTO
  <2>2. CASE client.request
    <3>1. PICK x \in InWorld(client, 0) :
             z = GenerateResponse(
                   FillError([client EXCEPT !.mode = "WRITE"], 408), 408, x)
      BY <1>6, <2>2 DEF CheckTO
    <3>2. TimedOut(c, z)
      BY <1>1, <1>6, <3>1, InWorldType, TimeOutStep DEF CheckTO
    <3> QED
      BY <1>1, <3>2, TimedOutKept
  <2> QED
    BY <2>1, <2>2
<1>7. CASE ChildExits
  <2>1. Exited(c, z)
    BY <1>1, <1>7, ChildExitsStep DEF ChildExits
  <2> QED
    BY <2>1, ExitedKept
<1> QED
  BY <1>2, <1>4, <1>5, <1>6, <1>7 DEF Next

\* A new connection has the invariant.
LEMMA InitKept ==
    ASSUME NEW S, OwnStatuses \subseteq S, Init
    PROVE  Ordered(client, S)
<1>1. client = NewClient
  BY DEF Init
<1>2. /\ client.expect = FALSE /\ client.parser = "NEW"
      /\ client.headerStatus = "ONGOING" /\ client.cgi = "none"
      /\ client.status = 0 /\ client.kind = NoKind /\ client.foreign = FALSE
  BY <1>1 DEF NewClient
<1>3. client.kind.refuse \in S
  BY <1>2 DEF NoKind, OwnStatuses
<1>4. ~Held(client) /\ ~Whole(client)
  BY <1>2 DEF Held, Whole
<1> QED
  BY <1>2, <1>3, <1>4 DEF Ordered, HeldBound, BodyOpen, PutStatus, DeleteNamed

\* Whatever S is chosen, the invariant holds at first and is kept.
LEMMA OrderedInductive ==
    ASSUME NEW S, Admits(S)
    PROVE  /\ Init => Ordered(client, S)
           /\ StepInv /\ Ordered(client, S) /\ [Next]_vars =>
                Ordered(client', S)
<1>1. Init => Ordered(client, S)
  BY InitKept DEF Admits
<1>2. StepInv /\ Ordered(client, S) /\ [Next]_vars => Ordered(client', S)
  <2>1. CASE UNCHANGED vars
    BY <2>1 DEF vars
  <2> QED
    BY <2>1, NextKept
<1> QED
  BY <1>1, <1>2

-----------------------------------------------------------------------------
\* The refusals a request or a redirection may carry are statuses.
LEMMA RefusalsAreNat ==
    /\ \A k \in Kinds : k.refuse \in Nat
    /\ \A t \in RedirTargets : t.refuse \in Nat
BY KindsAssumption, RedirAssumption DEF KindType, RedirType, Refusals

\* With a peer that sends no body early no file is removed that has to stay:
\* ~CGIProcess removes no file but the script's output, deleteBodyStream only
\* the target of an upload that was not answered as done, and a DELETE only its
\* own resource, whatever redirections, error pages and timeouts have rewritten
\* the hints in between.
THEOREM ForeignFilesKeptAlways ==
    ASSUME NoEarlyBody
    PROVE  Spec => []ForeignFilesKept
<1>1. Admits(Nat)
  BY RefusalsAreNat DEF Admits, OwnStatuses
<1>2. /\ Init => Ordered(client, Nat)
      /\ StepInv /\ Ordered(client, Nat) /\ [Next]_vars =>
           Ordered(client, Nat)'
  BY <1>1, OrderedInductive
<1>3. Ordered(client, Nat) => ForeignFilesKept
  BY DEF Ordered, ForeignFilesKept
<1> QED
  BY <1>2, <1>3, StepInvariant, PTL DEF Spec

\* The file belongs to a CGIProcess.
OutputOwned(c) == c.tmpOut => c.cgi # "none"

\* Only a script that prints a bad status leaves its output behind: SendOutput
\* answers 500 and resets resHints.path before ~CGIProcess reads it.
LEMMA NextOutputOwned ==
    ASSUME StepInv, Ordered(client, Nat), OutputOwned(client), Next,
           "badstatus" \notin CgiOutputs
    PROVE  OutputOwned(client')
<1> DEFINE c == client
           z == client'
<1>1. Settled(c) /\ c \in ClientType /\ c.cgi # "badstatus"
  BY DEF StepInv, Settled, Steady, Good
<1>2. (c.cgi # "none" => c.path = "cgiout") /\ c.foreign = FALSE
      /\ OwnStatuses \subseteq Nat
  BY DEF Ordered, OwnStatuses
<1>3. EventStep(c, z)
  BY NextIsEvent
<1>4. CASE \E n \in Nat : ReadStep(c, n, z)
  BY <1>4 DEF ReadStep, OutputOwned
<1>9. ~TargetLost(c)
  BY <1>1, TargetStays
<1>5. CASE Cleared(c, z)
  BY <1>1, <1>2, <1>5, <1>9, ClearedKept DEF OutputOwned
<1>6. CASE \E x \in World : Wrote(c, x, z)
  <2>1. PICK x \in World : Wrote(c, x, z)
    BY <1>6
  <2>2. PICK d : /\ \/ c.cgi # "none" /\ CgiStep(c, x, d)
                    \/ c.cgi = "none" /\ d = c
                 /\ \/ d.response # NoResponse /\ OutStep(d, x, z)
                    \/ d.response = NoResponse /\ z = d
    BY <2>1 DEF Wrote
  <2>3. /\ OutputOwned(d) /\ d \in ClientType /\ d.foreign = FALSE
        /\ d.cgi # "none" => d.path = "cgiout"
        /\ ~TargetLost(d)
    <3>1. CASE c.cgi # "none" /\ CgiStep(c, x, d)
      <4>1. d \in ClientType /\ ~TargetLost(d)
        BY <3>1, TargetStays DEF CgiStep, Settled, Steady, Good
      <4> QED
        BY <1>1, <1>2, <3>1, <4>1 DEF CgiStep, OutputKept, OutputOwned
    <3>2. CASE d = c
      BY <1>1, <1>2, <1>9, <3>2
    <3> QED
      BY <2>2, <3>1, <3>2
  <2>4. CASE z = d
    BY <2>3, <2>4
  <2>5. CASE Cleared(d, z)
    BY <1>2, <2>3, <2>5, ClearedKept DEF OutputOwned
  <2>6. CASE Changes(d, z, {"out"})
    BY <2>3, <2>6 DEF OutputOwned, Changes, Fields
  <2>7. ASSUME NEW e, Changes(d, e, {"out"}), Steady(e), Sent(e, x, z)
        PROVE  OutputOwned(z)
    <3>1. /\ OutputOwned(e) /\ e \in ClientType /\ e.foreign = FALSE
          /\ e.cgi # "none" => e.path = "cgiout"
          /\ ~TargetLost(e)
      BY <2>3, <2>7 DEF OutputOwned, TargetLost, UnlinksBody, Succeeded,
                        Changes, Fields, Steady, Good
    <3>2. CASE Continued(e, z)
      BY <3>1, <3>2 DEF Continued, OutputOwned, Changes, Fields
    <3>3. CASE Cleared(e, z)
      BY <1>2, <3>1, <3>3, ClearedKept DEF OutputOwned
    <3>4. CASE GoesOn(e, x, z)
      <4>1. PICK g : Cleared(e, g) /\ ReadStep(g, 0, z)
        BY <3>4 DEF GoesOn
      <4>2. OutputOwned(g)
        BY <1>2, <3>1, <4>1, ClearedKept DEF OutputOwned
      <4> QED
        BY <4>1, <4>2 DEF ReadStep, OutputOwned
    <3> QED
      BY <2>7, <3>2, <3>3, <3>4 DEF Sent
  <2> QED
    BY <2>2, <2>4, <2>5, <2>6, <2>7 DEF OutStep
<1>7. CASE TimedOut(c, z)
  BY <1>7 DEF TimedOut, OutputOwned, Changes, Fields, ResponseFields
<1>8. CASE Exited(c, z)
  BY <1>8, OutputsAssumption DEF Exited, OutputTypes, OutputOwned
<1> QED
  BY <1>3, <1>4, <1>5, <1>6, <1>7, <1>8 DEF EventStep

\* The output file of a script goes away with its CGIProcess, for a peer that
\* sends no body early and scripts that print no bad status.
THEOREM TmpOutOwnedAlways ==
    ASSUME NoEarlyBody, "badstatus" \notin CgiOutputs
    PROVE  Spec => []TmpOutOwned
<1>1. Admits(Nat)
  BY RefusalsAreNat DEF Admits, OwnStatuses
<1>2. /\ Init => Ordered(client, Nat)
      /\ StepInv /\ Ordered(client, Nat) /\ [Next]_vars =>
           Ordered(client, Nat)'
  BY <1>1, OrderedInductive
<1>3. Init => OutputOwned(client)
  BY DEF Init, NewClient, OutputOwned
<1>4. StepInv /\ Ordered(client, Nat) /\ OutputOwned(client) /\ [Next]_vars
        => OutputOwned(client)'
  <2>1. CASE UNCHANGED vars
    BY <2>1 DEF vars
  <2> QED
    BY <2>1, NextOutputOwned DEF OutputOwned
<1>5. OutputOwned(client) => TmpOutOwned
  BY DEF OutputOwned, TmpOutOwned
<1> QED
  BY <1>2, <1>3, <1>4, <1>5, StepInvariant, PTL DEF Spec

\* A request that checkTO answers misses some of its input.
LEMMA TimedOutIncomplete ==
    ASSUME NEW c, Settled(c), NEW z, TimedOut(c, z), NEW S, Ordered(c, S)
    PROVE  z.pos < Size(z.kind)
<1>1. z.pos = c.pos /\ z.kind = c.kind /\ c.mode = "READ"
  BY DEF TimedOut, Changes, Fields, ResponseFields
<1>2. c \in ClientType /\ c.kind.body \in Nat /\ c.response = NoResponse
  BY <1>1 DEF Settled, Steady, Good, ClientType, KindType, ResponseMatchesMode
<1>3. ~(c.headerStatus = "ONGOING" /\ c.parser = "RLINE")
      /\ c.headerStatus # "READY" /\ ~Whole(c)
  BY <1>1, <1>2 DEF Settled, LineAnswered, Ordered
<1>4. CASE c.headerStatus = "ONGOING"
  <2>1. c.parser \in {"NEW", "ONGOING"}
    BY <1>2, <1>3, <1>4 DEF Settled, Steady, Good, ParserMatchesStatus,
                            ClientType, ParserStatuses
  <2>2. c.pos \in 0..(HeaderUnits - 1)
    BY <1>4, <2>1 DEF Settled, Steady, Good, ParserMatchesStatus, HeaderUnits
  <2> QED
    BY <1>1, <1>2, <2>2 DEF Size, HeaderUnits
<1>5. CASE c.headerStatus = "DONE"
  <2>1. c.bodyStatus = "ONGOING"
    BY <1>3, <1>5 DEF Settled, Steady, Good, ParserMatchesStatus
  <2>2. ~Final(c)
    BY <1>2 DEF Final
  <2> QED
    BY <1>1, <1>5, <2>1, <2>2 DEF Ordered, BodyOpen
<1> QED
  BY <1>2, <1>3, <1>4, <1>5 DEF ClientType, HeaderStatuses

\* A request is timed out only while some of its input is missing, for a peer
\* that sends no body early and requests that nobody refuses with a 408.
THEOREM TimeoutOnlyIncompleteAlways ==
    ASSUME NoEarlyBody,
           \A k \in Kinds : k.refuse # 408,
           \A t \in RedirTargets : t.refuse # 408
    PROVE  Spec => TimeoutOnlyIncomplete
<1> DEFINE S == Nat \ {408}
<1>1. Admits(S)
  BY RefusalsAreNat DEF Admits, OwnStatuses
<1>2. /\ Init => Ordered(client, S)
      /\ StepInv /\ Ordered(client, S) /\ [Next]_vars =>
           Ordered(client, S)'
  BY <1>1, OrderedInductive
<1>3. StepInv /\ Ordered(client, S) /\ [Next]_vars =>
        [client'.response = 408 /\ client.response # 408 =>
             client'.pos < Size(client'.kind)]_vars
  <2>1. SUFFICES ASSUME StepInv, Ordered(client, S), Next,
                        client'.response = 408, client.response # 408
                 PROVE  client'.pos < Size(client'.kind)
    OBVIOUS
  <2>2. Settled(client)
    BY <2>1 DEF StepInv
  <2>3. \/ client'.response \in {client.response, NoResponse, 100} \union S
        \/ TimedOut(client, client')
    BY <1>1, <2>1, NextKept
  <2>4. TimedOut(client, client')
    BY <2>1, <2>3 DEF NoResponse
  <2> QED
    BY <2>1, <2>2, <2>4, TimedOutIncomplete
<1> QED
  BY <1>2, <1>3, StepInvariant, PTL DEF Spec, TimeoutOnlyIncomplete

-----------------------------------------------------------------------------
(***************************************************************************)
(* The refinement of Exchange.                                             *)
(***************************************************************************)
\* The stage of a connection, case by case.
LEMMA StageOf ==
    ASSUME NEW c
    PROVE  /\ ~c.live => ExchangeStage(c) = "closed"
           /\ c.live /\ c.response # NoResponse =>
                ExchangeStage(c) = "answering"
           /\ c.live /\ c.response = NoResponse /\ c.cgi # "none" =>
                ExchangeStage(c) = "working"
           /\ c.live /\ c.response = NoResponse /\ c.cgi = "none" =>
                ExchangeStage(c) = IF c.pos = 0 THEN "idle" ELSE "reading"
BY DEF ExchangeStage

\* An answer has a status and pieces, and without one there are no pieces.
LEMMA SettledAnswer ==
    ASSUME NEW c, Settled(c)
    PROVE  /\ c.response # NoResponse => c.response \in Nat /\ c.out \in Nat \ {0}
           /\ c.response = NoResponse => c.out = 0
<1>1. c.response \in Responses /\ c.out \in Nat
  BY DEF Settled, Steady, Good, ClientType
<1>2. Queued(c) /\ ResponseMatchesMode(c)
  BY DEF Settled, Steady, Good
<1> QED
  BY <1>1, <1>2 DEF Responses, Queued, ResponseMatchesMode

\* Where writing one buffer leads when no 100 is pending.
LEMMA OutStepLeads ==
    ASSUME NEW d, Settled(d), d.response # NoResponse, d.expect = FALSE,
           NEW x, NEW z, OutStep(d, x, z)
    PROVE  \/ z.live = FALSE /\ z.response = NoResponse /\ z.out = 0
           \/ /\ z.live = d.live /\ z.response = d.response
              /\ z.out = d.out - 1 /\ d.out > 1
           \/ /\ z.live = d.live
              /\ d.response \in 200..299 /\ d.out = 1
<1>1. CASE Changes(d, z, {"out"}) /\ z.out = d.out - 1
  <2>1. z.live = d.live /\ z.response = d.response
    BY <1>1 DEF Changes, Fields
  <2>2. Settled(z)
    BY DEF OutStep
  <2>3. z.out \in Nat \ {0} /\ d.out \in Nat
    BY <2>1, <2>2, SettledAnswer
  <2> QED
    BY <1>1, <2>1, <2>3
<1>2. ASSUME NEW e, Changes(d, e, {"out"}), Sent(e, x, z), d.out = 1
      PROVE  \/ z.live = FALSE /\ z.response = NoResponse /\ z.out = 0
             \/ /\ z.live = d.live
                /\ d.response \in 200..299 /\ d.out = 1
  <2>1. e.response = d.response /\ e.live = d.live /\ e.expect = FALSE
    BY <1>2 DEF Changes, Fields
  <2> QED
    BY <1>2, <2>1 DEF Sent, Continued, GoesOn, Cleared, ReadStep
<1> QED
  BY <1>1, <1>2 DEF OutStep, Cleared

\* Without a request that expects a 100 there is none to send.
LEMMA NothingHeld ==
    ASSUME \A k \in Kinds : ~k.expect, NEW c, Settled(c), NEW S, Ordered(c, S)
    PROVE  c.expect = FALSE /\ c.response # 100
<1>1. ~c.expect
  BY DEF Ordered, HeldBound, Held, MayExpect
<1>2. c.expect \in BOOLEAN
  BY DEF Settled, Steady, Good, ClientType
<1>3. c.response # 100
  BY <1>1 DEF Settled, Steady, ExpectKept
<1> QED
  BY <1>1, <1>2, <1>3

\* Every step of the connection is a step of the exchange, or none.
LEMMA NextIsExchange ==
    ASSUME \A k \in Kinds : ~k.expect, StepInv, StepInv',
           Ordered(client, Nat), Ordered(client', Nat), Next
    PROVE  [E!Next]_(E!vars)
<1> DEFINE c == client
           z == client'
<1>1. Settled(c) /\ Settled(z)
  BY DEF StepInv
<1>2. /\ c.expect = FALSE /\ c.response # 100
      /\ z.expect = FALSE /\ z.response # 100
  BY <1>1, NothingHeld
<1>3. /\ c.response # NoResponse => c.response \in Nat /\ c.out \in Nat \ {0}
      /\ c.response = NoResponse => c.out = 0
      /\ z.response # NoResponse => z.response \in Nat /\ z.out \in Nat \ {0}
      /\ z.response = NoResponse => z.out = 0
  BY <1>1, SettledAnswer
<1>4. /\ ~c.live => ExchangeStage(c) = "closed"
      /\ c.live /\ c.response # NoResponse => ExchangeStage(c) = "answering"
      /\ c.live /\ c.response = NoResponse /\ c.cgi # "none" =>
           ExchangeStage(c) = "working"
      /\ c.live /\ c.response = NoResponse /\ c.cgi = "none" =>
           ExchangeStage(c) = IF c.pos = 0 THEN "idle" ELSE "reading"
  BY StageOf
<1>5. /\ ~z.live => ExchangeStage(z) = "closed"
      /\ z.live /\ z.response # NoResponse => ExchangeStage(z) = "answering"
      /\ z.live /\ z.response = NoResponse /\ z.cgi # "none" =>
           ExchangeStage(z) = "working"
      /\ z.live /\ z.response = NoResponse /\ z.cgi = "none" =>
           ExchangeStage(z) = IF z.pos = 0 THEN "idle" ELSE "reading"
  BY StageOf
<1>6. ExchangeStage(client)' = ExchangeStage(z)
  OBVIOUS
<1>7. ASSUME ExchangeStage(z) = ExchangeStage(c), z.response = c.response,
             z.out = c.out
      PROVE  UNCHANGED E!vars
  BY <1>6, <1>7 DEF E!vars
<1>8. ASSUME c.live, ~z.live, z.response = NoResponse, z.out = 0
      PROVE  E!Close
  BY <1>4, <1>5, <1>6, <1>8 DEF E!Close, E!Enter, E!NoAnswer, NoResponse
<1>9. ASSUME z.live PROVE E!GoOn
  BY <1>3, <1>5, <1>6, <1>9 DEF E!GoOn, E!Enter, E!StartAnswer, E!NoAnswer,
                                NoResponse
<1>10. ASSUME c.live, z.live, c.response = NoResponse, c.cgi = "none",
              z.response # NoResponse
       PROVE  E!Answer
  BY <1>3, <1>4, <1>5, <1>6, <1>10 DEF E!Answer, E!StartAnswer
<1>11. CASE EpollIn
  <2>1. PICK n \in 1..(MaxUnits - received) :
          \E x \in InWorld(c, n) : z = ReadAndRespond(c, n, x)
    BY <1>11 DEF EpollIn
  <2>2. PICK x \in InWorld(c, n) : z = ReadAndRespond(c, n, x)
    BY <2>1
  <2>3. n \in Nat /\ n > 0 /\ ReadsInput(c) /\ x \in World /\ c.live
    BY <1>11, <2>1, InWorldType DEF EpollIn
  <2>4. ReadStep(c, n, z)
    BY <1>1, <2>2, <2>3, ReadAndRespondStep
  <2>5. z.live = c.live /\ z.pos > 0 /\ z.pos # 0
    <3>1. c.buffer \in Nat
      BY <1>1 DEF Settled, Steady, Good, ClientType
    <3>2. n + c.buffer > 0
      BY <2>3, <3>1
    <3> QED
      BY <2>4, <3>2 DEF ReadStep
  <2>6. CASE c.response # NoResponse
    <3>1. z.response = c.response /\ z.out = c.out
      BY <1>2, <2>4, <2>6 DEF ReadStep
    <3> QED
      BY <1>4, <1>5, <1>7, <2>3, <2>5, <2>6, <3>1
  <2>7. CASE c.response = NoResponse /\ c.cgi # "none"
    <3>1. Whole(c)
      BY <1>1, <2>7 DEF Settled, Steady, Good, WorkIsWhole
    <3>2. z.response = c.response /\ z.out = c.out /\ z.cgi = c.cgi
      BY <2>4, <3>1 DEF ReadStep, Changes, Fields
    <3> QED
      BY <1>4, <1>5, <1>7, <2>3, <2>5, <2>7, <3>2
  <2>8. CASE c.response = NoResponse /\ c.cgi = "none"
    <3>1. CASE z.response # NoResponse
      BY <1>10, <2>3, <2>5, <2>8, <3>1 DEF E!Next
    <3>2. CASE z.response = NoResponse /\ z.cgi # "none"
      <4>1. E!Work
        BY <1>3, <1>4, <1>5, <1>6, <2>3, <2>5, <2>8, <3>2
           DEF E!Work, E!Enter, E!NoAnswer, NoResponse
      <4> QED
        BY <4>1 DEF E!Next
    <3>3. CASE z.response = NoResponse /\ z.cgi = "none" /\ c.pos = 0
      <4>1. E!Take
        BY <1>3, <1>4, <1>5, <1>6, <2>3, <2>5, <2>8, <3>3
           DEF E!Take, E!Enter, E!NoAnswer, NoResponse
      <4> QED
        BY <4>1 DEF E!Next
    <3>4. CASE z.response = NoResponse /\ z.cgi = "none" /\ c.pos # 0
      BY <1>3, <1>4, <1>5, <1>7, <2>3, <2>5, <2>8, <3>4
    <3> QED
      BY <3>1, <3>2, <3>3, <3>4
  <2> QED
    BY <2>6, <2>7, <2>8
<1>12. ASSUME c.live, Cleared(c, z), z.live = FALSE
       PROVE  E!Next
  <2>1. z.response = NoResponse /\ z.out = 0
    BY <1>12 DEF Cleared
  <2> QED
    BY <1>8, <1>12, <2>1 DEF E!Next
<1>13. CASE PeerCloses \/ EpollHup
  BY <1>1, <1>12, <1>13, TerminateStep DEF PeerCloses, EpollHup, Settled
<1>14. CASE EpollOut
  <2>1. PICK x \in OutWorld(c) : z = WriteEvent(c, x)
    BY <1>14 DEF EpollOut
  <2>2. x \in World /\ c.live
    BY <1>14, OutWorldType DEF EpollOut
  <2>3. Wrote(c, x, z)
    BY <1>1, <2>1, <2>2, WriteEventStep
  <2>4. PICK d : /\ \/ c.cgi # "none" /\ CgiStep(c, x, d)
                    \/ c.cgi = "none" /\ d = c
                 /\ \/ d.response # NoResponse /\ OutStep(d, x, z)
                    \/ d.response = NoResponse /\ z = d
    BY <2>3 DEF Wrote
  <2>5. Settled(d) /\ d.expect = FALSE /\ d.live = c.live
    <3>1. CASE c.cgi # "none" /\ CgiStep(c, x, d)
      <4>1. Settled(d) /\ ~d.expect
        BY <1>2, <3>1 DEF CgiStep
      <4>2. d.live = c.live
        BY <3>1 DEF CgiStep, Changes, Fields
      <4>3. d.expect \in BOOLEAN
        BY <4>1 DEF Settled, Steady, Good, ClientType
      <4> QED
        BY <4>1, <4>2, <4>3
    <3>2. CASE d = c
      BY <1>1, <1>2, <3>2
    <3> QED
      BY <2>4, <3>1, <3>2
  <2>6. d.response # NoResponse /\ OutStep(d, x, z) =>
           \/ z.live = FALSE /\ z.response = NoResponse /\ z.out = 0
           \/ /\ z.live = d.live /\ z.response = d.response
              /\ z.out = d.out - 1 /\ d.out > 1
           \/ /\ z.live = d.live
              /\ d.response \in 200..299 /\ d.out = 1
    BY <2>5, OutStepLeads
  <2>7. CASE c.response # NoResponse
    <3>1. d.response = c.response /\ d.out = c.out
      BY <1>2, <2>4, <2>7 DEF CgiStep
    <3>2. ASSUME z.live = c.live, z.response = c.response,
                 z.out = c.out - 1, c.out > 1
          PROVE  E!Send
      BY <1>4, <1>5, <1>6, <2>2, <2>7, <3>2 DEF E!Send
    <3>3. ASSUME z.live = c.live, c.response \in 200..299, c.out = 1
          PROVE  E!Deliver
      BY <1>4, <1>9, <2>2, <2>7, <3>3 DEF E!Deliver
    <3> QED
      BY <1>8, <2>2, <2>4, <2>5, <2>6, <2>7, <3>1, <3>2, <3>3 DEF E!Next
  <2>8. CASE c.response = NoResponse /\ c.cgi = "none"
    <3>1. z = c
      BY <2>4, <2>8
    <3> QED
      BY <1>7, <3>1
  <2>9. CASE c.response = NoResponse /\ c.cgi # "none"
    <3>1. z.live => E!Finish
      BY <1>4, <1>9, <2>2, <2>9 DEF E!Finish
    <3>2. z.live \/ (z.live = FALSE /\ z.response = NoResponse /\ z.out = 0)
      BY <2>2, <2>4, <2>5, <2>6
    <3> QED
      BY <1>8, <2>2, <3>1, <3>2 DEF E!Next
  <2> QED
    BY <2>7, <2>8, <2>9
<1>15. CASE CheckTO
  <2>0. c.live /\ c.mode = "READ"
    BY <1>15 DEF CheckTO
  <2>1. CASE ~client.request
    <3>1. Cleared(c, z) /\ z.live = FALSE
      BY <1>1, <1>15, <2>1, TerminateStep DEF CheckTO, Settled
    <3> QED
      BY <1>12, <2>0, <3>1
  <2>2. CASE client.request
    <3>1. PICK x \in InWorld(client, 0) :
             z = GenerateResponse(
                   FillError([client EXCEPT !.mode = "WRITE"], 408), 408, x)
      BY <1>15, <2>2 DEF CheckTO
    <3>2. TimedOut(c, z)
      BY <1>1, <2>0, <3>1, InWorldType, TimeOutStep
    <3>3. z.live = c.live /\ z.response # NoResponse
      BY <3>2 DEF TimedOut, Changes, Fields, ResponseFields, NoResponse
    <3>4. c.response = NoResponse
      BY <1>1, <2>0 DEF Settled, Steady, Good, ResponseMatchesMode
    <3>5. c.cgi = "none"
      <4>1. ~Whole(c)
        BY <2>0 DEF Ordered
      <4> QED
        BY <1>1, <4>1 DEF Settled, Steady, Good, WorkIsWhole
    <3> QED
      BY <1>10, <2>0, <3>3, <3>4, <3>5 DEF E!Next
  <2> QED
    BY <2>1, <2>2
<1>16. CASE ChildExits
  <2>1. Exited(c, z)
    BY <1>1, <1>16, ChildExitsStep DEF ChildExits
  <2>2. /\ z.live = c.live /\ z.response = c.response /\ z.out = c.out
        /\ c.cgi # "none"
    BY <2>1 DEF Exited, Changes, Fields
  <2>3. z.cgi # "none"
    BY <2>1, OutputsAssumption DEF Exited, OutputTypes
  <2>4. ExchangeStage(z) = ExchangeStage(c)
    BY <1>4, <1>5, <2>2, <2>3
  <2> QED
    BY <1>7, <2>2, <2>4
<1> QED
  BY <1>11, <1>13, <1>14, <1>15, <1>16 DEF Next

\* For a peer that expects no 100 the connection implements the exchange, for
\* every set of requests, script outputs and redirections: one answer per
\* request, sent to its end before the next request is taken, and nothing
\* served after a refusal.
THEOREM ImplementsExchangeAlways ==
    ASSUME \A k \in Kinds : ~k.expect
    PROVE  Spec => ImplementsExchange
<1>1. Admits(Nat)
  BY RefusalsAreNat DEF Admits, OwnStatuses, NoEarlyBody
<1>2. /\ Init => Ordered(client, Nat)
      /\ StepInv /\ Ordered(client, Nat) /\ [Next]_vars =>
           Ordered(client, Nat)'
  BY <1>1, OrderedInductive
<1>3. Init => E!Init
  BY StageOf DEF Init, NewClient, E!Init, E!NoAnswer, NoResponse
<1>4. /\ StepInv /\ Ordered(client, Nat) /\ [Next]_vars
      /\ StepInv' /\ Ordered(client, Nat)'
      => [E!Next]_(E!vars)
  <2>1. CASE UNCHANGED vars
    BY <2>1 DEF vars, E!vars
  <2> QED
    BY <2>1, NextIsExchange
<1> QED
  BY <1>2, <1>3, <1>4, StepInvariant, PTL DEF Spec, ImplementsExchange, E!Spec
=============================================================================
