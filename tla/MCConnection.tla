---------------------------- MODULE MCConnection ----------------------------
(* Requests, CGI outputs and bounds to check Connection with. *)
EXTENDS Connection

Get == [NoKind EXCEPT !.type = "static"]
GetClose == [Get EXCEPT !.close = TRUE]
GetDir == [Get EXCEPT !.type = "dir"]
Delete == [Get EXCEPT !.method = "DELETE"]
Put == [Get EXCEPT !.method = "PUT", !.body = 1]
PutEmpty == [Put EXCEPT !.body = 0, !.target = "old"]
PutDenied == [Put EXCEPT !.target = "denied"]
PutExpect == [Put EXCEPT !.expect = TRUE, !.target = "old"]
Cgi == [Get EXCEPT !.type = "cgi"]
CgiBody == [Cgi EXCEPT !.method = "PUT", !.body = 2]
CgiExpect == [CgiBody EXCEPT !.expect = TRUE, !.body = 1]
GetExpect == [Get EXCEPT !.expect = TRUE]
BadLine == [NoKind EXCEPT !.at = "line", !.refuse = 505]
BadField == [Get EXCEPT !.at = "field", !.refuse = 400]
BadFieldExpect == [PutExpect EXCEPT !.at = "field", !.refuse = 400]
HeaderTooLarge == [Get EXCEPT !.at = "field", !.refuse = 431]
BadMedia == [Get EXCEPT !.at = "early", !.refuse = 415]
NotFound == [Get EXCEPT !.at = "late", !.refuse = 404, !.body = 1]
Moved == [Get EXCEPT !.at = "late", !.refuse = 301]
TooLarge == [CgiBody EXCEPT !.at = "body", !.refuse = 413]

\* A peer that keeps to the protocol.
PlainKinds ==
    {Get, GetClose, GetDir, Delete, Put, PutEmpty, PutDenied, PutExpect, Cgi,
     CgiBody, CgiExpect, GetExpect, BadLine, BadField, HeaderTooLarge,
     BadMedia, NotFound, Moved, TooLarge}

\* No request of this peer expects a 100.
NoExpectKinds ==
    {Get, GetClose, GetDir, Delete, Put, Cgi, CgiBody, BadLine, BadField,
     NotFound, TooLarge}

CgiKinds == {Get, Cgi, CgiBody}

\* Every way of refusing, expecting and ending, for the general invariants.
AnyKinds ==
    {Get, Delete, Put, PutEmpty, PutDenied, PutExpect, CgiExpect, CgiBody,
     GetExpect, BadLine, BadField, BadFieldExpect, HeaderTooLarge, NotFound,
     TooLarge}

PlainOutputs == {"doc", "redirect", "empty"}
MalformedOutputs == {"doc", "malformed"}
AnyOutputs == OutputTypes
WellFormedOutputs == OutputTypes \ {"malformed"}

NoTargets == {}
AnyTargets ==
    {[at |-> "ok", refuse |-> 400, type |-> "static"],
     [at |-> "ok", refuse |-> 400, type |-> "cgi"],
     [at |-> "late", refuse |-> 404, type |-> "static"]}
=============================================================================
