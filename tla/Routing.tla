------------------------------ MODULE Routing -------------------------------
(***************************************************************************)
(* What a request asks for: Request::parseURI cuts its URI, and            *)
(* Host::checkRequest finds the location and the CGI block that govern it, *)
(* its type, and whether it is refused.  The steps of checkRequest are     *)
(* actions; a script's local redirection sends the same Request through    *)
(* them again with another URI.                                            *)
(*                                                                         *)
(* A URI is a sequence of symbols: "http://" or another scheme, "@", "/",  *)
(* "?", ".", "..", names and extensions, and escapes of these ("%2e%2e"    *)
(* for ".."), which parseURI decodes at its end.                           *)
(***************************************************************************)
EXTENDS UriMatch

CONSTANTS
    Hosts,      \* hosts a request may be meant for
    Uris,       \* URIs of requests
    Targets     \* URIs of local redirections

Methods == {"GET", "POST", "PUT", "DELETE", "HEAD"}

\* The statuses a location may redirect with; 0 is no redirection.
Redirections == {0, 300, 301, 302, 303, 307, 308}

\* A location, named by one expression; defaultUri = <<>> is none.
LocationType ==
    [name : Seq(STRING), methods : SUBSET Methods, dirListing : BOOLEAN,
     defaultUri : Seq(STRING), upload : BOOLEAN, redir : Redirections]

\* A CGI block; extension is its identifier, short the number of symbols that
\* one character less than it has take.
CgiType ==
    [name : Seq(STRING), methods : SUBSET Methods, extension : STRING,
     short : Nat]

\* locations and cgis are in the order of the maps that hold them; every
\* host has the location "*" (IParseConfig::checkHost).
ASSUME HostsAssumption ==
    \A h \in Hosts :
        /\ h.locations \in Seq(LocationType)
        /\ h.cgis \in Seq(CgiType)
        /\ \E i \in DOMAIN h.locations : h.locations[i].name = Star

ASSUME UrisAssumption == Uris \subseteq Seq(STRING) /\ Targets \subseteq Seq(STRING)

VARIABLES host, request, pc, res

vars == <<host, request, pc, res>>

\* checkRequest runs from "match" to "done"; res is its result, 0, the status
\* of a refusal, or Thrown when an exception ends the program.
Thrown == 1
Steps == {"parse", "match", "redir", "dir", "location", "cgi", "resource",
          "done"}

Types == {"none", "cgi", "static", "dir"}

-----------------------------------------------------------------------------
(***************************************************************************)
(* Request::parseURI.                                                      *)
(***************************************************************************)
\* The position of the first s in u, from 1; 0 without one.
First(u, s) == IF s \in Range(u) THEN Min({i \in DOMAIN u : u[i] = s}) ELSE 0

Schemes == {"http://", "ftp://"}

\* Only the first scheme is looked at.
BadScheme(u) ==
    \E i \in DOMAIN u :
        /\ u[i] \in Schemes
        /\ \A j \in 1..(i - 1) : u[j] \notin Schemes
        /\ ~(i = 1 /\ u[1] = "http://")

PruneScheme(u) == IF u # <<>> /\ u[1] = "http://" THEN Tail(u) ELSE u

\* Everything up to the first delimiter goes, unless that is the last symbol.
PruneDelim(u, delim) ==
    LET i == First(u, delim)
    IN IF i # 0 /\ i # Len(u) THEN SubSeq(u, i + 1, Len(u)) ELSE u

ExtractPath(u) == IF First(u, "?") = 0 THEN u ELSE SubSeq(u, 1, First(u, "?") - 1)

\* The pieces of a path between its slashes, and the path they make.
AddSymbol(ss, s) ==
    IF s = "/" THEN Append(ss, <<>>) ELSE [ss EXCEPT ![Len(ss)] = Append(@, s)]
Segments(p) ==
    LET S[n \in 0..Len(p)] ==
            IF n = 0 THEN <<<<>>>> ELSE AddSymbol(S[n - 1], p[n])
    IN S[Len(p)]
Join(ss) ==
    LET P[n \in 0..Len(ss)] == IF n = 0 THEN <<>> ELSE P[n - 1] \o <<"/">> \o ss[n]
    IN Tail(P[Len(ss)])

\* One leading "./" goes.
DropDot(ss) == IF Len(ss) > 1 /\ ss[1] = <<".">> THEN Tail(ss) ELSE ss

\* The empty pieces and the "." inside go.
Compact(ss) ==
    LET C[n \in 0..Len(ss)] ==
            IF n = 0 THEN <<>>
            ELSE IF n \in 2..(Len(ss) - 1) /\ ss[n] \in {<<>>, <<".">>}
            THEN C[n - 1]
            ELSE Append(C[n - 1], ss[n])
    IN C[Len(ss)]

\* Mutant: a ".." inside the path is kept.
MutClimb(ss) == [ok |-> TRUE, v |-> Front(ss)]

\* The loop over all pieces but the last: ".." takes the one before away,
\* and is refused when there is none; then the pieces behind it are left.
ClimbStep(r, s) ==
    IF ~r.ok \/ s # <<"..">> THEN [r EXCEPT !.v = Append(@, s)]
    ELSE IF r.v = <<>> THEN [r EXCEPT !.ok = FALSE]
    ELSE [r EXCEPT !.v = Front(@)]
Climb(ss) ==
    LET C[n \in 0..(Len(ss) - 1)] ==
            IF n = 0 THEN [ok |-> TRUE, v |-> <<>>] ELSE ClimbStep(C[n - 1], ss[n])
    IN C[Len(ss) - 1]

\* checkPath: the new path, or a refusal and what it leaves of the path.
CheckPath(p) ==
    LET ss == Compact(DropDot(Segments(p)))
        r == Climb(ss)
    IN [ok |-> r.ok, path |-> Join(Append(r.v, Last(ss)))]

\* prunePath: the uri stands for a folder, and the folder of an upload.
IsDir(p) == p = <<>> \/ Last(p) = "/"

\* prunePercent, once checkPath and prunePath are done.
Escapes ==
    {<<"%2e", ".">>, <<"%2e%2e", "..">>, <<"%2f", "/">>, <<"%61", "a">>}
Decoded(s) ==
    IF \E e \in Escapes : e[1] = s THEN (CHOOSE e \in Escapes : e[1] = s)[2] ELSE s
Decode(p) == [i \in DOMAIN p |-> Decoded(p[i])]

UriPath(u) == ExtractPath(PruneDelim(PruneDelim(PruneScheme(u), "@"), "/"))

\* parseURI on the request's _uri; res is the status of a refusal.
ParseURI(q0) ==
    LET q == [q0 EXCEPT !.pathInfo = <<>>]
        c == CheckPath(UriPath(q.uri))
    IN IF BadScheme(q.uri) THEN [q |-> [q EXCEPT !.status = 400], res |-> 400]
       ELSE IF ~c.ok
       THEN [q |-> [q EXCEPT !.status = 400, !.path = c.path], res |-> 400]
       ELSE [q |-> [q EXCEPT !.path = Decode(c.path), !.dir = IsDir(c.path)],
             res |-> 0]

-----------------------------------------------------------------------------
(***************************************************************************)
(* Matching.                                                               *)
(***************************************************************************)
Names(rules) == [i \in DOMAIN rules |-> rules[i].name]

\* matchLocation and matchCGIConfig: the index of the rules, 0 for NULL.
MatchRules(rules, p) ==
    LET best == GetObjectMatch(Names(rules), p)
    IN IF best = <<>> THEN 0
       ELSE CHOOSE i \in DOMAIN rules : rules[i].name = best

\* Where the path info starts: behind the last identifier.  Without one rfind's
\* npos, one before the start, is taken for a position.
ScriptEnd(q, h) ==
    LET k == h.cgis[q.cgi]
        i == RFind(q.path, <<k.extension>>)
    IN IF i = NotFound THEN k.short ELSE i + 1

\* Mutant: the location of a script is the one of the uri with its path info.
MutExtractPathInfo(q, h) ==
    LET end == ScriptEnd(q, h)
    IN [q EXCEPT !.path = SubSeq(@, 1, end), !.dir = FALSE,
                 !.pathInfo = SubSeq(q.path, end + 1, Len(q.path))]

\* The uri is cut after the last identifier of the script; when a path
\* follows it, the location is the one of the script.
ExtractPathInfo(q, h) ==
    LET end == ScriptEnd(q, h)
        d == [q EXCEPT !.path = SubSeq(@, 1, end), !.dir = FALSE,
                       !.pathInfo = SubSeq(q.path, end + 1, Len(q.path))]
    IN IF "/" \in Range(d.pathInfo)
       THEN [d EXCEPT !.loc = MatchRules(h.locations, d.path)] ELSE d

MatchRequest(q0, h) ==
    LET q == [q0 EXCEPT !.loc = MatchRules(h.locations, q0.path),
                        !.cgi = MatchRules(h.cgis, q0.path)]
    IN IF q.loc = 0 /\ q.cgi = 0
       THEN [q |-> [q EXCEPT !.status = 404, !.type = "none"], res |-> 404]
       ELSE IF q.cgi # 0 /\ ScriptEnd(q, h) > Len(q.path)
       THEN [q |-> [q EXCEPT !.type = "cgi"], res |-> Thrown]
       ELSE IF q.cgi # 0
       THEN [q |-> ExtractPathInfo([q EXCEPT !.type = "cgi"], h), res |-> 0]
       ELSE [q |-> [q EXCEPT !.type = IF q.dir THEN "dir" ELSE "static"],
             res |-> 0]

Location(q, h) == h.locations[q.loc]

\* parseURI(default_uri) appends to the whole uri.
AppendDefault(q, h) == [q EXCEPT !.uri = @ \o Location(q, h).defaultUri]

\* Mutant: the listing prevails over the default uri.
MutCheckDir(q, h) ==
    IF Location(q, h).dirListing
    THEN IF q.method = "GET" THEN [q |-> q, res |-> 0]
         ELSE [q |-> [q EXCEPT !.status = 403], res |-> 403]
    ELSE IF Location(q, h).defaultUri # <<>>
    THEN MatchRequest(ParseURI(AppendDefault(q, h)).q, h)
    ELSE [q |-> q, res |-> 0]

\* checkDirRessource; the result of parseURI is not looked at.
CheckDir(q, h) ==
    IF Location(q, h).defaultUri # <<>>
    THEN MatchRequest(ParseURI(AppendDefault(q, h)).q, h)
    ELSE IF Location(q, h).dirListing /\ q.method # "GET"
    THEN [q |-> [q EXCEPT !.status = 403], res |-> 403]
    ELSE [q |-> q, res |-> 0]

-----------------------------------------------------------------------------
(***************************************************************************)
(* The rules.  Each check gives 0 or the status of the refusal.            *)
(***************************************************************************)
Uploads(q) == q.method \in {"POST", "PUT"}

LocationRules(q, h) ==
    IF q.method \notin Location(q, h).methods THEN 405
    ELSE IF Uploads(q) /\ q.type = "static" /\ ~Location(q, h).upload THEN 403
    ELSE 0

CgiRules(q, h) == IF q.method \notin h.cgis[q.cgi].methods THEN 405 ELSE 0

\* What stat() and access() find: nothing, a file or a folder, readable or not.
Found == {"none", "file", "dir", "secret_file", "secret_dir"}

\* checkRessourcePath for a folder or a file; readable is R_OK asked for.
RessourcePath(f, folder, readable) ==
    IF f = "none" THEN 404
    ELSE IF ~folder /\ f \notin {"file", "secret_file"} THEN 403
    ELSE IF folder /\ f \notin {"dir", "secret_dir"} THEN 404
    ELSE IF readable /\ f \in {"secret_file", "secret_dir"} THEN 403
    ELSE 0

\* checkRessourceExistence: an upload needs its folder, the rest itself.
RessourceExistence(q, f) ==
    IF q.type # "cgi" /\ Uploads(q) THEN RessourcePath(f, TRUE, FALSE)
    ELSE RessourcePath(f, q.type = "dir", TRUE)

-----------------------------------------------------------------------------
(***************************************************************************)
(* The steps.                                                              *)
(***************************************************************************)
NewRequest(uri, method) ==
    [uri |-> uri, method |-> method, path |-> <<>>, dir |-> FALSE,
     pathInfo |-> <<>>, type |-> "none", loc |-> 0, cgi |-> 0, status |-> 0,
     folder |-> 0]

\* Go on with the next step, or stop with a refusal.
Go(r, next) ==
    /\ request' = r.q
    /\ res' = r.res
    /\ pc' = IF r.res = 0 THEN next ELSE "done"
    /\ UNCHANGED host

\* A check that only gives a status.
Refuse(st) ==
    [q |-> IF st = 0 THEN request ELSE [request EXCEPT !.status = st],
     res |-> st]

Parse == pc = "parse" /\ Go(ParseURI(request), "match")

Match == pc = "match" /\ Go(MatchRequest(request, host), "redir")

\* checkRedirection.
Redirect ==
    /\ pc = "redir"
    /\ Go(Refuse(IF request.loc # 0 THEN Location(request, host).redir ELSE 0),
          "dir")

\* folder keeps the location of the folder, for the properties.
Dir ==
    /\ pc = "dir"
    /\ IF request.type = "dir"
       THEN Go(CheckDir([request EXCEPT !.folder = request.loc], host), "location")
       ELSE Go(Refuse(0), "location")

LocationCheck ==
    /\ pc = "location"
    /\ Go(Refuse(IF request.loc # 0 THEN LocationRules(request, host) ELSE 0),
          "cgi")

CgiCheck ==
    /\ pc = "cgi"
    /\ Go(Refuse(IF request.type = "cgi" THEN CgiRules(request, host) ELSE 0),
          "resource")

Resource ==
    /\ pc = "resource"
    /\ \E f \in Found :
         LET st == RessourceExistence(request, f)
         IN Go([q |-> [request EXCEPT !.status = st], res |-> st], "done")

\* A script asks for another resource: setUri, then handleRequestHeaders.
LocalRedirect ==
    /\ pc = "done"
    /\ res = 0
    /\ request.type = "cgi"
    /\ \E u \in Targets : request' = [request EXCEPT !.uri = u, !.folder = 0]
    /\ pc' = "parse"
    /\ UNCHANGED <<host, res>>

Init ==
    /\ host \in Hosts
    /\ \E u \in Uris, m \in Methods : request = NewRequest(u, m)
    /\ pc = "parse"
    /\ res = 0

Next == Parse \/ Match \/ Redirect \/ Dir \/ LocationCheck \/ CgiCheck
          \/ Resource \/ LocalRedirect

Spec == Init /\ [][Next]_vars

\* checkRequest has accepted the request.
Accepted == pc = "done" /\ res = 0

-----------------------------------------------------------------------------
(***************************************************************************)
(* Properties.                                                             *)
(***************************************************************************)
\* The uri has been parsed and matched.
Matched == pc \notin {"parse", "match"}

\* Where a path leads from the root: every piece walked one by one.
WalkStep(v, s) ==
    IF s \in {<<>>, <<".">>} THEN v
    ELSE IF s # <<"..">> THEN Append(v, s)
    ELSE IF v = <<>> THEN v ELSE Front(v)
WalkPieces(ss) ==
    LET W[n \in 0..Len(ss)] == IF n = 0 THEN <<>> ELSE WalkStep(W[n - 1], ss[n])
    IN W[Len(ss)]
Walk(p) == WalkPieces(Segments(p))

\* No dot and no slash of the path is escaped.
Open(p) ==
    \A s \in Range(p) : Decoded(s) \in {".", "..", "/"} => Decoded(s) = s

\* parseURI changes how a path is written, never where it leads, whatever
\* "//", "." and ".." it is written with; and no ".." is left but at its end.
\* That is for a URI that escapes none of its dots and slashes: checkPath does
\* not see these, and they are decoded behind it.
PathLeadsSame ==
    pc = "match" /\ Open(request.uri) =>
        /\ Walk(request.path) = Walk(Decode(UriPath(request.uri)))
        /\ \A i \in DOMAIN Front(Segments(request.path)) :
               Segments(request.path)[i] # <<"..">>

\* A name with wildcards matches only what it stands for, and all of it unless
\* it has two "*" in a row or one of its literal pieces occurs in the path twice
\* (or it is empty, as only a quoted name can be: "" matches no path at all).
MatchIsGlob ==
    pc = "match" =>
        \A e \in Range(Names(host.locations)) \union Range(Names(host.cgis)) :
            /\ Matches(request.path, e) => Glob(request.path, e)
            /\ Glob(request.path, e) =>
                  \/ Matches(request.path, e)
                  \/ Ambiguous(request.path, e)
                  \/ Doubled(e) \/ e = <<>>

\* The location is the closest one: whatever the order of the map, no other
\* name that matches is better than the one getObjectMatch ends with.
ClosestLocation ==
    pc = "match" =>
        LET best == GetObjectMatch(Names(host.locations), request.path)
        IN \A e \in Range(Names(host.locations)) :
               e # best => ~IsUriMatch(request.path, e, best)

\* The location whose rules apply to what is served in the end.
Governs(l) ==
    \/ l = MatchRules(host.locations, request.path)
    \/ /\ request.pathInfo # <<>>
       /\ "/" \notin Range(request.pathInfo)
       /\ l = MatchRules(host.locations, request.path \o request.pathInfo)

\* An accepted request keeps to the rules of the location that its final path
\* is closest to, and of its CGI block: also when a default uri, a path info
\* or a local redirection has moved it there from another location.
AcceptedIsAllowed ==
    Accepted =>
        /\ Governs(request.loc)
        /\ request.method \in Location(request, host).methods
        /\ request.type = "cgi" => request.method \in host.cgis[request.cgi].methods
        /\ request.type = "static" /\ Uploads(request) =>
              Location(request, host).upload

\* A uri that stands for a file: no folder, query or scheme.
NamesFile(u) ==
    u # <<>> /\ Last(u) # "/" /\ Range(u) \intersect ({"?"} \union Schemes) = {}

\* checkPath refuses the path.
ClimbsOut(u) == ~CheckPath(UriPath(u)).ok

\* A folder whose default uri names a file is answered with it and never
\* listed, unless the uri has a query, to which the default uri is appended, or
\* climbs out of the root with it: that refusal of parseURI is not looked at.
FolderGetsDefault ==
    /\ Accepted
    /\ request.folder # 0
    /\ NamesFile(host.locations[request.folder].defaultUri)
    => \/ request.type # "dir"
       \/ "?" \in Range(request.uri)
       \/ ClimbsOut(request.uri)
=============================================================================
