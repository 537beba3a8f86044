------------------------------- MODULE Config -------------------------------
(***************************************************************************)
(* IParseConfig: the configuration file read into hosts, and the listening *)
(* servers their ports ask for, up to the start of the event loop.  One    *)
(* step is one turn of a parse loop: one directive of the file, of a       *)
(* server block, or of a location or cgi block.                            *)
(*                                                                         *)
(* A file is a sequence of tokens: words, the delimiters "{", "}" and ";", *)
(* "#" which opens a comment and "\n" which closes it.  A comment follows  *)
(* a delimiter or a space, blocks are laid out over lines, the file ends   *)
(* with a line feed, and no word is quoted.  The files checked are Base    *)
(* with one token removed, replaced or added, or two neighbours swapped.   *)
(***************************************************************************)
EXTENDS Integers, Sequences, FiniteSets, SequencesExt

CONSTANTS
    Base,           \* a configuration without errors
    Expected,       \* its server blocks: [open, close, host, blocks]
    Edits,          \* what is changed in it, [at, kind, token]
    Number,         \* the words getInt accepts, and their values
    Unbindable,     \* pairs of address and port that cannot be bound
    Unlistenable    \* pairs that bind and then cannot listen

\* Tokens are strings; an edit is at a token of Base, or behind the last one.
ASSUME ConfigAssumption ==
    /\ Base \in Seq(STRING)
    /\ \A e \in Edits :
           /\ e.kind \in {"none", "remove", "replace", "insert", "swap"}
           /\ e.at \in 1..(Len(Base) + 1)
           /\ e.kind \in {"remove", "replace"} => e.at <= Len(Base)
           /\ e.kind = "swap" => e.at < Len(Base)
           /\ e.token \in STRING

Delims == {"{", "}", ";"}

Methods == {"GET", "POST", "PUT", "DELETE", "HEAD"}

VARIABLES
    edit,           \* the edit of Base that gives the file
    level,          \* the innermost parse loop: "file", "host" or "block"
    rest,           \* what each loop has yet to read
    host,           \* the Host being filled
    block,          \* the Location or CGIConfig being filled
    errorPages,     \* IParseConfig::default_error_pages
    error,          \* IParseConfig::error
    hosts,          \* Host::_hostList
    servers,        \* _serverList: [<<addr, port>> -> _hostMap]
    outcome         \* how far main has come

vars == <<edit, level, rest, host, block, errorPages, error, hosts, servers,
          outcome>>

Outcomes ==
    {"parsing", "returned 0", "returned 1", "running", "exited", "aborted"}

-----------------------------------------------------------------------------
(***************************************************************************)
(* Reading the stream.                                                     *)
(***************************************************************************)
From(s, i) == SubSeq(s, i, Len(s))

\* The first index of s that satisfies P, or the one behind its end.
FirstAt(s, P(_)) ==
    CHOOSE i \in 1..(Len(s) + 1) :
        /\ i <= Len(s) => P(i)
        /\ \A j \in 1..(i - 1) : ~P(j)

\* What skipSpace and skipComment pass over.
Blank(s, i) ==
    \/ s[i] = "\n"
    \/ \E j \in 1..i : s[j] = "#" /\ \A k \in j..i : s[k] # "\n"

SkipBlank(s) == From(s, FirstAt(s, LAMBDA i : ~Blank(s, i)))

\* ret is "word", the delimiter met, which stays in the stream, or "eof".
getNextWord(s) ==
    LET t == SkipBlank(s)
    IN IF t = <<>> THEN [ret |-> "eof", word |-> "", rest |-> t]
       ELSE IF Head(t) \in Delims
            THEN [ret |-> Head(t), word |-> "", rest |-> t]
            ELSE [ret |-> "word", word |-> Head(t), rest |-> Tail(t)]

\* parseValues: the words up to a delimiter or the end.
parseValues(s) ==
    LET stop == FirstAt(s, LAMBDA i : s[i] \in Delims /\ ~Blank(s, i))
        read == {i \in 1..(stop - 1) : ~Blank(s, i)}
    IN [words |-> [n \in 1..Cardinality(read) |->
                      s[CHOOSE i \in read : Cardinality({j \in read : j <= i}) = n]],
        rest |-> From(s, stop)]

\* checkSemiColon skips spaces and no comment.
SkipSpace(s) == From(s, FirstAt(s, LAMBDA i : s[i] # "\n"))

checkSemiColon(s) == SkipSpace(s) # <<>> /\ Head(SkipSpace(s)) = ";"

AfterSemiColon(s) == Tail(SkipSpace(s))

\* How many braces are open behind the first i tokens; those of comments count.
Depth(s, i) ==
    Cardinality({j \in 1..i : s[j] = "{"}) - Cardinality({j \in 1..i : s[j] = "}"})

\* getNextBlock: what the next pair of braces encloses, wherever it starts.
\* The result is "block", or the exception.
getNextBlock(s) ==
    LET close == FirstAt(s, LAMBDA i : s[i] = "}" /\ Depth(s, i) <= 0)
        open == FirstAt(s, LAMBDA i : s[i] = "{")
        result == CASE close > Len(s) /\ open > Len(s)  -> "LastBlock"
                    [] close > Len(s) /\ open <= Len(s) -> "UnclosedBlock"
                    [] close <= Len(s) /\ open > close  -> "UnexpectedBrace"
                    [] close <= Len(s) /\ open <= close -> "block"
    IN [result |-> result,
        block |-> IF result = "block" THEN SubSeq(s, open + 1, close - 1) ELSE <<>>,
        rest |-> From(s, close + 1)]

-----------------------------------------------------------------------------
(***************************************************************************)
(* The directives.  Each gives [ok, obj, rest]: whether it raised no       *)
(* exception, the object filled in and what is left of the stream.  A path *)
(* is the sequence of the words it was made of, <<>> the empty one.        *)
(***************************************************************************)
Raise(obj) == [ok |-> FALSE, obj |-> obj, rest |-> <<>>]

\* parsePath, parseUri, parseExtension: the word is added to what is there.
AppendWord(obj, field, s) ==
    LET w == getNextWord(s)
        v == IF w.ret = "word" THEN Append(obj[field], w.word) ELSE obj[field]
    IN [ok |-> v # <<>>, obj |-> [obj EXCEPT ![field] = v], rest |-> w.rest]

\* The one word of s, when it is one that the directive gives a meaning.
SetWord(obj, field, s, meaning) ==
    LET w == getNextWord(s)
    IN IF w.ret = "word" /\ w.word \in DOMAIN meaning
       THEN [ok |-> TRUE, obj |-> [obj EXCEPT ![field] = meaning[w.word]],
             rest |-> w.rest]
       ELSE Raise(obj)

parseBoolean(obj, field, s) ==
    SetWord(obj, field, s, [w \in {"on", "off"} |-> w = "on"])

parseAllowedMethods(obj, s) ==
    LET v == parseValues(s)
    IN [ok |-> ToSet(v.words) \subseteq Methods,
        obj |-> [obj EXCEPT !.methods = ToSet(v.words)],
        rest |-> v.rest]

parseRedirection(location, s) ==
    LET v == parseValues(s)
        ok == /\ Len(v.words) >= 2
              /\ v.words[1] \in DOMAIN Number
              /\ Number[v.words[1]] \in (300..303) \union {307, 308}
    IN IF ok THEN [ok |-> TRUE, rest |-> v.rest,
                   obj |-> [location EXCEPT !.redir = Number[v.words[1]],
                                            !.addr_redir = @ \o Tail(v.words)]]
       ELSE Raise(location)

handleLocationToken(token, s, location) ==
    CASE token \in {"root", "default_uri", "upload_root"} ->
             AppendWord(location, token, s)
      [] token = "methods"     -> parseAllowedMethods(location, s)
      [] token = "dir_listing" -> parseBoolean(location, "dir_listing", s)
      [] token = "upload"      -> parseBoolean(location, "upload", s)
      [] token = "return"      -> parseRedirection(location, s)
      [] OTHER                 -> Raise(location)

handleCGIConfigToken(token, s, cgi) ==
    CASE token \in {"root", "exec"} -> AppendWord(cgi, token, s)
      [] token = "methods"          -> parseAllowedMethods(cgi, s)
      [] token = "identifier"       -> AppendWord(cgi, "extension", s)
      [] OTHER                      -> Raise(cgi)

parsePorts(h, s) ==
    LET v == parseValues(s)
    IN [ok |-> v.words # <<>> /\ ToSet(v.words) \subseteq DOMAIN Number,
        obj |-> [h EXCEPT !.ports = @ \union ToSet(v.words)],
        rest |-> v.rest]

parseServerName(h, s) ==
    LET v == parseValues(s)
        names == h.names \o v.words
    IN [ok |-> names # <<>>, obj |-> [h EXCEPT !.names = names], rest |-> v.rest]

\* The directives of a server block that hold no block.
handleHostToken(token, s, h) ==
    CASE token = "listen"        -> parsePorts(h, s)
      [] token = "host"          -> SetWord(h, "addr", s, [w \in ToSet(s) |-> w])
      [] token = "server_name"   -> parseServerName(h, s)
      [] token = "error_pages"   -> AppendWord(h, "errors", s)
      [] token = "body_max_size" -> SetWord(h, "size", s, Number)
      [] OTHER                   -> Raise(h)

\* The directives that give parsePath, parseUri or parseBoolean no id for the
\* message: without a value, making the message raises std::logic_error instead.
NullId(kind, token, obj, s) ==
    /\ getNextWord(s).ret # "word"
    /\ \/ kind = "host" /\ token = "error_pages" /\ obj.errors = <<>>
       \/ kind = "cgi" /\ token = "exec" /\ obj.exec = <<>>
       \/ kind = "location" /\ token = "default_uri" /\ obj.default_uri = <<>>
       \/ kind = "location" /\ token \in {"dir_listing", "upload"}

\* INT32_MAX, the size of a host without body_max_size.
MaxBodySize == 2147483647

NewHost ==
    [addr |-> "localhost", ports |-> {}, size |-> MaxBodySize, errors |-> <<>>,
     names |-> <<>>, locations |-> [n \in {} |-> {}], cgis |-> [n \in {} |-> {}]]

NewLocation ==
    [root |-> <<>>, methods |-> {"GET", "HEAD"}, dir_listing |-> FALSE,
     default_uri |-> <<>>, upload |-> FALSE, upload_root |-> <<>>, redir |-> 0,
     addr_redir |-> <<>>]

\* The constructor stores the index of GET, 0, as a set of methods.
NewCGIConfig ==
    [root |-> <<>>, methods |-> {}, exec |-> <<>>, extension |-> <<>>]

\* addLocation and addCGIConfig: an object equal to one kept is shared, which
\* no reader can tell.
Named(map, names, obj) ==
    [n \in DOMAIN map \union ToSet(names) |->
        IF n \in ToSet(names) THEN obj ELSE map[n]]

-----------------------------------------------------------------------------
(***************************************************************************)
(* Registering a host.                                                     *)
(***************************************************************************)
Endpoints(h) == {<<h.addr, p>> : p \in h.ports}

\* Mutant: only the first name of the host is looked up.
MutcheckServerNames(h) ==
    \A e \in Endpoints(h) \intersect DOMAIN servers :
        h.names[1] \notin DOMAIN servers[e]

checkServerNames(h) ==
    \A e \in Endpoints(h) \intersect DOMAIN servers :
        \A n \in ToSet(h.names) : n \notin DOMAIN servers[e]

checkHost(h) ==
    /\ h.addr # ""
    /\ h.ports # {}
    /\ h.names # <<>>
    /\ "*" \in DOMAIN h.locations
    /\ checkServerNames(h)

\* assignHost keeps the names already there.
assignHost(map, h, id) ==
    [n \in DOMAIN map \union ToSet(h.names) |->
        IF n \in DOMAIN map THEN map[n] ELSE id]

\* registerHost: every port joins its server or makes one; one that cannot be
\* bound is skipped and the others go on.
registerHost(h, id) ==
    LET opened == Endpoints(h) \ Unbindable
        old(e) == IF e \in DOMAIN servers THEN servers[e] ELSE [n \in {} |-> 0]
    IN [e \in DOMAIN servers \union opened |->
           IF e \in Endpoints(h) THEN assignHost(old(e), h, id) ELSE servers[e]]

-----------------------------------------------------------------------------
(***************************************************************************)
(* The parse loops.                                                        *)
(***************************************************************************)
Apply(e) ==
    CASE e.kind = "none"    -> Base
      [] e.kind = "remove"  -> RemoveAt(Base, e.at)
      [] e.kind = "replace" -> ReplaceAt(Base, e.at, e.token)
      [] e.kind = "insert"  -> InsertAt(Base, e.at, e.token)
      [] e.kind = "swap"    -> [Base EXCEPT ![e.at] = Base[e.at + 1],
                                            ![e.at + 1] = Base[e.at]]

Init ==
    /\ edit \in Edits
    /\ level = "file"
    /\ rest = [file |-> Apply(edit), host |-> <<>>, block |-> <<>>]
    /\ host = NewHost
    /\ block = [kind |-> "none"]
    /\ errorPages = <<>>
    /\ error = FALSE
    /\ hosts = <<>>
    /\ servers = [e \in {} |-> {}]
    /\ outcome = "parsing"

Parsing(l) == outcome = "parsing" /\ level = l

\* The end of parseConfigFile without an exception, or with LastBlock.
EndOfFile ==
    /\ outcome' = IF errorPages = <<>> THEN "exited" ELSE "returned 0"
    /\ UNCHANGED <<level, rest, host, block, errorPages, error, hosts, servers>>

\* Mutant: the exception is swallowed and the loop goes on where it was.
MutFileError ==
    UNCHANGED <<level, rest, host, block, errorPages, error, hosts, servers, outcome>>

\* An exception that reaches parseConfigFile.
FileError ==
    /\ outcome' = "returned 1"
    /\ UNCHANGED <<level, rest, host, block, errorPages, error, hosts, servers>>

\* The semicolon every turn of the loop of parseConfigFile ends with.
EndFileTurn(left) ==
    /\ outcome' = IF checkSemiColon(left) THEN "parsing" ELSE "returned 1"
    /\ rest' = [file  |-> IF checkSemiColon(left) THEN AfterSemiColon(left) ELSE left,
                host  |-> <<>>, block |-> <<>>]

\* One turn of parseConfigFile.
FileDirective ==
    /\ Parsing("file")
    /\ \E w \in {getNextWord(rest.file)} :
       \E b \in {getNextBlock(w.rest)}, p \in {AppendWord([path |-> <<>>], "path", w.rest)} :
       /\ UNCHANGED edit
       /\ \/ w.ret = "eof" /\ EndOfFile
          \/ w.ret \in Delims /\ FileError
          \/ w.ret = "word" /\ w.word = "server" /\ b.result = "LastBlock" /\ EndOfFile
          \/ /\ w.ret = "word" /\ w.word = "server"
             /\ b.result \in {"UnclosedBlock", "UnexpectedBrace"}
             /\ FileError
          \/ /\ w.ret = "word" /\ w.word = "server" /\ b.result = "block"
             /\ level' = "host"
             /\ host' = NewHost
             /\ rest' = [rest EXCEPT !.file = b.rest, !.host = b.block]
             /\ UNCHANGED <<block, errorPages, error, hosts, servers, outcome>>
          \/ /\ w.ret = "word" /\ w.word = "default_error_pages" /\ p.ok
             /\ errorPages' = p.obj.path
             /\ EndFileTurn(p.rest)
             /\ UNCHANGED <<level, host, block, error, hosts, servers>>
          \/ w.ret = "word" /\ w.word = "default_error_pages" /\ ~p.ok /\ FileError
          \/ /\ w.ret = "word" /\ w.word \notin {"server", "default_error_pages"}
             /\ FileError

\* Mutant: parseHost lets the exception through to parseConfigFile.
MutUncaughtHostError ==
    /\ error' = TRUE
    /\ outcome' = "returned 1"
    /\ UNCHANGED <<level, rest, host, block, errorPages, hosts, servers>>

\* Mutant: the error is logged and not flagged.
MutSilentHostError ==
    /\ level' = "file"
    /\ EndFileTurn(rest.file)
    /\ UNCHANGED <<host, block, errorPages, error, hosts, servers>>

\* parseHost catches the exception: the host is not added, and the loop of
\* the file goes on behind its block.
HostError ==
    /\ error' = TRUE
    /\ level' = "file"
    /\ EndFileTurn(rest.file)
    /\ UNCHANGED <<host, block, errorPages, hosts, servers>>

\* std::logic_error is none of the parser's exceptions: main catches it, and ends.
Abort ==
    /\ outcome' = "aborted"
    /\ UNCHANGED <<level, rest, host, block, errorPages, error, hosts, servers>>

BlockTokens == {"location", "cgi"}

\* parseLocation, parseCGIConfig: the names, and the next block of the host's
\* stream, whatever stands between them.
OpenBlock(token, s) ==
    \E v \in {parseValues(s)} :
    \E b \in {getNextBlock(v.rest)} :
       IF b.result = "block"
       THEN /\ level' = "block"
            /\ block' = [kind |-> token, names |-> v.words,
                         obj |-> IF token = "location" THEN NewLocation
                                                       ELSE NewCGIConfig]
            /\ rest' = [rest EXCEPT !.host = b.rest, !.block = b.block]
            /\ UNCHANGED <<host, errorPages, error, hosts, servers, outcome>>
       ELSE HostError

\* One turn of parseBlock over a server block.
HostDirective ==
    /\ Parsing("host")
    /\ \E w \in {getNextWord(rest.host)} :
       \E r \in {handleHostToken(w.word, w.rest, host)} :
       /\ w.ret # "eof"
       /\ UNCHANGED edit
       /\ \/ w.ret \in Delims /\ HostError
          \/ w.ret = "word" /\ w.word \in BlockTokens /\ OpenBlock(w.word, w.rest)
          \/ /\ w.ret = "word" /\ w.word \notin BlockTokens
             /\ r.ok /\ checkSemiColon(r.rest)
             /\ host' = r.obj
             /\ rest' = [rest EXCEPT !.host = AfterSemiColon(r.rest)]
             /\ UNCHANGED <<level, block, errorPages, error, hosts, servers, outcome>>
          \/ w.ret = "word" /\ NullId("host", w.word, host, w.rest) /\ Abort
          \/ /\ w.ret = "word" /\ w.word \notin BlockTokens
             /\ ~(r.ok /\ checkSemiColon(r.rest))
             /\ ~NullId("host", w.word, host, w.rest)
             /\ HostError

\* The end of a server block: checkHost, and Host::addHost, which keeps the
\* host when one of its ports fails.
EndHost ==
    /\ Parsing("host")
    /\ \E h \in {[host EXCEPT !.errors = IF @ = <<>> THEN errorPages ELSE @]} :
       /\ getNextWord(rest.host).ret = "eof"
       /\ UNCHANGED edit
       /\ IF checkHost(h)
          THEN /\ hosts' = Append(hosts, h)
               /\ servers' = registerHost(h, Len(hosts) + 1)
               /\ error' = (error \/ \E e \in Endpoints(h) :
                                e \notin DOMAIN servers /\ e \in Unbindable)
               /\ level' = "file"
               /\ EndFileTurn(rest.file)
               /\ UNCHANGED <<host, block, errorPages>>
          ELSE HostError

\* The semicolon behind a block of a host; h and err are the host and the
\* error flag the block leaves.
EndBlockTurn(h, err) ==
    IF checkSemiColon(rest.host)
    THEN /\ level' = "host"
         /\ host' = h
         /\ error' = err
         /\ rest' = [rest EXCEPT !.host = AfterSemiColon(rest.host)]
         /\ UNCHANGED <<block, errorPages, hosts, servers, outcome>>
    ELSE HostError

\* Mutant: the exception of a block ends its host.
MutBlockError == HostError

\* parseLocation and parseCGIConfig catch the exception: the block is not
\* added, and the host's loop goes on behind it.
BlockError == EndBlockTurn(host, TRUE)

Handle(token, s) ==
    IF block.kind = "location" THEN handleLocationToken(token, s, block.obj)
                               ELSE handleCGIConfigToken(token, s, block.obj)

\* One turn of parseBlock over a location or a cgi block.
BlockDirective ==
    /\ Parsing("block")
    /\ \E w \in {getNextWord(rest.block)} :
       \E r \in {Handle(w.word, w.rest)} :
       /\ w.ret # "eof"
       /\ UNCHANGED edit
       /\ \/ w.ret \in Delims /\ BlockError
          \/ /\ w.ret = "word" /\ r.ok /\ checkSemiColon(r.rest)
             /\ block' = [block EXCEPT !.obj = r.obj]
             /\ rest' = [rest EXCEPT !.block = AfterSemiColon(r.rest)]
             /\ UNCHANGED <<level, host, errorPages, error, hosts, servers, outcome>>
          \/ w.ret = "word" /\ NullId(block.kind, w.word, block.obj, w.rest) /\ Abort
          \/ /\ w.ret = "word" /\ ~(r.ok /\ checkSemiColon(r.rest))
             /\ ~NullId(block.kind, w.word, block.obj, w.rest)
             /\ BlockError

\* Mutant: only a location is checked.
MutcheckBlock(b) == b.kind = "location" => b.obj.root # <<>>

\* checkLocation, checkCGIConfig.
checkBlock(b) ==
    /\ b.obj.root # <<>>
    /\ b.kind = "cgi" => b.obj.extension # <<>>

\* The end of a location or cgi block: it is checked and added.
EndBlock ==
    /\ Parsing("block")
    /\ getNextWord(rest.block).ret = "eof"
    /\ UNCHANGED edit
    /\ \/ ~checkBlock(block) /\ BlockError
       \/ /\ checkBlock(block) /\ block.kind = "location"
          /\ EndBlockTurn([host EXCEPT !.locations = Named(@, block.names, block.obj)],
                          error)
       \/ /\ checkBlock(block) /\ block.kind = "cgi"
          /\ EndBlockTurn([host EXCEPT !.cgis = Named(@, block.names, block.obj)],
                          error)

\* main goes on whatever parseConfigFile returned; a server that cannot listen
\* is erased, and without a server the event loop ends at once.
startServers ==
    /\ outcome \in {"returned 0", "returned 1"}
    /\ servers' = [e \in DOMAIN servers \ Unlistenable |-> servers[e]]
    /\ outcome' = IF DOMAIN servers \subseteq Unlistenable THEN "exited"
                                                           ELSE "running"
    /\ UNCHANGED <<edit, level, rest, host, block, errorPages, error, hosts>>

Done == outcome \in {"running", "exited", "aborted"} /\ UNCHANGED vars

Next ==
    \/ FileDirective
    \/ HostDirective \/ EndHost
    \/ BlockDirective \/ EndBlock
    \/ startServers
    \/ Done

\* One thread parses, and nothing it waits for can fail to come.
Spec == Init /\ [][Next]_vars /\ WF_vars(Next)

-----------------------------------------------------------------------------
BlockType ==
    [kind : {"location"}, names : Seq(STRING),
     obj : [root : Seq(STRING), methods : SUBSET Methods, dir_listing : BOOLEAN,
            default_uri : Seq(STRING), upload : BOOLEAN, upload_root : Seq(STRING),
            redir : {0} \union (300..303) \union {307, 308},
            addr_redir : Seq(STRING)]]
    \union
    [kind : {"cgi"}, names : Seq(STRING),
     obj : [root : Seq(STRING), methods : SUBSET Methods, exec : Seq(STRING),
            extension : Seq(STRING)]]
    \union [kind : {"none"}]

\* The state keeps its shape, and a host's maps hold checked blocks only: a
\* location has a root, a cgi block an identifier too.
TypeOK ==
    /\ edit \in Edits
    /\ level \in {"file", "host", "block"}
    /\ \A l \in DOMAIN rest : rest[l] \in Seq(STRING)
    /\ block \in BlockType
    /\ errorPages \in Seq(STRING)
    /\ error \in BOOLEAN
    /\ outcome \in Outcomes
    /\ \A h \in ToSet(hosts) \union {host} :
           /\ h.ports \subseteq DOMAIN Number
           /\ \A n \in DOMAIN h.locations : h.locations[n].root # <<>>
           /\ \A n \in DOMAIN h.cgis : h.cgis[n].extension # <<>>
    /\ \A e \in DOMAIN servers :
           \A n \in DOMAIN servers[e] : servers[e][n] \in DOMAIN hosts

Braces == {"{", "}"}

\* The edit leaves the nesting of the blocks as it is.
KeepsBraces(e) ==
    /\ e.kind \in {"remove", "replace", "swap"} => Base[e.at] \notin Braces
    /\ e.kind = "swap" => Base[e.at + 1] \notin Braces
    /\ e.kind \in {"insert", "replace"} => e.token \notin Braces

\* The edit is between the braces of b.
Inside(e, b) ==
    /\ e.kind # "none"
    /\ b.open < e.at
    /\ e.at < b.close \/ (e.kind = "insert" /\ e.at = b.close)

Finished == outcome # "parsing"

Clash(g, h) ==
    /\ Endpoints(g) \intersect Endpoints(h) # {}
    /\ ToSet(g.names) \intersect ToSet(h.names) # {}

\* Whatever is wrong between the braces of one server block, every other one
\* is registered with exactly the rules written in it, unless the broken one,
\* still registered, now claims one of its names.
OthersKept ==
    \A j, k \in DOMAIN Expected :
        j # k /\ Inside(edit, Expected[j]) =>
            \/ Expected[k].host \in ToSet(hosts)
            \/ \E h \in ToSet(hosts) : Clash(h, Expected[k].host)

\* An error inside a server block harms no other one, wherever parseLocation,
\* parseCGIConfig and parseHost catch it and whatever is left unread; main must
\* not have been ended by an exception that is none of the parser's.
HostContainment ==
    Finished /\ outcome # "aborted" /\ KeepsBraces(edit) => OthersKept

\* "Any syntax error within an host or location block will stop corresponding
\* block parsing" (the comment of parseConfigFile): that block's, and no more.
SyntaxErrorsContained == Finished /\ KeepsBraces(edit) => OthersKept

\* h without the rules of the names of a block.
Without(h, b) ==
    [h EXCEPT !.locations = [n \in DOMAIN @ \ b.names |-> @[n]],
              !.cgis = [n \in DOMAIN @ \ b.names |-> @[n]]]

\* The same one level down: whatever is wrong inside a location or cgi block
\* other than the mandatory one, its host is registered, with every other
\* block as written.
BlockContainment ==
    Finished /\ outcome # "aborted" /\ KeepsBraces(edit) =>
        \A k \in DOMAIN Expected :
            \A b \in Expected[k].blocks :
                Inside(edit, b) /\ "*" \notin b.names =>
                    \E h \in ToSet(hosts) :
                        Without(h, b) = Without(Expected[k].host, b)

\* A server block is never lost in silence: when parseConfigFile returns 0 and
\* no error is flagged, each one has become a host.
LossReported ==
    outcome = "returned 0" /\ ~error => Len(hosts) = Len(Expected)

\* checkServerNames keeps what assignHost would drop: at each of its ports that
\* opened, every name of a registered host leads to that host.
NamesReachHost ==
    \A i \in DOMAIN hosts :
        \A e \in Endpoints(hosts[i]) \intersect DOMAIN servers :
            \A n \in ToSet(hosts[i].names) :
                n \in DOMAIN servers[e] /\ servers[e][n] = i

\* The parse loops come to an end on every file, and main either serves or
\* stops.
ParseEnds == <>(outcome \in {"running", "exited", "aborted"})
=============================================================================
