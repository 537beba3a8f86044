# A formal model of webserveau

webserveau is an HTTP/1.1 server in C++98: one process, one thread, one epoll
loop. This directory holds TLA+ modules that model it, the TLC configurations
that check them on small instances, and TLAPS proofs. `PROJECT.json` lists the
components, the runs, the mutants, the hazards and, for every definition, the
source lines it models.

    tlc -workers 2 -config MCPlain.cfg MCConnection     # one run
    tlapm ConnectionProofs.tla                          # the proofs of a module

## The system

| Part | State it keeps | Operations |
|---|---|---|
| main loop (`main.cpp`) | the epoll set | `parseConfigFile`, `startServers`, then `epoll_wait` (at most 50 ms), `handleEpoll` on the batch, `Client::checkTO`; `cleanExit` at the end, also of a child |
| `IControl` | none of its own | one handler per event: `handleListenEvent`, `handleClientEvent` (read, write, hang-up), the command prompt; making responses; checking requests |
| `Client` | mode (READ/WRITE), `_headerStatus`, `_bodyStatus`, `_buffer`, `outBuffers`, pointers to its `Request`, `AResponse`, `CGIProcess`, body stream, host and server, time of the last interaction | `parseRequest`, `setHost`, `clear`, `terminate`, `checkTO` |
| `Request` | parser status, stash of an incomplete line, headers, sizes, `ResHints` | `parseHeaders`, `parseURI`, `parseInput` (measured and chunked bodies) |
| `ResHints` | status, path, `index`, `unlink`, `cgiRedir`, headers of the response to come | written by nearly every handler |
| `AResponse` and its classes | status, headers, file or text to send | `genResponse`, `writeResponse` |
| `CGIProcess` | pid, fork time, headers of the output | `execCGI` (fork), `checkEnd`, `parseHeaders`; its destructor unlinks the output file |
| `ListenServer` | names to hosts, orphan and connected clients, socket | register and remove hosts, accept, `bindClient`, `removeServer` |
| `Host` | names, ports, locations, CGI rules, its clients and servers | `checkRequest` (routing), `addHost`, `removeHost`, `shutdown` |
| `IParseConfig` | the configuration being read, `error` | parse once, before the first event |
| `format.cpp` | | `tokenize`, `isUriMatch`, `getInt` |
| `ILogger`, `Debug.cpp` | log streams | formatting |
| `sender/` | | a separate program that sends files of requests |

**How they interact.** The loop calls a handler with a raw pointer to a
`Client` or a `ListenServer`; the handler runs to its end, so within a handler
nothing interleaves. What interleaves is between events: the peer decides how
the byte stream is cut into reads and whether it goes away, the CGI child ends,
fails or runs too long, the kernel decides which events come together in a
batch, the operator types kill commands, and the clock makes `checkTO` act.
They meet in three places: the `Client` object with its `ResHints`, which
every step of a request rewrites and the cleaning-up reads at the end; the
pointers between `ListenServer`, `Host` and `Client`; and, from `fork` to
`execv`, the child's copies of everything, with which it runs the server's own
`cleanExit` when it fails.

**What is hard.** A read may end anywhere and may hold the start of the next
request. A response is sent one buffer per event, with reads in between. A 100
response and the final response share one slot. Files (script output, temporary
body) are removed by destructors that go by hints rewritten in the meantime. A
client in WRITE mode is outside every timeout, so it must always have work. A
kill command deletes objects that other events of the batch, or other lists,
still point to. A failing child kills and flushes what belongs to other clients.
A request may be matched three times (default uri, path info, local
redirection) and must keep to the rules of the last match. Three nested parse
loops catch exceptions at three levels.

**What makes each part correct.**

- Connection: every complete request gets one final response, of its own,
  and nobody hangs; nothing is done for half a request; the next request starts
  where the last one ended; files come and go with their owner.
- Children: a pid that is killed or waited for is the client's own child's;
  no upload loses a piece; a wait for a script ends.
- Framing: the peer finds each response where the one before ends, with the
  body that was meant.
- Routing: the path keeps its meaning, the location is the closest match, and
  what is accepted keeps to its rules.
- Registry: no pointer outlives its object, lists and pointers agree.
- Chunked bodies: what is written is what the chunks hold.
- Configuration: an error harms its own block and is reported; each name
  leads to its host.

## Modules

| Module | Models | Its MC module, its proofs |
|---|---|---|
| `Connection` | one client from accept to terminate, with its request, response, CGI process and temporary files | `MCConnection`, `ConnectionProofs` |
| `Exchange` | what a connection promises a peer: the abstract specification that `Connection` implements | |
| `Children` | the server and the children it forks, across clients | `MCChildren`, `ChildrenProofs` |
| `Framing` | from the output of a script or a file to the bytes of a response, and back at the peer | `MCFraming`, `FramingProofs` |
| `Routing` | `parseURI` and the steps of `Host::checkRequest` | `MCRouting`, `RoutingProofs` |
| `UriMatch` | matching a path with names with wildcards; used by `Routing` | |
| `ChunkedBody` | the parser of chunked bodies over bytes | `MCChunkedBody`, `ChunkedProofs` |
| `Registry` | servers, hosts, clients, the pointers between them, batches and kill commands | `MCRegistry`, `RegistryProofs` |
| `Config` | the configuration file, the registration of hosts and servers, start-up | `MCConfig`, `ConfigProofs` |

The proofs about `Framing`, `Routing` and `ChunkedBody` rest on the lemmas of
`Recursion`.

`Connection` is the centre: it takes as choices of the outside world what the
other modules work out (which refusal a request meets: `Routing`; how a body
is cut into pieces: `ChunkedBody`; what the bytes of a response are: `Framing`; how
a child ends: `Children`). `Registry` starts in the states `Config` can end in.

### Connection and Exchange

`client` is one record with the fields of `Client`, `Request` and `ResHints` that
decide anything. A handler of the code is an operator with the same name from
the record to the new record, or to a `Result` when its caller looks at the
return value; the operators call each other as the functions do. So
`ReadAndRespond` is `handleClientIn` with everything it calls (parsing, checking
headers, choosing the answer, launching the script), and one event is one
action:

| Action | Code |
|---|---|
| `EpollIn` | `handleClientEvent` with EPOLLIN and n units to read |
| `PeerCloses` | the same when `read` returns 0 or fails |
| `EpollOut` | `handleClientEvent` with EPOLLOUT: poll the script, send a buffer, go on or close, parse what was pipelined |
| `EpollHup` | EPOLLHUP, also a termination from outside |
| `CheckTO` | `Client::checkTO` for a client past `CLIENT_TIME_OUT` |
| `ChildExits` | the script ends with some output, or fails |

Data is abstracted as follows. The stream is a count of *units*: a request is
its request line, its header fields, the blank line and `body` pieces of body. A
read delivers any number of units, so every cut between units and every way of
pipelining happens. What a request says (`KindType`) is chosen when its request
line is parsed: where and with which status it will be refused if at all, its
body, type, method, whether it expects a 100, asks to close, and what is found at
the path of an upload. The file system is reduced to the three files the server
may remove: the script's output, the temporary body and, in `foreign`, anything
that has to stay. Three places unlink what a hint names: `~CGIProcess` may remove
the script's output only, `deleteBodyStream` a temporary body or the target of an
upload that was not answered as done, and a DELETE neither an error page nor a
script's output. A failed upload does remove its target, a file that was there
before included (`Client.cpp:317`), and one cut short by a hang-up leaves a
partial file: `ForeignFilesKept` says nothing against either. What the outside
world decides during a handler is one record, `World`:
the next request, the number of buffers of a response, a missing file, `fork` or
`write` failing, the CGI timeout, the target of a redirection. The
`InWorld` and `OutWorld` of an event list only the decisions it can look at.

`Exchange` has three variables: the stage of the exchange, the status being
sent and the pieces left of it. Requests are taken one at a time, each gets
one answer, the answer is sent to its end, and only after a success is another
request taken. `ImplementsExchange` is its `Spec` with the record mapped to
these three (`E == INSTANCE Exchange WITH ...`). It is checked for peers that
expect no 100: a 100 takes the slot of the final response, and with it a pending
408 may be replaced by the 100 of a header completed late, which is not an
exchange.

### Children

`client` has what the server knows of each client (upload, waiting for a
script, its pid, what the stream of the upload holds in memory), `file` the
uploads on disk, `out` the output files, `proc` the processes. `Launch` is the
fork: the child gets a copy of every client. It becomes its script
(`ChildExec`), or fails (`ChildFails`) and then terminates its copies one by one
(`ChildTerminates`), killing the pids it remembers, flushing the buffers it copied
and, from the server's directory, removing outputs and temporary bodies.
`CheckEnd` is what the server does with an ended or late child,
`Terminate` a client that goes. A pid is free again only when waited for.

### Framing

A stream is a sequence of symbols: status lines, lengths, fields, blank lines,
bytes of a body. `ParseHeaders` and `InspectHeaders` take the output of a script
apart within one buffer, `FillResponse`, `InspectFile` and `FormatHeaders` make the
response, `Portions` cuts it into buffers, `Send` sends one. `ReadSymbol` is one
character of the loop in `parseHeaders`, with `ReadLines` the loop. `Decode` is not
code of the server: it is the peer, by the rules of HTTP/1.1 for the length of
a message, and the reference the properties compare with; `DecodeSymbol` is what it
does with the next symbol.

### Routing and UriMatch

The steps of `checkRequest` are actions in the order of the code, `pc` says which
is next; `LocalRedirect` sends the same `Request` through them again. A URI is a
sequence of symbols, so that "..", ".", "//", schemes, "@", "?" and extensions
keep their roles. `Matches` and `GetObjectMatch` are the code's token-wise search;
`Glob` is the reference: the definition of a wildcard. `Walk` is the
reference for paths. The loops over a string or a map are recursive functions, one
value for each element, and the step of a loop has a name where proofs speak of it
(`AddSymbol`, `ClimbStep`, `AddToken`).

### ChunkedBody

`parser` has the fields of `Request` that `_parseChunked` uses, the
peer's message is fixed at the start, and `Read` is one call of `parseInput` on any
number of further bytes. `Turn` is one turn of the loop of `_parseChunked` and
`ParseChunks` the loop, up to the turn that returns (`Return`). CR and LF are bytes of their own, so a read may end between
them; a size line is one byte. `Encode` is the reference: what the message
means, independent of reads.

### Registry

`reg` is one record with the three static lists and every list, map and pointer
between servers, hosts and clients. `batch` holds the rest of the events
`handleEpoll` walks through. A pointer to a deleted object may stay in the
state; using it, or an iterator whose element is gone, sets `ub`, and the model
stops there: nothing can be said of what the build does next. The initial states
are the outcomes of registering and starting: any server may have failed to bind
or to listen. `RemoveAll` takes any set of servers away: their lists share no
client, so the order of `removeServers` does not matter. Names and hosts are
numbers: names in string order (the order of `std::map`), hosts in the order of the
configuration file.

### Config

A file is a sequence of tokens: words, braces, semicolons, "#" and line breaks.
`FileDirective`, `HostDirective` and `BlockDirective` are one turn of the three
nested loops, `EndHost` and `EndBlock` their ends with the checks and the
registration; `FileError`, `HostError` and `BlockError` are where an exception is
caught. `Abort` is an exception none of them catches. `startServers` follows, and
main goes on whatever the parser returned. The file is a right configuration
with one edit; what it should give is `Expected`.

## Runs

| Run | What it checks |
|---|---|
| `plain` | a peer that keeps to the protocol, scripts with well-formed output: a connection in WRITE mode has work (`WriteHasWork`); a script's output file goes with its process (`TmpOutOwned`); only incomplete requests time out (`TimeoutOnlyIncomplete`); every connection ends, under fairness (`NoClientHangs`) |
| `any` | any peer, any output, local redirects: the inductive invariant (`ConnectionInv`), READ mode owes nothing (`ReadOwesNothing`), work is done on whole requests only (`WorkOnWholeRequest`), the temporary body goes with its stream (`TmpBodyOwned`), the next request starts at the boundary (`NextRequestAtBoundary`), a 2xx is delivered whole (`SuccessIsDelivered`), a final response has a status its request calls for (`AnswerFitsRequest`) |
| `no_expect` | any peer that never expects a 100: the connection implements `Exchange` (`ImplementsExchange`), and no file is removed that has to stay (`ForeignFilesKept`) |
| `children` | two clients, three pids, failing children: `PidOwned`, `OutOwned`, no piece of a stored upload is missing (`NothingLost`), and a wait for a script ends (`ScriptsAnswered`) |
| `framing` | two responses from files, generated bodies, uploads and scripts of every header shape: the peer stays in step (`PeerInStep`), bodies arrive whole (`BodiesIntact`) |
| `routing` | every URI of up to five symbols, escaped ones among them, on twenty-five hosts: normalising keeps where a path leads (`PathLeadsSame`), a match is what the wildcard means (`MatchIsGlob`), the best match does not depend on the order of the map (`ClosestLocation`), accepted requests keep to the rules that govern them in the end (`AcceptedIsAllowed`), a folder whose default uri names a file gets it (`FolderGetsDefault`) |
| `chunked` | chunked bodies in every cut: what is accepted is what was sent and the rest stays for the next request (`AcceptedIsExact`); a right body is recognised at its last byte (`WellFormedAccepted`); the size counter agrees with the file (`CounterMatchesFile`) |
| `servers` | kill commands for servers, one event per batch: no use of a deleted object (`NeverUndefined`), clients always have their server (`ClientsServed`), counts are exact (`CountedOnce`) |
| `commands` | all kill commands, batches of two, until something undefined happens: lists and pointers agree (`ListsHoldLiveClients`), names and servers agree (`MapMatchesListens`), every running server has a host (`ServerHasHost`) |
| `config` | a configuration of two servers with any one token removed, replaced, added or swapped with the next: an error the parser catches harms only its block (`HostContainment`, `BlockContainment`), no server is lost in silence (`LossReported`), names lead to their host (`NamesReachHost`), parsing ends (`ParseEnds`) |

Two further runs show a place where the code does something other than what the
repository says of it; each states that sentence as a property and TLC finds it
violated:

| Run | What happens |
|---|---|
| `malformed_output` | a script prints a header line without a colon: no response is made and the client hangs in WRITE mode, where nothing and no timeout moves it (`Readme.md:36`: "no client will ever be hanging") |
| `config_missing_value` | a directive such as `upload` or `dir_listing` without its value in one server block: the message of the exception is made from a null pointer, `std::logic_error` passes all handlers of the parser, and the program ends (`IParseConfig.cpp:343` says the error stops the corresponding block) |

### More that the models show

The following is the code's behaviour too. It bounds what the properties above
can say, which is why some runs restrict the peer, the outputs, the commands or
the data; each can be seen by changing the constant or the property named.

Connection:

- A body that arrives with the header that expects a 100: the final response is
  dropped because the 100 is pending, and the complete request is timed out
  with 408 (`Polite = FALSE` in `MCPlain.cfg`: `TimeoutOnlyIncomplete`).
- A request that `checkTO` has answered with 408 is still parsed, and its script
  run, when the rest of its header arrives before the 408 is sent
  (`IControl.cpp:176`).
- A script redirects locally to a static file: the response has status 0, which
  `RightStatuses` lists. A chain of local redirections has no bound
  (`IControl.cpp:294`).
- A request that is refused in its header is read on, and if it expects a 100 this
  100 replaces the refusal that is still to be sent (`IControl.cpp:577`).
  `AnswerFitsRequest` leaves that case out (`ContinuesRefused`). A
  refusal's status is a number of the request, not one of the list in `Response.hpp`:
  headers that are too large are refused with 431, which is not in it
  (`Request.cpp:204`).
- A script prints a `Status` that is no number: the answer is a 500 without a path,
  and the script's output file stays on disk (`CgiOutputs <- WellFormedOutputs` in
  `MCPlain.cfg`: `TmpOutOwned`).

Framing:

- The 100 response lacks its blank line (`Expects = {TRUE}`: `PeerInStep`); a 204
  is sent with a body (`Methods` with "DELETE"); a local redirection to a folder
  announces a length and sends nothing (`RedirTargets` with "folder"); an upload
  without a body to a file that may not be written is answered with a 204 with a
  body (`Targets` with "denied").
- Behind a local redirection `resHints.path` still names the script's output, which
  `~CGIProcess` has unlinked (`IControl.cpp:296`). A redirecting location or an upload
  puts no other path there: `inspectFile` fails on the missing file, and the answer
  is a 500 (`IControl.cpp:607`), not the redirection. `Served` and `ScriptEnds` carry
  the stale path.
- A script's numeric `Status` is overwritten with 200 (`CGIProcess.cpp:123-129`). Header
  lines beyond the first buffer of the output become part of the body.

Children:

- A child that fails before `execv` kills the scripts other clients wait for and
  writes its copy of their buffered uploads: pieces may appear twice in a stored
  file, which is why `NothingLost` does not say that the file equals the upload. If
  it failed before it left the server's directory it also removes the temporary
  bodies of the requests it has copies of (`Client.cpp:317`): such a client's script
  then fails for want of its body. `NothingLost` leaves these files out.
- A killed child is never waited for; its pid stays taken until `fork` fails.

Routing:

- Nothing forbids listing a folder when `dir_listing` is off. With a query the
  default uri is appended to the query and the folder is listed
  (`FolderGetsDefault` without its second disjunct); a default uri may climb out of the
  root, `parseURI` refuses it, `checkDirRessource` does not look (`Host.cpp:386`), and
  the folder is listed (the third disjunct); a default uri that names a folder,
  or that holds a scheme `pruneScheme` refuses, leaves a folder to list as well. The
  redirection of the location that a default uri leads to is not looked at. An "@"
  anywhere cuts everything before it.
- `parseURI` decodes escapes after `checkPath` (`Request.cpp:601`): an escaped dot or
  slash is not resolved and stays in the path, which may then lead elsewhere
  (`PathLeadsSame` without `Open`). Nor does what is decoded take part in splitting the
  path into folder and file.
- Nothing makes the name of a CGI block contain its identifier. If it does not,
  `extractPathInfo` adds the identifier's length to `npos` and cuts the path that many
  characters less one from its start, or ends the program with `std::out_of_range` if
  the path is shorter (`ScriptEnd`, `Thrown`). `short` counts in symbols: a cut inside a
  symbol is not modelled.
- A name with "**" matches a path only where the path itself has a "*": `isMatch`
  looks for the token behind a "*" in the path, whatever it is (`format.cpp:118`,
  `Doubled`). A literal piece that the path holds twice is taken at its first
  occurrence, and the match may fail behind it (`Ambiguous`).

Chunked bodies:

- A body beyond `body_max_size` is accepted when it ends in the read that brings
  it; one within it may be refused with 413, because the CRLF behind each chunk
  counts (`Request.cpp:299`; `CounterMatchesFile` says exactly what is counted). A
  chunk with a CRLF in its data is refused with 400.

Registry:

- A host is killed while it has a client: deleted objects and invalid iterators
  are used (`Host.cpp:189`, `ListenServer.cpp:206`; `Commands` with "host" in
  `MCServers.cfg`). With `MaxBatch = 2` a kill command and an event of an object it
  deletes come in one batch, and `handleEpoll` uses the pointer
  (`IControl.cpp:134`). Both refute `NeverUndefined`.
- A host header that matches no name goes to the host with the smallest name, not
  to the first host of the file as `conf/default.conf:35` says
  (`ListenServer.cpp:389`).

Configuration:

- `parseConfigFile` returns 0 when a block was in error, though its comment says 1;
  main looks at neither.
- Braces in comments count (`getNextBlock`). `location {...}` without a name is
  dropped in silence; `location a; location b {...}` gives b's block to a. A second
  path is appended to the first. `default_error_pages` behind a server leaves that
  server without error pages; a CGI block without `methods` allows none.
- `startServers` erases a server that cannot listen and leaves the hosts' pointers
  to it.

### Bounds

`MaxUnits` = 10 units is three requests without body, or two with one,
so pipelining, keep-alive and a third request after a refusal occur; every cut of
these units into reads is explored. A body of two pieces has an inner cut.
`MaxOut` = 2 makes a response that is sent in two events. In `Children` two
clients are one that fails and one that is harmed, three pids allow one zombie
and a reuse beside them, two pieces allow one buffered and one on disk; `MaxFile`
stops children from failing once a file has grown past it, which happens only
after a piece was doubled. In `Framing`
files have no, one, exactly `BufferSize`, one more and twice as many symbols,
script heads up to three lines (more than a buffer), and two answers show that
the second starts in step. In `Routing` locations overlap in every way the
names can (prefix, suffix, exact, two wildcards), and maps have different orders. In
`ChunkedBody` a message has up to three chunks of up to three bytes, with lone CR
and LF bytes, wrong sizes and pipelined bytes behind it. In `Registry` two hosts
share one server and one of them has another (the shape of `conf/default.conf`),
one name is unknown, three clients compete for a limit of two per server, and a
batch has two events: one that deletes and one that is deleted. Clients are
interchangeable there, hence the symmetry. In `Config` every position of the
file meets every delimiter, the comment, directives of each level and values
of each kind; two servers share a port, and some ports fail.

Deadlock is checked in `children` and `config`. Elsewhere the system really
stops: a terminated connection, a checked request, an ended body, a server
without sockets.

### Fairness

- `plain`: weak fairness of `EpollOut` and of `CheckTO`, with ENABLED spelled out.
  epoll is level-triggered and the socket is registered for EPOLLOUT all the
  time, so a client in WRITE mode gets the event as long as the peer reads and
  pauses its own sending (EPOLLIN is preferred by the code; the model's input is
  bounded). `main` calls `checkTO` after at most 50 ms, and a READ client is silent
  for `CLIENT_TIME_OUT` sooner or later. Of a running child, `EpollOut` can only
  observe the end or the timeout, so fairness of `EpollOut` includes that one of
  them comes: `CGI_TIME_OUT` guarantees it. Nothing is assumed of the peer or of
  `ChildExits`.
- `children`: weak fairness of `TimeOut` (the clock goes on) and of `CheckEnd` (main
  runs `handleCGIProcess` on each client that can be written to). Nothing makes
  a child end by itself, fail or clean up in time.
- `config`: weak fairness of `Next`: one thread that waits for nobody.

## Proofs

**`ConnectionProofs`** has three parts. The first proves, for every set of requests, outputs and
redirections and every bound: `ConnectionInvariant` (`Spec => []ConnectionInv`),
and its consequences `TypeCorrect`, `ReadOwesNothingAlways` and
`WorkOnWholeRequestAlways`. The assumptions are the types of the constants
(`KindsAssumption`, `OutputsAssumption`, `RedirAssumption`, `BoundsAssumption`).
Neither of the two properties is inductive: that READ mode owes nothing needs to
know that buffers are queued only behind a response, and that work is done on
whole requests needs the position of the parser in every combination of header
and body status. The invariant `Good` has four parts: the type,
`ResponseMatchesMode`, `ParserMatchesStatus` and `WorkIsWhole`. Because handlers are
operators, the proof follows the call graph: one lemma per operator says that it
keeps `Good` under the condition its callers establish (a success may only be
asked for a whole request, a header may only be checked when it has just been
read or is being redirected), and one step per action puts them together. Lemmas
on what an operator leaves alone (`Same`, `SameButCgi`) keep the large record out
of the arithmetic.

The second part is about what one event may do. The action properties relate two
states, so it is not enough that a handler keeps an invariant: each operator gets a
relation between the record it takes and the one it returns, made of a frame
(`Changes`: the fields it may touch) and the values it sets. The relations
compose along the call graph up to `EventStep`, the relation of a whole event, and
`StepInv` strengthens `Good` with what holds between events (`Settled`: the
temporary body has its owner, a refused line has its response, a response has
buffers to send, and a success comes after its script). Proved from the same
assumptions: `StepInvariant`, `TmpBodyOwnedAlways`, `NextRequestAtBoundaryAlways`,
`SuccessIsDeliveredAlways`; and `WriteHasWorkAlways`, if no script prints malformed
output. That condition is needed: `malformed_output` shows a client without work.

The third part proves that the connection implements `Exchange`
(`ImplementsExchangeAlways`), for peers that never expect a 100, and three
properties for peers that do not send a body before the 100 they asked for
(`NoEarlyBody`: `Polite`, or no request expects one). They rest on one invariant,
`Ordered`, whose core is `HeldBound`: as long as a 100 is owed, no more than
the header has arrived. Without it the 100 can be sent when the script is already
running, the connection goes back to READ mode, and `checkTO` answers a whole
request with 408 and lets `resHints.path` name another file. A parameter of the
invariant is the set of statuses that may be answered.

| Theorem | Further assumption | Why it is needed |
|---|---|---|
| `ForeignFilesKeptAlways` | none | |
| `TmpOutOwnedAlways` | no script prints a `Status` that is no number | then the answer has no path and the output file stays |
| `TimeoutOnlyIncompleteAlways` | no check refuses with 408 | no code does; a refusal is any number in the model |

Each assumption excludes behaviour listed above under "More that the models
show" or a choice of the model that the code does not make.
`ExchangeStage`, the refinement mapping, is a chain of conditions in order of
precedence: a connection that answers may already hold the start of the next
request.

**`RegistryProofs`** is for every configuration of servers, names and hosts, any number of
clients and batches of any length, from the assumptions of `Registry`.
Whatever commands are given, up to the first use of a deleted object:
`RegistryInvariant`, and from it `RegistryTypeCorrect` (with the limit of clients
per server), `ListsHoldLiveClientsAlways`, `MapMatchesListensAlways` and
`ServerHasHostAlways`. `RegistryInv` needs what none of these say: a client in a list of
a server points back to it, and a name that leads to a host is a name of that host.
If no host is killed and no event follows a kill command in its batch
(`KillsAreAlone`), nothing undefined happens at all: `TameInvariant`,
`NeverUndefinedAlways`, `ClientsServedAlways`, `CountedOnceAlways`. The further facts are that
a living client hangs on its server (`Hung`) and that the events left in a batch
are of living objects, each of another one (`BatchLive`). Without any commands
`KillsAreAlone` allows batches of any length: terminating a client is harmless to
the rest of its batch. The condition is needed: with "host" among the commands, or with
a kill and another event in one batch, TLC refutes `NeverUndefined` (see above). Each operator has a lemma on what it does to the
fields of the record, and only these effects enter the arguments. `RemoveAll`
says at once what removing servers one after the other leaves.

**`ChildrenProofs`** proves, for every set of clients and pids and every length of
uploads: `ChildrenInvariant`, `PidOwnedAlways`, `OutOwnedAlways`,
`ChildrenTypeCorrect` and `NothingLostAlways`, from `ChildrenAssumption`. `PidOwned` is
not inductive: that a pid is freed only under the hands of its holder needs
`LivingHeld`, that a child that lives is held by the client it was forked for,
which `Terminate` and `CheckEnd` keep by killing it. `OutOwned` needs the same, since a
child opens its output file late. The invariant is the type, the three of these,
and `Sending`, which bounds the pieces of an unfinished upload. `NothingLost`
speaks of finished uploads only; `UploadsKept` says of every one that the file holds the
pieces flushed so far, in order and perhaps with others between them, and the stream
exactly those that follow, as long as no child has removed that file. What a failing
child appends never disturbs it.

**`RoutingProofs`** is for every set of hosts and for URIs and names of any length, from
`HostsAssumption` (every host has the location "*", as `checkHost` sees to) and
`UrisAssumption`. `RoutingInvariant` rests on a fact about the matching: "*" matches
every path, so `getObjectMatch` never ends with nothing and `MatchRules` finds a location
for every path (`LocationFound`). `RoutingInv` then says, step by step, what the checks
so far have found out about the request (`Checked`), and that its location is the
one its path leads to, or did before `extractPathInfo` cut a path info without a
slash from it (`Located`). `AcceptedIsAllowedAlways` follows. The invariant is needed
because a default uri changes path and location between two checks, and a path
info after the match.

`PathLeadsSameAlways` needs no such invariant, only what each pass of `checkPath` does to the
place a path leads to: `WalkDropDot`, `WalkCompact` and `WalkClimb` say that it
stays the same, `SegmentsJoin` that cutting undoes joining. `WalkClimb` is the hard one:
taking back a piece (`Front`) is walking a ".." only if that piece leads
somewhere, so the pieces collected so far must hold no "." or empty piece behind
the first (`Dense`, which `Compact` establishes) and no ".." (`Descent`). The empty piece
that may stand first, from a path that starts with "/", is a case of its own.
The path is decoded at the end: for a URI whose dots and slashes are not escaped
(`Open`) decoding commutes with each pass (`DropDotDecoded`, `CompactDecoded`,
`ClimbDecoded`, together `CheckPathDecoded`), so that it may be done first.

`ClosestLocationAlways` is about an order. `isUriMatch` compares two names token by token from
the end (`Compares`): at each place one token `Beats` the other or it `Ties` with it, and then
both go on in front of the same position (`Before`). Tokens are ranked this way
(`Ranks`, `RankedBetween`), and so, by induction over three names at once, are the names: of two
at most one is better (`BetterOneWay`), and a name better than another is better than any
third, or the third is better than that other (`BetterBetween`). So the name that `getObjectMatch`
holds after `n` names is not beaten by any of them (`ClosestName`), in any order.

`MatchIsGlobAlways` compares two searches. `TokensCut` says that the tokens of a name are the name
cut into pieces that are "*" or without "*" (`Cut`), so that a token stands for itself or for
anything (`TokenAt`); `Stands` and `Searches` are what `Glob` and `isMatch` find from each position
on. Going from the last token back, what `isMatch` finds is found by `Glob` (`MatchesStand`), and
the other way round when the token behind a "*" is a literal (not `Doubled`) whose first
occurrence is its only one (not `Ambiguous`; `StandsMatches`).

`FolderGetsDefaultAlways` has to show that the second `parseURI`, on the uri with the default uri
behind it, makes a file of it unless it climbs out of the root: `checkDirRessource` ignores its
result, and a refusal for another reason would leave the folder to list. Nothing is assumed of
default uris. `FolderInv` carries from `Parse` to `Dir` that
the scheme of the uri was accepted. The passes are then followed with a file behind the uri
(`FileAppended`): `pruneScheme` and `pruneDelim` prune the front as before or leave the end of the
file (`SchemeAppend`, `PruneAppend`), and a path that `checkPath` accepts stands for a folder
behind it only if it did before (`DirKept`), which a path with a file at its end does not
(`FileAccepted`).

These are inductions over data. The induction theorems of the library take an
operator as a parameter, which the provers cannot instantiate. `Recursion` states what
is needed without one: the step of a recursion is given as a function, the facts
that fail as a set of naturals, and a set of naturals that is not empty has a
least member (`Least`). From there, `NoFirst` is induction up to a bound, `Iterates`
(`IteratesDown` from the other end) says that a recursive definition has a solution, `SameRun` compares two. One lemma for
each recursive operator (`SegmentsRun`, `JoinRun`, `CompactRun`, `ClimbRun`, `WalkRun`,
`TokenizeRun`, `BetterRun`, `BestRun`, `MatchRun`, `GlobRun`) gives the
values it goes through.

**`ChunkedProofs`** proves all three properties of `ChunkedBody`: `AcceptedIsExactAlways`,
`WellFormedAcceptedAlways`, `CounterMatchesFileAlways`, for messages of any length, every cut
into reads, every text that follows and every `body_max_size`. The hypothesis is `OnlyClean`:
no chunk has a CRLF in its data or the size 0. The code takes data for a line, so
without the first a body with the right sizes is refused (see above); a chunk of
size 0 is the end of the message. None of the properties is inductive: between two
reads `getLine` holds a piece of a line, of which nothing is known but where it
comes from. So `Layout` says what is where on the wire, `At(m, n)` being the bytes of the
first n frames, and `Inside`, the invariant of the loop, says that the stash and the
buffer together are exactly the bytes from the next line to the last byte read,
that n frames are in the file and what the counter is. `DataStage` and `SizeStage` are
the two halves of a turn, `TurnEffect` puts them together. A turn that goes on has
taken bytes, so the loop ends within `Len(buf) + 1` turns (`ParseChunksOutcome`).
`Outcome` is what it leaves, and `ChunkedInv` (`ChunkedInvAlways`) is `Outcome` between two
reads.

**`FramingProofs`** proves `PeerInStepAlways` and `BodiesIntactAlways`, for every
`BUFFER_SIZE`, every file and output of a script, and any number of requests and
redirections, from `FramingAssumption` and `Conforming`: nobody asks for a 100,
nothing is deleted, no file refuses an upload without a body and no script redirects to a
folder. Each part of `Conforming` excludes one of the divergences listed first under
Framing above, where TLC refutes `PeerInStep`. What the peer has received is seldom a whole response, so the invariant
`FramingInv` (`FramingInvAlways`) is about the stream that will have come when all queued
buffers are sent (`Along`): behind it every peer that asked these requests has the
responses that were meant, and waits (`Told`). What has arrived is a prefix of that
stream, and a peer that is lost, or has a response, keeps to it (`ReadsFollows`), so
that a peer is in step at every moment (`InStepNow`). `ResponseRead` is the step for
one response: a peer that waits has it, whole, behind the text of one, whether
its length comes from the header or from the status. `PortionsLead` says that the
buffers make up this text, and `PreparedRegular` that the hints a handler leaves
(`Prepared`) give one. That the body of a script's response starts in the right place
rests on `Lined`, which says where `parseHeaders` stands in the output after each
symbol: `index` is behind the first blank line whenever the header lines fit in one
buffer (`ScriptHead`), the condition that `BodiesIntact` has too; a line that is no
header makes the script fail (`JunkIsKey`). The strings of the model are members of
`Word`, because the provers do not know that a literal is a string.

**`ConfigProofs`** proves `NamesReachHostAlways`: for every file, every edit and every
outcome of `bind` and `listen`, each name of each registered host leads to that
host at each of its open ports. It needs no assumption on the constants. The
property is strengthened by two facts: `hosts` is a list, so that the new host
has an index of its own, and while the file is parsed every port of a host that
can be bound has a server, and no other port has one. No server can then appear
later at a port of an earlier host, and what `checkServerNames` compares is all
that `assignHost` could drop.

The same module proves `ConfigTypeCorrect`, `Config`'s type invariant, for every file and
every edit: what each reader of the stream returns is again a list of tokens, a
host's maps hold checked blocks only (a location with a root, a CGI block with an
identifier), its ports are numbers, and every index a server keeps is that of a
registered host. `ConfigAssumption` says only that tokens are strings and that an edit
is at a token of the file. The invariant, `ConfigInv`, has four parts: `StreamGood` (what
the nested loops have yet to read), `BlockGood` (inside a block there is a block,
with all the fields its directives set), `HostGood` for the host being filled, and
`HostsGood` for the registered ones and the servers. The lemmas about the readers and
the directives (`ValuesType`, `NextBlockType`, `HostTokenType`, `LocationTokenType`,
`CgiTokenType`) come first, then one lemma for each action.

TLC evaluates all assumptions on every run whose module has them, and checks
each proved property on its small instance first.

**Only model-checked.** Liveness (`NoClientHangs`, `ScriptsAnswered`, `ParseEnds`) is out
of the prover's reach. `LossReported` and the containment properties of `Config` compare a parse with that of
the unedited file: two runs of the parser over files that differ.

## What is not modelled

- The byte level of headers: the syntax of lines, sizes (414, 431), escapes cut short
  or wrong, trailers, the media type headers. Refusals are choices in
  `Connection`. A request line without a version, which makes `substr` throw
  (`Request.cpp:152`).
- Chunk sizes of several digits and their overflow in `getInt`.
- Partial writes, the growth of buffers in memory.
- The environment handed to a script (`_setVariables`), the wording of generated
  bodies and the MIME table.
- Quotes, escapes and the characters of words in the configuration file.
- The server's own `cleanExit`, the `print` command, the logger, `Debug.cpp`.
- `sender/`, a test client of its own.

## What could come next

A module for the request line and the
header fields over bytes.
