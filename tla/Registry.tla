------------------------------ MODULE Registry ------------------------------
(***************************************************************************)
(* The objects of the whole server and their pointers to each other:       *)
(* ListenServer::_serverList, Host::_hostList and Client::_clientList, the *)
(* lists and maps that ListenServer, Host and Client keep of one another,  *)
(* the batches of events that main hands to IControl::handleEpoll, and the *)
(* kill commands of the prompt.                                            *)
(*                                                                         *)
(* An object is deleted when it leaves its static list; pointers to it may *)
(* stay behind.  Using one, or using an iterator whose element is gone, is *)
(* undefined: the model notes it in ub and goes no further.                *)
(*                                                                         *)
(* What a connection does with its request is the subject of Connection.   *)
(* Here an event of a client binds it to a host, ends it, or does neither. *)
(***************************************************************************)
EXTENDS Integers, Sequences, FiniteSets, FiniteSetsExt, SequencesExt

CONSTANTS
    Servers,        \* the ip:port pairs of the configuration
    Hosts,          \* its hosts, numbered in the order of the file
    Names,          \* the values of a host header, numbered in string order
    HostNames,      \* the server_names of a host
    HostServers,    \* the servers a host asks to listen on
    Clients,        \* client objects
    MaxClientNbr,   \* ListenServer::_maxClientNbr
    MaxBatch,       \* bound on the events of one epoll_wait
    Commands        \* the kill commands the operator uses

NoHost == -1
NoServer == "no server"

CommandTypes == {"all", "server", "host"}

ASSUME HostsAssumption ==
    /\ Hosts \subseteq Nat
    /\ NoServer \notin Servers
    /\ HostNames \in [Hosts -> SUBSET Names]
    /\ HostServers \in [Hosts -> SUBSET Servers]
ASSUME NamesAssumption == Names \subseteq Nat /\ IsFiniteSet(Names)
ASSUME LimitsAssumption == /\ MaxClientNbr \in Nat
                           /\ MaxBatch \in Nat \ {0}
                           /\ Commands \subseteq CommandTypes

\* IParseConfig::checkHost refuses a host without server_name, without port,
\* or with a server_name that one of its servers knows already.
ASSUME CheckHostAssumption ==
    /\ \A h \in Hosts : HostNames[h] # {} /\ HostServers[h] # {}
    /\ \A g, h \in Hosts :
         g # h /\ HostServers[g] \intersect HostServers[h] # {} =>
             HostNames[g] \intersect HostNames[h] = {}

VARIABLES reg, batch

vars == <<reg, batch>>

RegistryType ==
    [servers : SUBSET Servers,                        \* _serverList
     hosts : SUBSET Hosts,                            \* _hostList
     clients : SUBSET Clients,                        \* _clientList
     hostMap : [Servers -> [Names -> Hosts \union {NoHost}]],
     orphans : [Servers -> SUBSET Clients],           \* _orphanClients
     connected : [Servers -> SUBSET Clients],         \* _connectedClients
     listens : [Hosts -> SUBSET Servers],             \* Host::_listenServers
     bound : [Hosts -> SUBSET Clients],               \* Host::_clients
     server : [Clients -> Servers \union {NoServer}], \* Client::_listenServer
     host : [Clients -> Hosts \union {NoHost}],       \* Client::_host
     ub : BOOLEAN]

Undefined(r) == [r EXCEPT !.ub = TRUE]

\* The hosts that some name of server s leads to.
Assigned(r, s) == {h \in Hosts : \E n \in Names : r.hostMap[s][n] = h}

-----------------------------------------------------------------------------
(***************************************************************************)
(* Client::terminate, for each client of S: the client leaves the list of  *)
(* its host and the lists of its server, then it is deleted.               *)
(***************************************************************************)
TerminateAll(r, S) ==
    LET gone(s) == {c \in S : r.server[c] = s}
        left(h) == {c \in S : r.host[c] = h}
        dangles(c) == \/ r.server[c] \notin r.servers
                      \/ r.host[c] # NoHost /\ r.host[c] \notin r.hosts
    IN IF \E c \in S : c \notin r.clients \/ dangles(c) THEN Undefined(r)
       ELSE [r EXCEPT !.clients = @ \ S,
                      !.bound = [h \in Hosts |-> @[h] \ left(h)],
                      !.orphans = [s \in Servers |-> @[s] \ gone(s)],
                      !.connected = [s \in Servers |-> @[s] \ gone(s)]]

\* Mutant: the host goes on pointing to the server.
MutUnassignHost(r, s, h) ==
    [r EXCEPT !.connected[s] = @ \ r.bound[h],
              !.hostMap[s] = [n \in Names |-> IF n \in HostNames[h]
                                              THEN NoHost ELSE @[n]]]

\* Every client of the host leaves _connectedClients, live or not.
UnassignHost(r, s, h) ==
    IF h \notin Assigned(r, s) THEN r
    ELSE [r EXCEPT !.connected[s] = @ \ r.bound[h],
                   !.hostMap[s] = [n \in Names |-> IF n \in HostNames[h]
                                                   THEN NoHost ELSE @[n]],
                   !.listens[h] = @ \ {s}]

\* Mutant: only the clients without a host are terminated.
MutRemoveServer(r, s) ==
    LET t == TerminateAll(r, r.orphans[s])
    IN [t EXCEPT !.servers = @ \ {s},
                 !.hostMap[s] = [n \in Names |-> NoHost],
                 !.listens = [h \in Hosts |-> IF h \in Assigned(r, s)
                                              THEN @[h] \ {s} ELSE @[h]]]

(***************************************************************************)
(* ListenServer::removeServer, for each server of S: the clients in its    *)
(* two lists are terminated, its hosts are unassigned, the server is       *)
(* deleted.  A host without a server stays in _hostList.  The lists of two *)
(* servers share no client, so the order of the servers does not matter.   *)
(***************************************************************************)
RemoveAll(r, S) ==
    LET t == TerminateAll(r, UNION {r.orphans[s] \union r.connected[s] : s \in S})
    IN IF t.ub THEN t
       ELSE [t EXCEPT !.servers = @ \ S,
                      !.hostMap = [s \in Servers |-> IF s \in S
                                                     THEN [n \in Names |-> NoHost]
                                                     ELSE @[s]],
                      !.listens = [h \in Hosts |->
                                     @[h] \ {s \in S : h \in Assigned(r, s)}]]

RemoveServer(r, s) == RemoveAll(r, {s})

\* ListenServer::removeServers.
RemoveServers(r) == RemoveAll(r, r.servers)

\* Host::removeHost.  Host::shutdown terminates its clients one by one, which
\* takes the element its iterator stands on out of the list.
RemoveHost(r, h) ==
    IF r.bound[h] # {} THEN Undefined(r) ELSE [r EXCEPT !.hosts = @ \ {h}]

\* Mutant: a server stays when its last host has left.
MutUnregisterHost(r, s, h) ==
    LET b == UnassignHost(r, s, h)
    IN IF ~b.ub /\ b.listens[h] = {} THEN RemoveHost(b, h) ELSE b

UnregisterHost(r, s, h) ==
    LET a == UnassignHost(r, s, h)
        b == IF Assigned(a, s) = {} THEN RemoveServer(a, s) ELSE a
    IN IF ~b.ub /\ b.listens[h] = {} THEN RemoveHost(b, h) ELSE b

-----------------------------------------------------------------------------
(***************************************************************************)
(* Binding a client to a host.                                             *)
(***************************************************************************)
KnownNames(r, s) == {n \in Names : r.hostMap[s][n] # NoHost}

\* The host with this name, or the one the first name of the map leads to.
FindHost(r, s, n) ==
    IF n \in KnownNames(r, s) THEN r.hostMap[s][n]
    ELSE r.hostMap[s][Min(KnownNames(r, s))]

\* Mutant: the client stays an orphan.
MutBindClient(r, c, n) ==
    LET s == r.server[c]
        h == FindHost(r, s, n)
    IN IF s \notin r.servers \/ KnownNames(r, s) = {} THEN Undefined(r)
       ELSE [r EXCEPT !.host[c] = h, !.bound[h] = @ \union {c}]

BindClient(r, c, n) ==
    LET s == r.server[c]
        h == FindHost(r, s, n)
    IN IF s \notin r.servers \/ KnownNames(r, s) = {} THEN Undefined(r)
       ELSE [r EXCEPT !.host[c] = h, !.bound[h] = @ \union {c},
                      !.orphans[s] = @ \ {c}]

\* Mutant: the client stays in the list of its former host.
MutSetHost(r, c, n) ==
    IF r.host[c] # NoHost /\ n \in HostNames[r.host[c]] THEN r
    ELSE BindClient(r, c, n)

SetHost(r, c, n) ==
    LET h == r.host[c]
    IN IF h = NoHost THEN BindClient(r, c, n)
       ELSE IF h \notin r.hosts THEN Undefined(r)
       ELSE IF n \in HostNames[h] THEN r
       ELSE BindClient([r EXCEPT !.bound[h] = @ \ {c}], c, n)

NewClient(r, c, s) ==
    [r EXCEPT !.clients = @ \union {c}, !.server[c] = s, !.host[c] = NoHost,
              !.connected[s] = @ \union {c}, !.orphans[s] = @ \union {c}]

-----------------------------------------------------------------------------
(***************************************************************************)
(* The event loop.                                                         *)
(***************************************************************************)
Events ==
    {<<"stdin">>} \union {<<"server", s>> : s \in reg.servers}
                  \union {<<"client", c>> : c \in reg.clients}

\* A batch has at most one event of an object.
Batches ==
    {b \in UNION {[1..n -> Events] : n \in 1..MaxBatch} : IsInjective(b)}

Running == ~reg.ub

\* main asks for events as long as there are servers.
EpollWait ==
    /\ Running
    /\ batch = <<>>
    /\ reg.servers # {}
    /\ batch' \in Batches
    /\ UNCHANGED reg

\* The next event of the batch is for an object of this kind.
Current(kind) == Running /\ batch # <<>> /\ Head(batch)[1] = kind

\* "kill all".
KillAll ==
    /\ Current("stdin")
    /\ "all" \in Commands
    /\ reg' = RemoveServers(reg)
    /\ batch' = Tail(batch)

\* The end of stdin: as "kill all", and the rest of the batch is dropped.
CloseStdin ==
    /\ Current("stdin")
    /\ reg' = RemoveServers(reg)
    /\ batch' = <<>>

\* "kill ip port".
KillServer ==
    /\ Current("stdin")
    /\ "server" \in Commands
    /\ \E s \in reg.servers : reg' = RemoveServer(reg, s)
    /\ batch' = Tail(batch)

\* "kill ip port host".
KillHost ==
    /\ Current("stdin")
    /\ "host" \in Commands
    /\ \E s \in reg.servers : \E n \in KnownNames(reg, s) :
         reg' = UnregisterHost(reg, s, reg.hostMap[s][n])
    /\ batch' = Tail(batch)

\* A command that changes nothing: print, an unknown server or host.
OtherCommand ==
    /\ Current("stdin")
    /\ batch' = Tail(batch)
    /\ UNCHANGED reg

\* Mutant: one client too many is accepted.
MutListenEvent ==
    /\ Current("server")
    /\ LET s == Head(batch)[2]
       IN IF s \notin reg.servers THEN reg' = Undefined(reg)
          ELSE \/ UNCHANGED reg
               \/ /\ Cardinality(reg.connected[s]) <= MaxClientNbr
                  /\ \E c \in Clients \ reg.clients :
                       /\ <<"client", c>> \notin Range(batch)
                       /\ reg' = NewClient(reg, c, s)
    /\ batch' = Tail(batch)

\* acceptConnection: a full server closes the connection, accept may fail.
ListenEvent ==
    /\ Current("server")
    /\ LET s == Head(batch)[2]
       IN IF s \notin reg.servers THEN reg' = Undefined(reg)
          ELSE \/ UNCHANGED reg
               \/ /\ Cardinality(reg.connected[s]) < MaxClientNbr
                  /\ \E c \in Clients \ reg.clients :
                       /\ <<"client", c>> \notin Range(batch)
                       /\ reg' = NewClient(reg, c, s)
    /\ batch' = Tail(batch)

\* handleClientEvent: a header is complete, the connection ends, or neither.
ClientEvent ==
    /\ Current("client")
    /\ LET c == Head(batch)[2]
       IN IF c \notin reg.clients THEN reg' = Undefined(reg)
          ELSE \/ UNCHANGED reg
               \/ \E n \in Names : reg' = SetHost(reg, c, n)
               \/ reg' = TerminateAll(reg, {c})
    /\ batch' = Tail(batch)

\* Client::checkTO terminates at most one client, between two batches.
CheckTO ==
    /\ Running
    /\ batch = <<>>
    /\ \E c \in reg.clients : reg' = TerminateAll(reg, {c})
    /\ UNCHANGED batch

(***************************************************************************)
(* Registering the hosts made the servers in created, the others could not *)
(* be bound; startServers erases those that cannot listen.                 *)
(***************************************************************************)
Started(created, up) ==
    [servers |-> up,
     hosts |-> Hosts,
     clients |-> {},
     hostMap |-> [s \in Servers |-> [n \in Names |->
         IF s \in up /\ \E h \in Hosts : s \in HostServers[h] /\ n \in HostNames[h]
         THEN CHOOSE h \in Hosts : s \in HostServers[h] /\ n \in HostNames[h]
         ELSE NoHost]],
     orphans |-> [s \in Servers |-> {}],
     connected |-> [s \in Servers |-> {}],
     listens |-> [h \in Hosts |-> HostServers[h] \intersect created],
     bound |-> [h \in Hosts |-> {}],
     server |-> [c \in Clients |-> NoServer],
     host |-> [c \in Clients |-> NoHost],
     ub |-> FALSE]

\* A server is only made for a host.
Wanted == UNION {HostServers[h] : h \in Hosts}

Init ==
    /\ \E created \in SUBSET Wanted : \E up \in SUBSET created :
         reg = Started(created, up)
    /\ batch = <<>>

Next ==
    \/ EpollWait \/ KillAll \/ CloseStdin \/ KillServer \/ KillHost
    \/ OtherCommand \/ ListenEvent \/ ClientEvent \/ CheckTO

Spec == Init /\ [][Next]_vars

-----------------------------------------------------------------------------
(***************************************************************************)
(* Properties.                                                             *)
(***************************************************************************)
\* Every list and pointer has its type, and no server counts more clients
\* than it may have.
TypeOK ==
    /\ reg \in RegistryType
    /\ Len(batch) <= MaxBatch
    /\ \A s \in Servers : Cardinality(reg.connected[s]) <= MaxClientNbr

\* No handler uses an object after its deletion.
NeverUndefined == ~reg.ub

\* A live client hangs on a live server, and its host, if it has one, serves
\* that server: killing servers leaves no client behind.
ClientsServed ==
    \A c \in reg.clients :
        /\ reg.server[c] \in reg.servers
        /\ reg.host[c] # NoHost =>
             /\ reg.host[c] \in reg.hosts
             /\ reg.server[c] \in reg.listens[reg.host[c]]

\* A live client is counted as connected by its server and by no other, and
\* is an orphan exactly while it has no host.
CountedOnce ==
    \A s \in reg.servers :
        LET mine == {c \in reg.clients : reg.server[c] = s}
        IN /\ reg.connected[s] = mine
           /\ reg.orphans[s] = {c \in mine : reg.host[c] = NoHost}

\* The lists of clients and the clients' pointers agree, whatever commands
\* are used: a host holds a client exactly as long as the client is alive and
\* points to it, and no server holds a deleted client.
ListsHoldLiveClients ==
    ~reg.ub =>
      /\ \A h \in reg.hosts :
           reg.bound[h] = {c \in reg.clients : reg.host[c] = h}
      /\ \A s \in reg.servers :
           reg.orphans[s] \union reg.connected[s] \subseteq reg.clients

\* The names of a server and the servers of a host agree: a host is reached by
\* all of its names on the running servers it points to, and by none on the
\* others.
MapMatchesListens ==
    \A s \in reg.servers : \A h \in Hosts : \A n \in HostNames[h] :
        reg.hostMap[s][n] = h <=> s \in reg.listens[h]

\* A running server has a host to fall back on: bindClient takes the first
\* element of the map without looking whether there is one.
ServerHasHost ==
    \A s \in reg.servers : KnownNames(reg, s) # {}

=============================================================================
