--------------------------- MODULE RegistryProofs ---------------------------
(***************************************************************************)
(* The registry of servers, hosts and clients, for every configuration,    *)
(* any number of clients and batches of any length.                        *)
(*                                                                         *)
(* RegistryInv holds whatever commands are used, up to the first use of a  *)
(* deleted object.  TameInv adds that there is no such use, if hosts are   *)
(* not killed and no event follows a kill command in its batch.  Both need *)
(* facts no property says: that a client in a list points back to its      *)
(* holder, that a name of a map is a name of its host, and that the events *)
(* left in a batch are of living objects, each of another one.             *)
(*                                                                         *)
(* Each operator of Registry has a lemma on what it does to the fields of  *)
(* the record (Terminated, Removed, Unassigned, Bound, Accepted); only     *)
(* those effects enter the arguments about the invariants.                 *)
(***************************************************************************)
EXTENDS Registry, FiniteSetTheorems, WellFoundedInduction, TLAPS

\* No server counts more clients than it may have.
Counted(r) ==
    \A s \in Servers : /\ IsFiniteSet(r.connected[s])
                       /\ Cardinality(r.connected[s]) <= MaxClientNbr

\* The names of a running server lead to existing hosts that have the name
\* and point to the server, and there is one.
MapAgrees(r, s) ==
    /\ \E n \in Names : r.hostMap[s][n] # NoHost
    /\ \A n \in Names : r.hostMap[s][n] # NoHost =>
         /\ r.hostMap[s][n] \in r.hosts
         /\ n \in HostNames[r.hostMap[s][n]]
    /\ \A h \in Hosts : \A n \in HostNames[h] :
         r.hostMap[s][n] = h <=> s \in r.listens[h]

\* So do those of every running server.
MapsAgree(r) == \A s \in r.servers : MapAgrees(r, s)

\* A client in a list of a server is alive and points to the server, a client
\* in the list of a host is alive and points to the host; the host of a living
\* client exists and has it.
ListsAgree(r) ==
    /\ \A s \in Servers : \A c \in r.orphans[s] \union r.connected[s] :
         c \in r.clients /\ r.server[c] = s
    /\ \A h \in Hosts : r.bound[h] = {c \in r.clients : r.host[c] = h}
    /\ \A c \in r.clients : r.host[c] # NoHost => r.host[c] \in r.hosts

\* Types and maps are right in every state, lists until something undefined.
Sound(r) ==
    /\ r \in RegistryType
    /\ Counted(r)
    /\ MapsAgree(r)
    /\ ~r.ub => ListsAgree(r)

\* Every event there can be.
AllEvents ==
    {<<"stdin">>} \union {<<"server", s>> : s \in Servers}
                  \union {<<"client", c>> : c \in Clients}

\* The inductive invariant for all commands.
RegistryInv ==
    /\ Sound(reg)
    /\ batch \in Seq(AllEvents)
    /\ Len(batch) <= MaxBatch

-----------------------------------------------------------------------------
\* The null pointer is no host.
LEMMA NoHostIsNone == NoHost \notin Hosts
BY HostsAssumption DEF NoHost

\* A server that loses clients stays below its limit.
LEMMA SubsetCounted ==
    ASSUME NEW r, Counted(r), NEW t,
           \A s \in Servers : t.connected[s] \subseteq r.connected[s]
    PROVE  Counted(t)
<1> SUFFICES ASSUME NEW s \in Servers
             PROVE  /\ IsFiniteSet(t.connected[s])
                    /\ Cardinality(t.connected[s]) <= MaxClientNbr
  BY DEF Counted
<1>1. IsFiniteSet(r.connected[s]) /\ Cardinality(r.connected[s]) <= MaxClientNbr
  BY DEF Counted
<1>2. /\ IsFiniteSet(t.connected[s])
      /\ Cardinality(t.connected[s]) <= Cardinality(r.connected[s])
  BY <1>1, FS_Subset
<1>3. /\ Cardinality(t.connected[s]) \in Nat
      /\ Cardinality(r.connected[s]) \in Nat
  BY <1>1, <1>2, FS_CardinalityType
<1> QED
  BY <1>1, <1>2, <1>3, LimitsAssumption

\* The state in which something undefined happens keeps types and maps.
LEMMA UndefinedSound ==
    ASSUME NEW r, r \in RegistryType, Counted(r), MapsAgree(r)
    PROVE  Sound(Undefined(r)) /\ Undefined(r).ub
<1> DEFINE u == Undefined(r)
<1>1. u \in RegistryType /\ u.ub
  BY DEF Undefined, RegistryType
<1>2. /\ u.servers = r.servers /\ u.hosts = r.hosts /\ u.hostMap = r.hostMap
      /\ u.listens = r.listens /\ u.connected = r.connected
  BY DEF Undefined, RegistryType
<1>3. Counted(u)
  BY <1>2 DEF Counted
<1>4. MapsAgree(u)
  BY <1>2 DEF MapsAgree, MapAgrees
<1> QED
  BY <1>1, <1>3, <1>4 DEF Sound

\* What Client::terminate leaves alone, and what it takes away.
Terminated(r, t, S) ==
    /\ t \in RegistryType
    /\ t.servers = r.servers /\ t.hosts = r.hosts /\ t.hostMap = r.hostMap
    /\ t.listens = r.listens /\ t.server = r.server /\ t.host = r.host
    /\ t.ub = r.ub
    /\ t.clients = r.clients \ S
    /\ \A h \in Hosts : t.bound[h] = r.bound[h] \ {c \in S : r.host[c] = h}
    /\ \A s \in Servers :
         /\ t.orphans[s] = r.orphans[s] \ {c \in S : r.server[c] = s}
         /\ t.connected[s] = r.connected[s] \ {c \in S : r.server[c] = s}

\* No client of S is deleted already, or has lost its server or its host.
Terminable(r, S) ==
    \A c \in S : /\ c \in r.clients
                 /\ r.server[c] \in r.servers
                 /\ r.host[c] = NoHost \/ r.host[c] \in r.hosts

\* Client::terminate on each client of S, if none of its pointers dangles.
LEMMA TerminateEffect ==
    ASSUME NEW r, r \in RegistryType, NEW S
    PROVE  LET t == TerminateAll(r, S)
           IN IF Terminable(r, S) THEN Terminated(r, t, S)
              ELSE t = Undefined(r)
<1> DEFINE t == TerminateAll(r, S)
<1>1. CASE Terminable(r, S)
  <2> DEFINE gone(s) == {c \in S : r.server[c] = s}
             left(h) == {c \in S : r.host[c] = h}
             b == [h \in Hosts |-> r.bound[h] \ left(h)]
             o == [s \in Servers |-> r.orphans[s] \ gone(s)]
             k == [s \in Servers |-> r.connected[s] \ gone(s)]
  <2>1. t = [r EXCEPT !.clients = @ \ S, !.bound = b, !.orphans = o,
                      !.connected = k]
    BY <1>1 DEF Terminable, TerminateAll
  <2>2. /\ b \in [Hosts -> SUBSET Clients]
        /\ o \in [Servers -> SUBSET Clients]
        /\ k \in [Servers -> SUBSET Clients]
    BY DEF RegistryType
  <2>3. /\ \A h \in Hosts : b[h] = r.bound[h] \ {c \in S : r.host[c] = h}
        /\ \A s \in Servers :
             /\ o[s] = r.orphans[s] \ {c \in S : r.server[c] = s}
             /\ k[s] = r.connected[s] \ {c \in S : r.server[c] = s}
    OBVIOUS
  <2> HIDE DEF b, o, k, gone, left
  <2>4. /\ t.servers = r.servers /\ t.hosts = r.hosts /\ t.hostMap = r.hostMap
        /\ t.listens = r.listens /\ t.server = r.server /\ t.host = r.host
        /\ t.ub = r.ub /\ t.clients = r.clients \ S
        /\ t.bound = b /\ t.orphans = o /\ t.connected = k
    BY <2>1 DEF RegistryType
  <2>5. t \in RegistryType
    BY <2>1, <2>2, ZenonT(60) DEF RegistryType
  <2> QED
    BY <1>1, <2>3, <2>4, <2>5 DEF Terminated
<1>2. CASE ~Terminable(r, S)
  BY <1>2 DEF Terminable, TerminateAll
<1> QED
  BY <1>1, <1>2

\* Terminating clients takes them out of every list that held them.
LEMMA TerminatedSound ==
    ASSUME NEW r, Sound(r), ~r.ub, NEW S, NEW t, Terminated(r, t, S)
    PROVE  Sound(t)
<1>1. Counted(t)
  <2>1. \A s \in Servers : t.connected[s] \subseteq r.connected[s]
    BY DEF Terminated
  <2> QED
    BY <2>1, SubsetCounted DEF Sound
<1>2. MapsAgree(t)
  BY DEF Terminated, MapsAgree, MapAgrees, Sound
<1>3. ListsAgree(t)
  <2>1. ListsAgree(r)
    BY DEF Sound
  <2>2. \A s \in Servers : \A c \in t.orphans[s] \union t.connected[s] :
          c \in t.clients /\ t.server[c] = s
    BY <2>1 DEF Terminated, ListsAgree
  <2>3. \A h \in Hosts : t.bound[h] = {c \in t.clients : t.host[c] = h}
    BY <2>1 DEF Terminated, ListsAgree
  <2>4. \A c \in t.clients : t.host[c] # NoHost => t.host[c] \in t.hosts
    BY <2>1 DEF Terminated, ListsAgree
  <2> QED
    BY <2>2, <2>3, <2>4 DEF ListsAgree
<1> QED
  BY <1>1, <1>2, <1>3 DEF Sound, Terminated

\* Client::terminate keeps the lists right or is undefined.
LEMMA TerminateSound ==
    ASSUME NEW r, Sound(r), ~r.ub, NEW S
    PROVE  Sound(TerminateAll(r, S))
<1> DEFINE t == TerminateAll(r, S)
<1>1. IF Terminable(r, S) THEN Terminated(r, t, S) ELSE t = Undefined(r)
  BY TerminateEffect DEF Sound
<1>2. CASE Terminable(r, S)
  BY <1>1, <1>2, TerminatedSound
<1>3. CASE ~Terminable(r, S)
  BY <1>1, <1>3, UndefinedSound DEF Sound
<1> QED
  BY <1>2, <1>3

-----------------------------------------------------------------------------
(***************************************************************************)
(* Removing servers.                                                       *)
(***************************************************************************)
\* The clients in the lists of the servers in S.
Listed(r, S) == UNION {r.orphans[s] \union r.connected[s] : s \in S}

\* What the removal of the servers in S leaves of r.
Removed(r, t, S) ==
    /\ t \in RegistryType
    /\ t.servers = r.servers \ S /\ t.hosts = r.hosts
    /\ t.server = r.server /\ t.host = r.host /\ t.ub = FALSE
    /\ t.clients = r.clients \ Listed(r, S)
    /\ \A h \in Hosts :
         /\ t.bound[h] = r.bound[h] \ {c \in Listed(r, S) : r.host[c] = h}
         /\ t.listens[h] = r.listens[h] \ {s \in S : h \in Assigned(r, s)}
    /\ \A s \in Servers :
         LET gone == {c \in Listed(r, S) : r.server[c] = s}
         IN /\ t.orphans[s] = r.orphans[s] \ gone
            /\ t.connected[s] = r.connected[s] \ gone
            /\ t.hostMap[s] = IF s \in S THEN [n \in Names |-> NoHost]
                              ELSE r.hostMap[s]

\* Removing servers is never undefined: the clients in their lists are alive,
\* point to them, and have a host that exists.
LEMMA RemoveEffect ==
    ASSUME NEW r, r \in RegistryType, ~r.ub, ListsAgree(r),
           NEW S, S \subseteq r.servers
    PROVE  Removed(r, RemoveAll(r, S), S)
<1> DEFINE L == Listed(r, S)
           t == TerminateAll(r, L)
           m == [s \in Servers |-> IF s \in S THEN [n \in Names |-> NoHost]
                                   ELSE t.hostMap[s]]
           l == [h \in Hosts |->
                   t.listens[h] \ {s \in S : h \in Assigned(r, s)}]
           u == RemoveAll(r, S)
<1>1. Terminable(r, L)
  <2> SUFFICES ASSUME NEW s \in S, NEW c \in r.orphans[s] \union r.connected[s]
               PROVE  /\ c \in r.clients
                      /\ r.server[c] \in r.servers
                      /\ r.host[c] = NoHost \/ r.host[c] \in r.hosts
    BY DEF Terminable, Listed
  <2>1. s \in Servers
    BY DEF RegistryType
  <2> QED
    BY <2>1 DEF ListsAgree
<1>2. Terminated(r, t, L)
  BY <1>1, TerminateEffect
<1>3. t \in RegistryType /\ t.ub = FALSE
  BY <1>2 DEF Terminated, RegistryType
<1>4. u = [t EXCEPT !.servers = @ \ S, !.hostMap = m, !.listens = l]
  BY <1>3 DEF RemoveAll, Listed
<1>5. /\ m \in [Servers -> [Names -> Hosts \union {NoHost}]]
      /\ l \in [Hosts -> SUBSET Servers]
  BY <1>3 DEF RegistryType
<1>6. /\ \A s \in Servers :
           m[s] = IF s \in S THEN [n \in Names |-> NoHost] ELSE t.hostMap[s]
      /\ \A h \in Hosts :
           l[h] = t.listens[h] \ {s \in S : h \in Assigned(r, s)}
  OBVIOUS
<1> HIDE DEF m, l, t, L, u
<1>7. /\ u.servers = t.servers \ S /\ u.hosts = t.hosts
      /\ u.server = t.server /\ u.host = t.host /\ u.ub = FALSE
      /\ u.clients = t.clients /\ u.bound = t.bound /\ u.listens = l
      /\ u.orphans = t.orphans /\ u.connected = t.connected /\ u.hostMap = m
  BY <1>3, <1>4 DEF RegistryType
<1>8. u \in RegistryType
  BY <1>3, <1>4, <1>5 DEF RegistryType
<1>9. /\ u.servers = r.servers \ S /\ u.hosts = r.hosts
      /\ u.server = r.server /\ u.host = r.host /\ u.ub = FALSE
      /\ u.clients = r.clients \ L
  BY <1>2, <1>7 DEF Terminated
<1>10. \A h \in Hosts :
         /\ u.bound[h] = r.bound[h] \ {c \in L : r.host[c] = h}
         /\ u.listens[h] = r.listens[h] \ {s \in S : h \in Assigned(r, s)}
  BY <1>2, <1>6, <1>7 DEF Terminated
<1>11. \A s \in Servers :
         /\ u.orphans[s] = r.orphans[s] \ {c \in L : r.server[c] = s}
         /\ u.connected[s] = r.connected[s] \ {c \in L : r.server[c] = s}
         /\ u.hostMap[s] = IF s \in S THEN [n \in Names |-> NoHost]
                           ELSE r.hostMap[s]
  BY <1>2, <1>6, <1>7 DEF Terminated
<1> QED
  BY <1>8, <1>9, <1>10, <1>11 DEF Removed, L, u

\* The servers that stay keep their names and their clients.
LEMMA RemovedSound ==
    ASSUME NEW r, r \in RegistryType, Counted(r), ListsAgree(r),
           NEW S, \A s \in r.servers \ S : MapAgrees(r, s),
           NEW t, Removed(r, t, S)
    PROVE  Sound(t)
<1>1. Counted(t)
  <2>1. \A s \in Servers : t.connected[s] \subseteq r.connected[s]
    BY DEF Removed
  <2> QED
    BY <2>1, SubsetCounted
<1>2. MapsAgree(t)
  <2> SUFFICES ASSUME NEW s \in t.servers
               PROVE  MapAgrees(t, s)
    BY DEF MapsAgree
  <2>1. s \in Servers /\ s \in r.servers \ S
    BY DEF Removed, RegistryType
  <2>2. t.hostMap[s] = r.hostMap[s] /\ t.hosts = r.hosts
    BY <2>1 DEF Removed
  <2>3. \A h \in Hosts : s \in t.listens[h] <=> s \in r.listens[h]
    BY <2>1 DEF Removed
  <2> QED
    BY <2>1, <2>2, <2>3 DEF MapAgrees
<1>3. ListsAgree(t)
  <2>2. \A s \in Servers : \A c \in t.orphans[s] \union t.connected[s] :
          c \in t.clients /\ t.server[c] = s
    BY DEF Removed, ListsAgree
  <2>3. \A h \in Hosts : t.bound[h] = {c \in t.clients : t.host[c] = h}
    BY DEF Removed, ListsAgree
  <2>4. \A c \in t.clients : t.host[c] # NoHost => t.host[c] \in t.hosts
    BY DEF Removed, ListsAgree
  <2> QED
    BY <2>2, <2>3, <2>4 DEF ListsAgree
<1> QED
  BY <1>1, <1>2, <1>3 DEF Sound, Removed

\* ListenServer::removeServer and removeServers keep the registry right.
LEMMA RemoveSound ==
    ASSUME NEW r, Sound(r), ~r.ub, NEW S, S \subseteq r.servers
    PROVE  Sound(RemoveAll(r, S)) /\ Removed(r, RemoveAll(r, S), S)
BY RemoveEffect, RemovedSound DEF Sound, MapsAgree

-----------------------------------------------------------------------------
(***************************************************************************)
(* Unregistering a host.                                                   *)
(***************************************************************************)
\* What unassignHost changes: the names and the count of s, the servers of h.
Unassigned(r, a, s, h) ==
    /\ a \in RegistryType
    /\ a.servers = r.servers /\ a.hosts = r.hosts /\ a.clients = r.clients
    /\ a.orphans = r.orphans /\ a.bound = r.bound
    /\ a.server = r.server /\ a.host = r.host /\ a.ub = r.ub
    /\ \A z \in Servers :
         /\ a.connected[z] = IF z = s THEN r.connected[s] \ r.bound[h]
                             ELSE r.connected[z]
         /\ z # s => a.hostMap[z] = r.hostMap[z]
    /\ \A n \in Names :
         a.hostMap[s][n] = IF n \in HostNames[h] THEN NoHost
                           ELSE r.hostMap[s][n]
    /\ \A g \in Hosts : a.listens[g] = IF g = h THEN r.listens[g] \ {s}
                                       ELSE r.listens[g]

\* ListenServer::unassignHost takes the names of the host from the map, its
\* clients from _connectedClients and the server from the host.
LEMMA UnassignEffect ==
    ASSUME NEW r, r \in RegistryType, NEW s \in r.servers, NEW h \in Hosts,
           h \in Assigned(r, s)
    PROVE  Unassigned(r, UnassignHost(r, s, h), s, h)
<1> DEFINE a == UnassignHost(r, s, h)
           k == [r.connected EXCEPT ![s] = @ \ r.bound[h]]
           m == [r.hostMap EXCEPT ![s] = [n \in Names |->
                   IF n \in HostNames[h] THEN NoHost ELSE @[n]]]
           l == [r.listens EXCEPT ![h] = @ \ {s}]
<1>1. s \in Servers
  BY DEF RegistryType
<1>2. a = [r EXCEPT !.connected = k, !.hostMap = m, !.listens = l]
  BY DEF UnassignHost
<1>3. /\ k \in [Servers -> SUBSET Clients]
      /\ l \in [Hosts -> SUBSET Servers]
  BY DEF RegistryType
<1>4. m \in [Servers -> [Names -> Hosts \union {NoHost}]]
  <2>1. \A n \in Names : r.hostMap[s][n] \in Hosts \union {NoHost}
    BY <1>1 DEF RegistryType
  <2> QED
    BY <2>1 DEF RegistryType
<1>5. /\ \A z \in Servers : k[z] = IF z = s THEN r.connected[s] \ r.bound[h]
                                   ELSE r.connected[z]
      /\ \A z \in Servers : z # s => m[z] = r.hostMap[z]
      /\ \A n \in Names : m[s][n] = IF n \in HostNames[h] THEN NoHost
                                    ELSE r.hostMap[s][n]
      /\ \A g \in Hosts : l[g] = IF g = h THEN r.listens[g] \ {s}
                                 ELSE r.listens[g]
  BY <1>1 DEF RegistryType
<1> HIDE DEF k, m, l, a
<1>6. a \in RegistryType
  BY <1>2, <1>3, <1>4 DEF RegistryType
<1>7. /\ a.servers = r.servers /\ a.hosts = r.hosts /\ a.clients = r.clients
      /\ a.orphans = r.orphans /\ a.bound = r.bound
      /\ a.server = r.server /\ a.host = r.host /\ a.ub = r.ub
      /\ a.connected = k /\ a.hostMap = m /\ a.listens = l
  BY <1>2 DEF RegistryType
<1> QED
  BY <1>5, <1>6, <1>7 DEF Unassigned, a

\* The lists still hold living clients only.
LEMMA UnassignedLists ==
    ASSUME NEW r, Sound(r), ~r.ub, NEW s \in r.servers, NEW h \in Hosts,
           NEW a, Unassigned(r, a, s, h)
    PROVE  Counted(a) /\ ListsAgree(a)
<1>1. Counted(a)
  <2>1. \A z \in Servers : a.connected[z] \subseteq r.connected[z]
    BY DEF Unassigned
  <2> QED
    BY <2>1, SubsetCounted DEF Sound
<1>2. ListsAgree(r)
  BY DEF Sound
<1>3. \A z \in Servers : \A c \in a.orphans[z] \union a.connected[z] :
        c \in a.clients /\ a.server[c] = z
  BY <1>2 DEF Unassigned, ListsAgree
<1>4. /\ \A g \in Hosts : a.bound[g] = {c \in a.clients : a.host[c] = g}
      /\ \A c \in a.clients : a.host[c] # NoHost => a.host[c] \in a.hosts
  BY <1>2 DEF Unassigned, ListsAgree
<1> QED
  BY <1>1, <1>3, <1>4 DEF ListsAgree

\* The maps of the other servers are as they were; the server's own agrees,
\* unless it lost its last name.
LEMMA UnassignedMaps ==
    ASSUME NEW r, Sound(r), NEW s \in r.servers, NEW h \in Hosts,
           h \in Assigned(r, s), NEW a, Unassigned(r, a, s, h)
    PROVE  /\ \A z \in r.servers \ {s} : MapAgrees(a, z)
           /\ Assigned(a, s) # {} => MapAgrees(a, s)
<1>1. \A z \in r.servers : MapAgrees(r, z)
  BY DEF Sound, MapsAgree
<1>2. \A z \in r.servers \ {s} : MapAgrees(a, z)
  <2> SUFFICES ASSUME NEW z \in r.servers, z # s
               PROVE  MapAgrees(a, z)
    OBVIOUS
  <2>1. z \in Servers
    BY DEF Sound, RegistryType
  <2>2. a.hostMap[z] = r.hostMap[z] /\ a.hosts = r.hosts
    BY <2>1 DEF Unassigned
  <2>3. \A g \in Hosts : z \in a.listens[g] <=> z \in r.listens[g]
    BY DEF Unassigned
  <2> QED
    BY <1>1, <2>2, <2>3 DEF MapAgrees
<1>3. ASSUME Assigned(a, s) # {}
      PROVE  MapAgrees(a, s)
  <2>1. s \in Servers /\ a \in RegistryType /\ a.hosts = r.hosts
    BY DEF Sound, RegistryType, Unassigned
  <2>2. \E n \in Names : a.hostMap[s][n] # NoHost
    BY <1>3, NoHostIsNone DEF Assigned
  <2>3. \A n \in Names :
          a.hostMap[s][n] = IF n \in HostNames[h] THEN NoHost
                            ELSE r.hostMap[s][n]
    BY DEF Unassigned
  <2>4. \A n \in Names : a.hostMap[s][n] # NoHost =>
          /\ a.hostMap[s][n] \in a.hosts
          /\ n \in HostNames[a.hostMap[s][n]]
    BY <1>1, <2>1, <2>3 DEF MapAgrees
  <2>5. ASSUME NEW g \in Hosts, NEW n \in HostNames[g]
        PROVE  a.hostMap[s][n] = g <=> s \in a.listens[g]
    <3>1. n \in Names /\ g # NoHost
      BY HostsAssumption, NoHostIsNone
    <3>2. PICK p \in Names : r.hostMap[s][p] = h
      BY DEF Assigned
    <3>3. p \in HostNames[h]
      BY <1>1, <3>2, NoHostIsNone DEF MapAgrees
    <3>4. s \in r.listens[h]
      BY <1>1, <3>2, <3>3 DEF MapAgrees
    <3>5. \A k \in HostNames[h] : r.hostMap[s][k] = h
      BY <1>1, <3>4 DEF MapAgrees
    <3>6. r.hostMap[s][n] = g <=> s \in r.listens[g]
      BY <1>1 DEF MapAgrees
    <3>7. a.listens[g] = IF g = h THEN r.listens[g] \ {s} ELSE r.listens[g]
      BY DEF Unassigned
    <3> QED
      BY <2>3, <3>1, <3>5, <3>6, <3>7
  <2> QED
    BY <2>2, <2>4, <2>5 DEF MapAgrees
<1> QED
  BY <1>2, <1>3

\* Host::removeHost on a host no server has: no name leads to it and, when it
\* is not undefined, no client points to it.
LEMMA RemoveHostSound ==
    ASSUME NEW r, Sound(r), ~r.ub, NEW h \in Hosts, r.listens[h] = {}
    PROVE  Sound(RemoveHost(r, h))
<1> DEFINE t == RemoveHost(r, h)
<1>1. CASE r.bound[h] # {}
  BY <1>1, UndefinedSound DEF RemoveHost, Sound
<1>2. CASE r.bound[h] = {}
  <2>1. t = [r EXCEPT !.hosts = @ \ {h}]
    BY <1>2 DEF RemoveHost
  <2>2. /\ t \in RegistryType
        /\ t.hosts = r.hosts \ {h} /\ t.servers = r.servers
        /\ t.hostMap = r.hostMap /\ t.listens = r.listens
        /\ t.clients = r.clients /\ t.orphans = r.orphans
        /\ t.connected = r.connected /\ t.bound = r.bound
        /\ t.server = r.server /\ t.host = r.host /\ t.ub = r.ub
    BY <2>1 DEF Sound, RegistryType
  <2> HIDE DEF t
  <2>3. Counted(t)
    BY <2>2 DEF Sound, Counted
  <2>4. MapsAgree(t)
    <3> SUFFICES ASSUME NEW s \in r.servers
                 PROVE  MapAgrees(t, s)
      BY <2>2 DEF MapsAgree
    <3>1. MapAgrees(r, s)
      BY DEF Sound, MapsAgree
    <3>2. \A n \in Names : r.hostMap[s][n] # h
      BY <3>1, NoHostIsNone DEF MapAgrees
    <3> QED
      BY <2>2, <3>1, <3>2 DEF MapAgrees
  <2>5. ListsAgree(t)
    <3>1. ListsAgree(r)
      BY DEF Sound
    <3>2. \A c \in r.clients : r.host[c] # h
      BY <1>2, <3>1 DEF ListsAgree
    <3> QED
      BY <2>2, <3>1, <3>2 DEF ListsAgree
  <2> QED
    BY <2>2, <2>3, <2>4, <2>5 DEF Sound, t
<1> QED
  BY <1>1, <1>2

\* ListenServer::unregisterHost keeps the registry right: a server without a
\* name goes before anybody can look for a host on it.
LEMMA UnregisterSound ==
    ASSUME NEW r, Sound(r), ~r.ub, NEW s \in r.servers, NEW h \in Hosts,
           h \in Assigned(r, s)
    PROVE  Sound(UnregisterHost(r, s, h))
<1> DEFINE a == UnassignHost(r, s, h)
           b == IF Assigned(a, s) = {} THEN RemoveServer(a, s) ELSE a
<1>1. Unassigned(r, a, s, h)
  BY UnassignEffect DEF Sound
<1>2. Counted(a) /\ ListsAgree(a)
  BY <1>1, UnassignedLists
<1>3. /\ a \in RegistryType /\ a.servers = r.servers /\ a.ub = r.ub
      /\ a.ub \in BOOLEAN
  BY <1>1 DEF Unassigned, RegistryType
<1>4. Sound(b) /\ ~b.ub
  <2>1. CASE Assigned(a, s) = {}
    <3>1. Removed(a, RemoveAll(a, {s}), {s})
      BY <1>2, <1>3, RemoveEffect
    <3>2. Sound(RemoveAll(a, {s}))
      BY <1>1, <1>2, <1>3, <3>1, UnassignedMaps, RemovedSound
    <3> QED
      BY <2>1, <3>1, <3>2 DEF RemoveServer, Removed
  <2>2. CASE Assigned(a, s) # {}
    <3>1. MapsAgree(a)
      BY <1>1, <1>3, <2>2, UnassignedMaps DEF MapsAgree
    <3> QED
      BY <1>2, <1>3, <2>2, <3>1 DEF Sound
  <2> QED
    BY <2>1, <2>2
<1>5. UnregisterHost(r, s, h) =
        IF ~b.ub /\ b.listens[h] = {} THEN RemoveHost(b, h) ELSE b
  BY DEF UnregisterHost
<1> HIDE DEF b
<1> QED
  BY <1>4, <1>5, RemoveHostSound

-----------------------------------------------------------------------------
(***************************************************************************)
(* Clients come and are bound.                                             *)
(***************************************************************************)
\* The first name of a map is a name of the map.
LEMMA MinIsMember ==
    ASSUME NEW S, S \subseteq Nat, S # {}
    PROVE  Min(S) \in S
<1>1. PICK x \in S : \A y \in S : ~(<<y, x>> \in OpToRel(<, Nat))
  BY NatLessThanWellFounded, WFMin
<1>2. \A y \in S : ~(y < x)
  BY <1>1 DEF OpToRel
<1>3. \A y \in S : x <= y
  BY <1>2
<1> QED
  BY <1>3 DEF Min

\* bindClient on a running server finds a host, and it serves that server.
LEMMA FoundHost ==
    ASSUME NEW r, Sound(r), NEW s \in r.servers, NEW n
    PROVE  /\ KnownNames(r, s) # {}
           /\ FindHost(r, s, n) \in r.hosts
           /\ s \in r.listens[FindHost(r, s, n)]
<1>1. MapAgrees(r, s)
  BY DEF Sound, MapsAgree
<1>2. KnownNames(r, s) # {} /\ KnownNames(r, s) \subseteq Nat
  BY <1>1, NamesAssumption DEF KnownNames, MapAgrees
<1>3. PICK k \in KnownNames(r, s) : FindHost(r, s, n) = r.hostMap[s][k]
  BY <1>2, MinIsMember DEF FindHost
<1>4. /\ k \in Names /\ r.hostMap[s][k] \in r.hosts
      /\ k \in HostNames[r.hostMap[s][k]]
  BY <1>1, <1>3 DEF KnownNames, MapAgrees
<1>5. r.hostMap[s][k] \in Hosts
  BY <1>4 DEF Sound, RegistryType
<1>6. s \in r.listens[r.hostMap[s][k]]
  BY <1>1, <1>4, <1>5 DEF MapAgrees
<1> QED
  BY <1>2, <1>3, <1>4, <1>6

\* What setHost does to the client c when it binds it to h.
Bound(r, t, c, h) ==
    /\ t \in RegistryType
    /\ t.servers = r.servers /\ t.hosts = r.hosts /\ t.clients = r.clients
    /\ t.hostMap = r.hostMap /\ t.listens = r.listens
    /\ t.connected = r.connected /\ t.server = r.server /\ t.ub = r.ub
    /\ \A d \in Clients : t.host[d] = IF d = c THEN h ELSE r.host[d]
    /\ \A g \in Hosts :
         t.bound[g] = IF g = h THEN r.bound[g] \union {c}
                      ELSE IF g = r.host[c] THEN r.bound[g] \ {c}
                      ELSE r.bound[g]
    /\ \A s \in Servers :
         t.orphans[s] = IF s = r.server[c] THEN r.orphans[s] \ {c}
                        ELSE r.orphans[s]

\* ListenServer::bindClient, after Client::setHost took the client (q) from
\* the host it had.
LEMMA BindEffect ==
    ASSUME NEW r, Sound(r), ~r.ub, NEW c \in r.clients,
           r.server[c] \in r.servers, NEW n,
           NEW q, q \in RegistryType,
           q = [r EXCEPT !.bound = q.bound],
           \A g \in Hosts : q.bound[g] = IF g = r.host[c] THEN r.bound[g] \ {c}
                                         ELSE r.bound[g]
    PROVE  Bound(r, BindClient(q, c, n), c, FindHost(r, r.server[c], n))
<1> DEFINE s == r.server[c]
           h == FindHost(q, s, n)
           t == BindClient(q, c, n)
           b == [q.bound EXCEPT ![h] = @ \union {c}]
           o == [q.orphans EXCEPT ![s] = @ \ {c}]
           v == [q.host EXCEPT ![c] = h]
<1>1. /\ q.servers = r.servers /\ q.hosts = r.hosts /\ q.clients = r.clients
      /\ q.hostMap = r.hostMap /\ q.listens = r.listens
      /\ q.connected = r.connected /\ q.server = r.server /\ q.ub = r.ub
      /\ q.host = r.host /\ q.orphans = r.orphans
  BY DEF Sound, RegistryType
<1>2. /\ h = FindHost(r, s, n) /\ KnownNames(q, s) = KnownNames(r, s)
  BY <1>1 DEF FindHost, KnownNames
<1>3. /\ h \in r.hosts /\ h \in Hosts /\ s \in Servers /\ c \in Clients
      /\ KnownNames(q, s) # {}
  BY <1>2, FoundHost DEF Sound, RegistryType
<1>4. t = [q EXCEPT !.host = v, !.bound = b, !.orphans = o]
  BY <1>1, <1>3 DEF BindClient
<1>5. /\ b \in [Hosts -> SUBSET Clients]
      /\ o \in [Servers -> SUBSET Clients]
      /\ v \in [Clients -> Hosts \union {NoHost}]
  BY <1>3 DEF RegistryType
<1>6. /\ \A d \in Clients : v[d] = IF d = c THEN h ELSE r.host[d]
      /\ \A g \in Hosts : b[g] = IF g = h THEN q.bound[g] \union {c}
                                 ELSE q.bound[g]
      /\ \A z \in Servers : o[z] = IF z = s THEN r.orphans[z] \ {c}
                                   ELSE r.orphans[z]
  BY <1>1, <1>3 DEF RegistryType
<1>7. \A g \in Hosts : b[g] = IF g = h THEN r.bound[g] \union {c}
                              ELSE IF g = r.host[c] THEN r.bound[g] \ {c}
                              ELSE r.bound[g]
  BY <1>6
<1> HIDE DEF b, o, v, t, h
<1>8. t \in RegistryType
  BY <1>4, <1>5 DEF RegistryType
<1>9. /\ t.servers = q.servers /\ t.hosts = q.hosts /\ t.clients = q.clients
      /\ t.hostMap = q.hostMap /\ t.listens = q.listens
      /\ t.connected = q.connected /\ t.server = q.server /\ t.ub = q.ub
      /\ t.host = v /\ t.bound = b /\ t.orphans = o
  BY <1>4 DEF RegistryType
<1> QED
  BY <1>1, <1>2, <1>6, <1>7, <1>8, <1>9 DEF Bound, t

\* Binding a client moves it between the lists of hosts and out of the orphans.
LEMMA BoundSound ==
    ASSUME NEW r, Sound(r), ~r.ub, NEW c \in r.clients, NEW h \in r.hosts,
           NEW t, Bound(r, t, c, h)
    PROVE  Sound(t)
<1>1. Counted(t)
  BY DEF Sound, Counted, Bound
<1>2. MapsAgree(t)
  BY DEF Sound, MapsAgree, MapAgrees, Bound
<1>3. /\ ListsAgree(r) /\ r.clients \subseteq Clients /\ r.hosts \subseteq Hosts
      /\ h # NoHost
  BY NoHostIsNone DEF Sound, RegistryType
<1>4. \A s \in Servers : \A d \in t.orphans[s] \union t.connected[s] :
        d \in t.clients /\ t.server[d] = s
  <2> SUFFICES ASSUME NEW s \in Servers,
                      NEW d \in t.orphans[s] \union t.connected[s]
               PROVE  d \in t.clients /\ t.server[d] = s
    OBVIOUS
  <2>1. d \in r.orphans[s] \union r.connected[s]
    BY DEF Bound
  <2> QED
    BY <1>3, <2>1 DEF Bound, ListsAgree
<1>5. \A g \in Hosts : t.bound[g] = {d \in t.clients : t.host[d] = g}
  <2> SUFFICES ASSUME NEW g \in Hosts
               PROVE  t.bound[g] = {d \in r.clients : t.host[d] = g}
    BY DEF Bound
  <2>1. r.bound[g] = {d \in r.clients : r.host[d] = g}
    BY <1>3 DEF ListsAgree
  <2>2. \A d \in r.clients : t.host[d] = IF d = c THEN h ELSE r.host[d]
    BY <1>3 DEF Bound
  <2>3. t.bound[g] = IF g = h THEN r.bound[g] \union {c}
                     ELSE IF g = r.host[c] THEN r.bound[g] \ {c}
                     ELSE r.bound[g]
    BY DEF Bound
  <2> QED
    BY <2>1, <2>2, <2>3
<1>6. \A d \in t.clients : t.host[d] # NoHost => t.host[d] \in t.hosts
  BY <1>3 DEF Bound, ListsAgree
<1> QED
  BY <1>1, <1>2, <1>4, <1>5, <1>6 DEF Sound, Bound, ListsAgree

\* Client::setHost is undefined only when the client's server is gone.
LEMMA SetHostEffect ==
    ASSUME NEW r, Sound(r), ~r.ub, NEW c \in r.clients, NEW n
    PROVE  LET t == SetHost(r, c, n)
           IN \/ r.server[c] \notin r.servers /\ t.ub /\ Sound(t)
              \/ t = r
              \/ /\ r.server[c] \in r.servers
                 /\ Bound(r, t, c, FindHost(r, r.server[c], n))
                 /\ Sound(t)
<1> DEFINE h == r.host[c]
           t == SetHost(r, c, n)
           q == [r EXCEPT !.bound[h] = @ \ {c}]
<1>1. /\ c \in Clients /\ r \in RegistryType /\ ListsAgree(r)
      /\ h \in Hosts \union {NoHost}
  BY DEF Sound, RegistryType
<1>2. h # NoHost => h \in r.hosts /\ h \in Hosts
  BY <1>1 DEF ListsAgree
<1>3. CASE h = NoHost
  <2>1. t = BindClient(r, c, n)
    BY <1>3 DEF SetHost
  <2>2. CASE r.server[c] \notin r.servers
    <3>1. t = Undefined(r)
      BY <2>1, <2>2 DEF BindClient
    <3> QED
      BY <2>2, <3>1, UndefinedSound DEF Sound
  <2>3. CASE r.server[c] \in r.servers
    <3>1. /\ r = [r EXCEPT !.bound = r.bound]
          /\ \A g \in Hosts :
               r.bound[g] = IF g = r.host[c] THEN r.bound[g] \ {c} ELSE r.bound[g]
      BY <1>1, <1>3, NoHostIsNone DEF RegistryType
    <3>2. Bound(r, t, c, FindHost(r, r.server[c], n))
      BY SMTT(30), <1>1, <2>1, <2>3, <3>1, BindEffect
    <3> QED
      BY <2>3, <3>2, FoundHost, BoundSound
  <2> QED
    BY <2>2, <2>3
<1>4. CASE h # NoHost /\ n \in HostNames[h]
  BY <1>2, <1>4 DEF SetHost
<1>5. CASE h # NoHost /\ n \notin HostNames[h]
  <2>1. t = BindClient(q, c, n)
    BY <1>2, <1>5 DEF SetHost
  <2>2. /\ q \in RegistryType /\ q = [r EXCEPT !.bound = q.bound]
        /\ \A g \in Hosts :
             q.bound[g] = IF g = r.host[c] THEN r.bound[g] \ {c} ELSE r.bound[g]
    BY <1>1, <1>2, <1>5 DEF RegistryType
  <2>3. CASE r.server[c] \notin r.servers
    <3>1. /\ q.servers = r.servers /\ q.hosts = r.hosts
          /\ q.hostMap = r.hostMap /\ q.listens = r.listens
          /\ q.connected = r.connected /\ q.server = r.server
      BY <1>1 DEF RegistryType
    <3> HIDE DEF q
    <3>2. t = Undefined(q)
      BY <2>1, <2>3, <3>1 DEF BindClient
    <3>3. Counted(q) /\ MapsAgree(q)
      BY <3>1 DEF Sound, Counted, MapsAgree, MapAgrees
    <3> QED
      BY <2>2, <2>3, <3>2, <3>3, UndefinedSound
  <2>4. CASE r.server[c] \in r.servers
    <3> HIDE DEF q
    <3>1. Bound(r, t, c, FindHost(r, r.server[c], n))
      BY <2>1, <2>2, <2>4, BindEffect
    <3> QED
      BY <2>4, <3>1, FoundHost, BoundSound
  <2> QED
    BY <2>3, <2>4
<1> QED
  BY <1>3, <1>4, <1>5

\* The client c is new, an orphan of s.
Accepted(r, t, c, s) ==
    /\ t \in RegistryType
    /\ t.servers = r.servers /\ t.hosts = r.hosts /\ t.hostMap = r.hostMap
    /\ t.listens = r.listens /\ t.bound = r.bound /\ t.ub = r.ub
    /\ t.clients = r.clients \union {c}
    /\ \A d \in Clients :
         /\ t.server[d] = IF d = c THEN s ELSE r.server[d]
         /\ t.host[d] = IF d = c THEN NoHost ELSE r.host[d]
    /\ \A z \in Servers :
         /\ t.connected[z] = IF z = s THEN r.connected[z] \union {c}
                             ELSE r.connected[z]
         /\ t.orphans[z] = IF z = s THEN r.orphans[z] \union {c}
                           ELSE r.orphans[z]

\* ListenServer::acceptConnection puts the new client in both lists.
LEMMA NewClientEffect ==
    ASSUME NEW r, r \in RegistryType, NEW s \in r.servers, NEW c \in Clients
    PROVE  Accepted(r, NewClient(r, c, s), c, s)
<1> DEFINE t == NewClient(r, c, s)
           k == [r.connected EXCEPT ![s] = @ \union {c}]
           o == [r.orphans EXCEPT ![s] = @ \union {c}]
           w == [r.server EXCEPT ![c] = s]
           v == [r.host EXCEPT ![c] = NoHost]
<1>1. s \in Servers
  BY DEF RegistryType
<1>2. t = [r EXCEPT !.clients = @ \union {c}, !.server = w, !.host = v,
                    !.connected = k, !.orphans = o]
  BY DEF NewClient
<1>3. /\ k \in [Servers -> SUBSET Clients]
      /\ o \in [Servers -> SUBSET Clients]
      /\ w \in [Clients -> Servers \union {NoServer}]
      /\ v \in [Clients -> Hosts \union {NoHost}]
  BY <1>1 DEF RegistryType
<1>4. /\ \A d \in Clients : w[d] = IF d = c THEN s ELSE r.server[d]
      /\ \A d \in Clients : v[d] = IF d = c THEN NoHost ELSE r.host[d]
      /\ \A z \in Servers : k[z] = IF z = s THEN r.connected[z] \union {c}
                                   ELSE r.connected[z]
      /\ \A z \in Servers : o[z] = IF z = s THEN r.orphans[z] \union {c}
                                   ELSE r.orphans[z]
  BY <1>1 DEF RegistryType
<1> HIDE DEF k, o, w, v, t
<1>5. t \in RegistryType
  BY <1>2, <1>3 DEF RegistryType
<1>6. /\ t.servers = r.servers /\ t.hosts = r.hosts /\ t.hostMap = r.hostMap
      /\ t.listens = r.listens /\ t.bound = r.bound /\ t.ub = r.ub
      /\ t.clients = r.clients \union {c}
      /\ t.server = w /\ t.host = v /\ t.connected = k /\ t.orphans = o
  BY <1>2 DEF RegistryType
<1> QED
  BY <1>4, <1>5, <1>6 DEF Accepted, t

\* Accepting below the limit keeps the count.
LEMMA AcceptedSound ==
    ASSUME NEW r, Sound(r), ~r.ub, NEW s \in r.servers,
           NEW c \in Clients \ r.clients,
           Cardinality(r.connected[s]) < MaxClientNbr,
           NEW t, Accepted(r, t, c, s)
    PROVE  Sound(t)
<1>1. Counted(t)
  <2> SUFFICES ASSUME NEW z \in Servers
               PROVE  /\ IsFiniteSet(t.connected[z])
                      /\ Cardinality(t.connected[z]) <= MaxClientNbr
    BY DEF Counted
  <2>1. /\ IsFiniteSet(r.connected[z])
        /\ Cardinality(r.connected[z]) <= MaxClientNbr
    BY DEF Sound, Counted
  <2>2. Cardinality(r.connected[z]) \in Nat
    BY <2>1, FS_CardinalityType
  <2>3. CASE z = s
    <3>1. t.connected[z] = r.connected[z] \union {c}
      BY <2>3 DEF Accepted
    <3>2. /\ IsFiniteSet(t.connected[z])
          /\ \/ Cardinality(t.connected[z]) = Cardinality(r.connected[z])
             \/ Cardinality(t.connected[z]) = Cardinality(r.connected[z]) + 1
      BY <2>1, <3>1, FS_AddElement
    <3> QED
      BY <2>2, <2>3, <3>2, LimitsAssumption
  <2>4. CASE z # s
    BY <2>1, <2>4 DEF Accepted
  <2> QED
    BY <2>3, <2>4
<1>2. MapsAgree(t)
  BY DEF Sound, MapsAgree, MapAgrees, Accepted
<1>3. /\ ListsAgree(r) /\ r.clients \subseteq Clients
  BY DEF Sound, RegistryType
<1>4. \A z \in Servers : \A d \in t.orphans[z] \union t.connected[z] :
        d \in t.clients /\ t.server[d] = z
  <2> SUFFICES ASSUME NEW z \in Servers,
                      NEW d \in t.orphans[z] \union t.connected[z]
               PROVE  d \in t.clients /\ t.server[d] = z
    OBVIOUS
  <2>1. d \in r.orphans[z] \union r.connected[z] \/ (d = c /\ z = s)
    BY DEF Accepted
  <2>2. CASE d \in r.orphans[z] \union r.connected[z]
    <3>1. d \in r.clients /\ r.server[d] = z /\ d # c
      BY <1>3, <2>2 DEF ListsAgree
    <3> QED
      BY <1>3, <3>1 DEF Accepted
  <2>3. CASE d = c /\ z = s
    BY <2>3 DEF Accepted
  <2> QED
    BY <2>1, <2>2, <2>3
<1>5. \A g \in Hosts : t.bound[g] = {d \in t.clients : t.host[d] = g}
  BY <1>3, NoHostIsNone DEF Accepted, ListsAgree
<1>6. \A d \in t.clients : t.host[d] # NoHost => t.host[d] \in t.hosts
  BY <1>3 DEF Accepted, ListsAgree
<1> QED
  BY <1>1, <1>2, <1>4, <1>5, <1>6 DEF Sound, Accepted, ListsAgree

-----------------------------------------------------------------------------
(***************************************************************************)
(* The invariant for all commands.                                         *)
(***************************************************************************)
\* Registering the hosts and starting the servers gives maps and pointers that
\* agree: checkHost has refused what could clash.
LEMMA StartedSound ==
    ASSUME NEW created \in SUBSET Wanted, NEW up \in SUBSET created
    PROVE  Sound(Started(created, up))
<1> DEFINE r == Started(created, up)
           Serves(h, s, n) == s \in HostServers[h] /\ n \in HostNames[h]
           m == [s \in Servers |-> [n \in Names |->
                   IF s \in up /\ \E h \in Hosts : Serves(h, s, n)
                   THEN CHOOSE h \in Hosts : Serves(h, s, n)
                   ELSE NoHost]]
           l == [h \in Hosts |-> HostServers[h] \intersect created]
<1>1. Wanted \subseteq Servers
  BY HostsAssumption DEF Wanted
<1>2. /\ \A s \in Servers : \A n \in Names : \A h \in Hosts :
           s \in up /\ Serves(h, s, n) => m[s][n] = h
      /\ \A s \in Servers : \A n \in Names :
           m[s][n] # NoHost => /\ s \in up
                               /\ m[s][n] \in Hosts
                               /\ Serves(m[s][n], s, n)
      /\ m \in [Servers -> [Names -> Hosts \union {NoHost}]]
  <2>1. \A s \in Servers : \A n \in Names :
          m[s][n] = IF s \in up /\ \E h \in Hosts : Serves(h, s, n)
                    THEN CHOOSE h \in Hosts : Serves(h, s, n)
                    ELSE NoHost
    OBVIOUS
  <2>2. m \in [Servers -> [Names -> Hosts \union {NoHost}]]
    OBVIOUS
  <2>3. \A s, n : \A g, h \in Hosts : Serves(g, s, n) /\ Serves(h, s, n) => g = h
    BY CheckHostAssumption
  <2> HIDE DEF m, Serves
  <2>4. \A s, n : (\E h \in Hosts : Serves(h, s, n)) =>
           /\ (CHOOSE h \in Hosts : Serves(h, s, n)) \in Hosts
           /\ Serves(CHOOSE h \in Hosts : Serves(h, s, n), s, n)
    OBVIOUS
  <2> QED
    BY <2>1, <2>2, <2>3, <2>4
<1>3. l \in [Hosts -> SUBSET Servers]
  BY HostsAssumption
<1>4. /\ r.servers = up /\ r.hosts = Hosts /\ r.clients = {} /\ r.hostMap = m
      /\ r.orphans = [s \in Servers |-> {}]
      /\ r.connected = [s \in Servers |-> {}]
      /\ r.listens = l /\ r.bound = [h \in Hosts |-> {}] /\ r.ub = FALSE
  BY DEF Started
<1>5. r \in RegistryType
  <2> HIDE DEF m, l
  <2>1. r = [servers |-> up, hosts |-> Hosts, clients |-> {}, hostMap |-> m,
             orphans |-> [s \in Servers |-> {}],
             connected |-> [s \in Servers |-> {}], listens |-> l,
             bound |-> [h \in Hosts |-> {}],
             server |-> [c \in Clients |-> NoServer],
             host |-> [c \in Clients |-> NoHost], ub |-> FALSE]
    BY DEF Started, m, l
  <2> HIDE DEF r
  <2> QED
    BY <1>1, <1>2, <1>3, <2>1 DEF RegistryType
<1>6. Counted(r)
  BY <1>4, FS_EmptySet, LimitsAssumption DEF Counted
<1>7. MapsAgree(r)
  <2> HIDE DEF r, m
  <2> SUFFICES ASSUME NEW s \in up
               PROVE  MapAgrees(r, s)
    BY <1>4 DEF MapsAgree
  <2>1. s \in Servers /\ s \in created
    BY <1>1
  <2>2. PICK h \in Hosts : s \in HostServers[h]
    BY <2>1 DEF Wanted
  <2>3. PICK n \in Names : n \in HostNames[h]
    BY CheckHostAssumption, HostsAssumption
  <2>4. m[s][n] # NoHost
    BY <1>2, <2>1, <2>2, <2>3, NoHostIsNone
  <2>5. \A k \in Names : m[s][k] # NoHost =>
          m[s][k] \in Hosts /\ k \in HostNames[m[s][k]]
    BY <1>2, <2>1
  <2>6. ASSUME NEW g \in Hosts, NEW k \in HostNames[g]
        PROVE  m[s][k] = g <=> s \in l[g]
    <3>1. k \in Names /\ g # NoHost
      BY HostsAssumption, NoHostIsNone
    <3> QED
      BY <1>2, <2>1, <3>1
  <2> QED
    BY <1>4, <2>3, <2>4, <2>5, <2>6 DEF MapAgrees
<1>8. ListsAgree(r)
  BY <1>4 DEF ListsAgree
<1> QED
  BY <1>5, <1>6, <1>7, <1>8 DEF Sound

\* The invariant holds when main enters its loop.
LEMMA InitRegistry == Init => RegistryInv
<1> SUFFICES ASSUME Init
             PROVE  RegistryInv
  OBVIOUS
<1>1. Sound(reg)
  BY StartedSound DEF Init
<1>2. batch \in Seq(AllEvents) /\ Len(batch) = 0
  BY DEF Init
<1> QED
  BY <1>1, <1>2, LimitsAssumption DEF RegistryInv

\* A batch has events of the objects that live when epoll_wait returns, each
\* once.
LEMMA BatchEvents ==
    ASSUME reg \in RegistryType, NEW b \in Batches
    PROVE  /\ b \in Seq(AllEvents) /\ Len(b) \in 1..MaxBatch
           /\ \A i \in 1..Len(b) : b[i] \in Events
           /\ \A i, j \in 1..Len(b) : b[i] = b[j] => i = j
<1>1. PICK n \in 1..MaxBatch : b \in [1..n -> Events]
  BY DEF Batches
<1>2. Events \subseteq AllEvents
  BY DEF Events, AllEvents, RegistryType
<1>3. MaxBatch \in Nat
  BY LimitsAssumption
<1>4. b \in Seq(Events) /\ Len(b) = n /\ DOMAIN b = 1..n
  BY <1>1, <1>3
<1>5. \A i, j \in DOMAIN b : b[i] = b[j] => i = j
  BY DEF Batches, IsInjective
<1> HIDE DEF Events, AllEvents
<1> QED
  BY <1>1, <1>2, <1>3, <1>4, <1>5

\* The rest of a batch.
LEMMA TailEvents ==
    ASSUME NEW b \in Seq(AllEvents), b # <<>>
    PROVE  /\ Tail(b) \in Seq(AllEvents)
           /\ Len(Tail(b)) = Len(b) - 1
           /\ Len(b) > 0
           /\ \A i \in 1..Len(Tail(b)) : Tail(b)[i] = b[i + 1]
<1> HIDE DEF AllEvents
<1> QED
  OBVIOUS

\* Every event and every command keeps the invariant.
LEMMA NextRegistry == RegistryInv /\ [Next]_vars => RegistryInv'
<1> SUFFICES ASSUME RegistryInv, [Next]_vars
             PROVE  RegistryInv'
  OBVIOUS
<1> USE DEF RegistryInv
<1>1. MaxBatch \in Nat /\ reg \in RegistryType /\ reg.ub \in BOOLEAN
  BY LimitsAssumption DEF Sound, RegistryType
<1>2. ASSUME NEW kind, Current(kind), batch' = Tail(batch)
      PROVE  batch' \in Seq(AllEvents) /\ Len(batch') <= MaxBatch /\ ~reg.ub
  <2>1. batch # <<>> /\ ~reg.ub
    BY <1>2 DEF Current, Running
  <2> QED
    BY <1>1, <1>2, <2>1, TailEvents
<1>3. CASE EpollWait
  <2>1. batch' \in Seq(AllEvents) /\ Len(batch') \in 1..MaxBatch
    BY <1>1, <1>3, BatchEvents DEF EpollWait
  <2> QED
    BY <1>1, <1>3, <2>1 DEF EpollWait
<1>4. CASE KillAll
  <2>1. Sound(RemoveAll(reg, reg.servers))
    BY <1>4, RemoveSound DEF KillAll, Current, Running
  <2> QED
    BY <1>2, <1>4, <2>1 DEF KillAll, RemoveServers
<1>5. CASE CloseStdin
  <2>1. Sound(RemoveAll(reg, reg.servers))
    BY <1>5, RemoveSound DEF CloseStdin, Current, Running
  <2>2. <<>> \in Seq(AllEvents) /\ Len(<<>>) <= MaxBatch
    BY <1>1
  <2> QED
    BY <1>5, <2>1, <2>2 DEF CloseStdin, RemoveServers
<1>6. CASE KillServer
  <2>1. PICK s \in reg.servers : reg' = RemoveServer(reg, s)
    BY <1>6 DEF KillServer
  <2>2. Sound(RemoveAll(reg, {s}))
    BY <1>6, RemoveSound DEF KillServer, Current, Running
  <2> QED
    BY <1>2, <1>6, <2>1, <2>2 DEF KillServer, RemoveServer
<1>7. CASE KillHost
  <2>1. PICK s \in reg.servers : \E n \in KnownNames(reg, s) :
          reg' = UnregisterHost(reg, s, reg.hostMap[s][n])
    BY <1>7 DEF KillHost
  <2>2. PICK n \in KnownNames(reg, s) :
          reg' = UnregisterHost(reg, s, reg.hostMap[s][n])
    BY <2>1
  <2>3. /\ reg.hostMap[s][n] \in Hosts
        /\ reg.hostMap[s][n] \in Assigned(reg, s)
    BY <1>1 DEF KnownNames, Assigned, RegistryType
  <2>4. Sound(reg')
    BY <1>7, <2>2, <2>3, UnregisterSound DEF KillHost, Current, Running
  <2> QED
    BY <1>2, <1>7, <2>4 DEF KillHost
<1>8. CASE OtherCommand
  BY <1>2, <1>8 DEF OtherCommand
<1>9. CASE ListenEvent
  <2>1. Sound(reg')
    <3> DEFINE s == Head(batch)[2]
    <3>1. ~reg.ub
      BY <1>9 DEF ListenEvent, Current, Running
    <3>2. CASE s \notin reg.servers
      BY <1>9, <3>2, UndefinedSound DEF ListenEvent, Sound
    <3>3. CASE s \in reg.servers /\ UNCHANGED reg
      BY <3>3
    <3>4. CASE /\ s \in reg.servers
               /\ Cardinality(reg.connected[s]) < MaxClientNbr
               /\ \E c \in Clients \ reg.clients : reg' = NewClient(reg, c, s)
      BY <1>1, <3>1, <3>4, NewClientEffect, AcceptedSound
    <3> QED
      BY <1>9, <3>2, <3>3, <3>4 DEF ListenEvent
  <2> QED
    BY <1>2, <1>9, <2>1 DEF ListenEvent
<1>10. CASE ClientEvent
  <2>1. Sound(reg')
    <3> DEFINE c == Head(batch)[2]
    <3>1. ~reg.ub
      BY <1>10 DEF ClientEvent, Current, Running
    <3>2. CASE c \notin reg.clients
      BY <1>10, <3>2, UndefinedSound DEF ClientEvent, Sound
    <3>3. CASE c \in reg.clients /\ UNCHANGED reg
      BY <3>3
    <3>4. CASE c \in reg.clients /\ \E n \in Names : reg' = SetHost(reg, c, n)
      BY <3>1, <3>4, SetHostEffect
    <3>5. CASE reg' = TerminateAll(reg, {c})
      BY <3>1, <3>5, TerminateSound
    <3> QED
      BY <1>10, <3>2, <3>3, <3>4, <3>5 DEF ClientEvent
  <2> QED
    BY <1>2, <1>10, <2>1 DEF ClientEvent
<1>11. CASE CheckTO
  <2>1. Sound(reg')
    BY <1>11, TerminateSound DEF CheckTO, Running
  <2> QED
    BY <1>11, <2>1 DEF CheckTO
<1>12. CASE UNCHANGED vars
  BY <1>12 DEF vars
<1> QED
  BY <1>3, <1>4, <1>5, <1>6, <1>7, <1>8, <1>9, <1>10, <1>11, <1>12 DEF Next

\* Whatever commands are used and however events are batched, up to the first
\* use of a deleted object: maps, pointers and lists agree.
THEOREM RegistryInvariant == Spec => []RegistryInv
BY InitRegistry, NextRegistry, PTL DEF Spec

\* Types, the length of a batch and the limit of clients per server hold for
\* every configuration.
THEOREM RegistryTypeCorrect == Spec => []TypeOK
<1>1. RegistryInv => TypeOK
  BY DEF RegistryInv, Sound, Counted, TypeOK
<1> QED
  BY <1>1, RegistryInvariant, PTL

\* As long as nothing undefined has happened, hosts hold exactly the living
\* clients that point to them and servers hold living clients only.
THEOREM ListsHoldLiveClientsAlways == Spec => []ListsHoldLiveClients
<1>1. RegistryInv => ListsHoldLiveClients
  <2> SUFFICES ASSUME RegistryInv, ~reg.ub
               PROVE  /\ \A h \in reg.hosts :
                           reg.bound[h] = {c \in reg.clients : reg.host[c] = h}
                      /\ \A s \in reg.servers :
                           reg.orphans[s] \union reg.connected[s]
                             \subseteq reg.clients
    BY DEF ListsHoldLiveClients
  <2>1. ListsAgree(reg) /\ reg.hosts \subseteq Hosts /\ reg.servers \subseteq Servers
    BY DEF RegistryInv, Sound, RegistryType
  <2> QED
    BY <2>1 DEF ListsAgree
<1> QED
  BY <1>1, RegistryInvariant, PTL

\* The names of a running server lead to a host exactly when the host points
\* to the server.
THEOREM MapMatchesListensAlways == Spec => []MapMatchesListens
<1>1. RegistryInv => MapMatchesListens
  BY DEF RegistryInv, Sound, MapsAgree, MapAgrees, MapMatchesListens
<1> QED
  BY <1>1, RegistryInvariant, PTL

\* No running server is ever without a host: begin() of _hostMap, which
\* bindClient uses unchecked, exists.
THEOREM ServerHasHostAlways == Spec => []ServerHasHost
<1>1. RegistryInv => ServerHasHost
  BY DEF RegistryInv, Sound, MapsAgree, MapAgrees, ServerHasHost, KnownNames
<1> QED
  BY <1>1, RegistryInvariant, PTL

-----------------------------------------------------------------------------
(***************************************************************************)
(* Without "kill host", and with no event behind a kill command in its     *)
(* batch, nothing undefined happens.                                       *)
(***************************************************************************)
\* Single hosts are not killed, and a kill command has a batch of its own.
KillsAreAlone ==
    /\ "host" \notin Commands
    /\ Commands = {} \/ MaxBatch = 1

\* A living client hangs on a running server, which counts it, and waits for
\* a host or has one that serves the server.
Hung(r) ==
    \A c \in r.clients :
        /\ r.server[c] \in r.servers
        /\ c \in r.connected[r.server[c]]
        /\ r.host[c] = NoHost <=> c \in r.orphans[r.server[c]]
        /\ r.host[c] # NoHost => r.server[c] \in r.listens[r.host[c]]

\* The events to come are of living objects, each of another one.
Live(r, e) ==
    /\ e[1] = "server" => e[2] \in r.servers
    /\ e[1] = "client" => e[2] \in r.clients

BatchLive(r, b) ==
    /\ \A i \in 1..Len(b) : Live(r, b[i])
    /\ \A i, j \in 1..Len(b) : b[i] = b[j] => i = j

\* The inductive invariant where nothing is undefined.
TameInv ==
    /\ RegistryInv
    /\ ~reg.ub
    /\ Hung(reg)
    /\ BatchLive(reg, batch)

\* Removing a server takes all of its clients along.
LEMMA RemovedHung ==
    ASSUME NEW r, Sound(r), ~r.ub, Hung(r), NEW S, S \subseteq r.servers,
           NEW t, Removed(r, t, S)
    PROVE  Hung(t)
<1> SUFFICES ASSUME NEW c \in t.clients
             PROVE  /\ t.server[c] \in t.servers
                    /\ c \in t.connected[t.server[c]]
                    /\ t.host[c] = NoHost <=> c \in t.orphans[t.server[c]]
                    /\ t.host[c] # NoHost => t.server[c] \in t.listens[t.host[c]]
  BY DEF Hung
<1>1. /\ c \in r.clients /\ c \notin Listed(r, S)
      /\ t.server[c] = r.server[c] /\ t.host[c] = r.host[c]
  BY DEF Removed
<1>2. /\ r.server[c] \in r.servers /\ r.server[c] \in Servers
      /\ c \in r.connected[r.server[c]] /\ r.host[c] \in Hosts \union {NoHost}
  BY <1>1 DEF Hung, Sound, RegistryType
<1>3. r.server[c] \notin S
  BY <1>1, <1>2 DEF Listed
<1>4. t.server[c] \in t.servers
  BY <1>1, <1>2, <1>3 DEF Removed
<1>5. /\ c \in t.connected[r.server[c]]
      /\ c \in t.orphans[r.server[c]] <=> c \in r.orphans[r.server[c]]
  BY <1>1, <1>2 DEF Removed
<1>6. r.host[c] = NoHost <=> c \in r.orphans[r.server[c]]
  BY <1>1 DEF Hung
<1>7. r.host[c] # NoHost => r.server[c] \in t.listens[r.host[c]]
  <2> SUFFICES ASSUME r.host[c] # NoHost
               PROVE  r.server[c] \in t.listens[r.host[c]]
    OBVIOUS
  <2>1. r.server[c] \in r.listens[r.host[c]] /\ r.host[c] \in Hosts
    BY <1>1, <1>2 DEF Hung
  <2> QED
    BY <1>3, <2>1 DEF Removed
<1> QED
  BY <1>1, <1>4, <1>5, <1>6, <1>7

\* Terminating a client that hangs on its server is defined and leaves the
\* others where they are.
LEMMA TerminatedHung ==
    ASSUME NEW r, Sound(r), ~r.ub, Hung(r), NEW c \in r.clients
    PROVE  /\ Terminated(r, TerminateAll(r, {c}), {c})
           /\ Hung(TerminateAll(r, {c}))
<1> DEFINE t == TerminateAll(r, {c})
<1>1. Terminable(r, {c})
  BY DEF Terminable, Hung, Sound, ListsAgree
<1>2. Terminated(r, t, {c})
  BY <1>1, TerminateEffect DEF Sound
<1> HIDE DEF t
<1>3. Hung(t)
  <2> SUFFICES ASSUME NEW d \in t.clients
               PROVE  /\ t.server[d] \in t.servers
                      /\ d \in t.connected[t.server[d]]
                      /\ t.host[d] = NoHost <=> d \in t.orphans[t.server[d]]
                      /\ t.host[d] # NoHost => t.server[d] \in t.listens[t.host[d]]
    BY DEF Hung
  <2>1. /\ d \in r.clients /\ d # c
        /\ t.server[d] = r.server[d] /\ t.host[d] = r.host[d]
        /\ t.servers = r.servers /\ t.listens = r.listens
    BY <1>2 DEF Terminated
  <2>2. r.server[d] \in Servers
    BY <2>1 DEF Hung, Sound, RegistryType
  <2>3. /\ d \in t.connected[r.server[d]] <=> d \in r.connected[r.server[d]]
        /\ d \in t.orphans[r.server[d]] <=> d \in r.orphans[r.server[d]]
    BY <1>2, <2>1, <2>2 DEF Terminated
  <2> QED
    BY <2>1, <2>3 DEF Hung
<1> QED
  BY <1>2, <1>3 DEF t

\* A bound client hangs on its server as before.
LEMMA BoundHung ==
    ASSUME NEW r, Sound(r), ~r.ub, Hung(r), NEW c \in r.clients, NEW h \in r.hosts,
           r.server[c] \in r.listens[h],
           NEW t, Bound(r, t, c, h)
    PROVE  Hung(t)
<1> SUFFICES ASSUME NEW d \in t.clients
             PROVE  /\ t.server[d] \in t.servers
                    /\ d \in t.connected[t.server[d]]
                    /\ t.host[d] = NoHost <=> d \in t.orphans[t.server[d]]
                    /\ t.host[d] # NoHost => t.server[d] \in t.listens[t.host[d]]
  BY DEF Hung
<1>1. /\ d \in r.clients /\ d \in Clients /\ c \in Clients
      /\ t.server[d] = r.server[d] /\ t.servers = r.servers
      /\ t.listens = r.listens /\ t.connected = r.connected
      /\ t.host[d] = IF d = c THEN h ELSE r.host[d]
  BY DEF Bound, Sound, RegistryType
<1>2. /\ r.server[d] \in r.servers /\ r.server[d] \in Servers
      /\ d \in r.connected[r.server[d]]
      /\ r.host[d] = NoHost <=> d \in r.orphans[r.server[d]]
      /\ r.host[d] # NoHost => r.server[d] \in r.listens[r.host[d]]
  BY <1>1 DEF Hung, Sound, RegistryType
<1>3. d \in t.orphans[r.server[d]] <=> d # c /\ d \in r.orphans[r.server[d]]
  BY <1>2, ZenonT(60) DEF Bound
<1>4. h # NoHost
  BY NoHostIsNone DEF Sound, RegistryType
<1> QED
  BY <1>1, <1>2, <1>3, <1>4

\* A new client hangs on the server that accepted it, as an orphan.
LEMMA AcceptedHung ==
    ASSUME NEW r, Sound(r), ~r.ub, Hung(r), NEW s \in r.servers,
           NEW c \in Clients \ r.clients, NEW t, Accepted(r, t, c, s)
    PROVE  Hung(t)
<1> SUFFICES ASSUME NEW d \in t.clients
             PROVE  /\ t.server[d] \in t.servers
                    /\ d \in t.connected[t.server[d]]
                    /\ t.host[d] = NoHost <=> d \in t.orphans[t.server[d]]
                    /\ t.host[d] # NoHost => t.server[d] \in t.listens[t.host[d]]
  BY DEF Hung
<1>1. t.servers = r.servers /\ t.listens = r.listens /\ s \in Servers
  BY DEF Accepted, Sound, RegistryType
<1>2. CASE d = c
  <2>1. t.server[d] = s /\ t.host[d] = NoHost
    BY <1>2 DEF Accepted
  <2>2. d \in t.connected[s] /\ d \in t.orphans[s]
    BY <1>1, <1>2 DEF Accepted
  <2> QED
    BY <1>1, <2>1, <2>2
<1>3. CASE d # c
  <2>1. d \in r.clients /\ d \in Clients
    BY <1>3 DEF Accepted, Sound, RegistryType
  <2>2. t.server[d] = r.server[d] /\ t.host[d] = r.host[d]
    BY <1>3, <2>1 DEF Accepted
  <2>3. r.server[d] \in Servers
    BY <2>1 DEF Hung, Sound, RegistryType
  <2>4. \A z \in Servers : /\ d \in t.connected[z] <=> d \in r.connected[z]
                           /\ d \in t.orphans[z] <=> d \in r.orphans[z]
    BY <1>3, ZenonT(60) DEF Accepted
  <2> QED
    BY <1>1, <2>1, <2>2, <2>3, <2>4 DEF Hung
<1> QED
  BY <1>2, <1>3

\* A bound client is not undefined: its server has a host.
LEMMA SetHostHung ==
    ASSUME NEW r, Sound(r), ~r.ub, Hung(r), NEW c \in r.clients, NEW n
    PROVE  LET t == SetHost(r, c, n)
           IN /\ Sound(t) /\ t.ub = r.ub /\ Hung(t)
              /\ t.servers = r.servers /\ t.clients = r.clients
<1> DEFINE t == SetHost(r, c, n)
           h == FindHost(r, r.server[c], n)
<1>1. r.server[c] \in r.servers
  BY DEF Hung
<1>2. t = r \/ (Bound(r, t, c, h) /\ Sound(t))
  BY <1>1, SetHostEffect
<1>3. h \in r.hosts /\ r.server[c] \in r.listens[h]
  BY <1>1, FoundHost
<1> HIDE DEF t, h
<1>4. CASE t = r
  BY <1>4 DEF t
<1>5. CASE Bound(r, t, c, h) /\ Sound(t)
  <2>1. Hung(t)
    BY <1>3, <1>5, BoundHung
  <2>2. t.ub = r.ub /\ t.servers = r.servers /\ t.clients = r.clients
    BY <1>5 DEF Bound
  <2> QED
    BY <1>5, <2>1, <2>2 DEF t
<1> QED
  BY <1>2, <1>4, <1>5

\* The events behind the one that is handled stay alive and distinct.
LEMMA TailLive ==
    ASSUME NEW b \in Seq(AllEvents), b # <<>>, NEW r, BatchLive(r, b), NEW t,
           \A i \in 2..Len(b) : Live(r, b[i]) => Live(t, b[i])
    PROVE  BatchLive(t, Tail(b))
<1>1. /\ Len(Tail(b)) = Len(b) - 1 /\ Len(b) \in Nat /\ Len(b) > 0
      /\ \A i \in 1..Len(Tail(b)) : Tail(b)[i] = b[i + 1]
  BY TailEvents
<1>2. \A i \in 1..Len(Tail(b)) : i + 1 \in 2..Len(b) /\ i + 1 \in 1..Len(b)
  BY <1>1
<1>3. \A i \in 1..Len(Tail(b)) : Live(t, Tail(b)[i])
  BY <1>1, <1>2 DEF BatchLive
<1>4. ASSUME NEW i \in 1..Len(Tail(b)), NEW j \in 1..Len(Tail(b)),
             Tail(b)[i] = Tail(b)[j]
      PROVE  i = j
  <2>1. b[i + 1] = b[j + 1]
    BY <1>1, <1>4
  <2>2. i + 1 = j + 1
    BY <1>2, <2>1 DEF BatchLive
  <2> QED
    BY <2>2
<1> QED
  BY <1>3, <1>4 DEF BatchLive

\* A sequence of length 0 is the empty one.
LEMMA EmptyOfLength ==
    ASSUME NEW T, NEW q \in Seq(T), Len(q) = 0
    PROVE  q = <<>>
OBVIOUS

\* Nothing is undefined when main enters its loop.
LEMMA InitTame == Init => TameInv
<1> SUFFICES ASSUME Init
             PROVE  TameInv
  OBVIOUS
<1>1. reg.clients = {} /\ reg.ub = FALSE /\ batch = <<>>
  BY DEF Init, Started
<1>2. Hung(reg) /\ BatchLive(reg, batch)
  BY <1>1 DEF Hung, BatchLive
<1> QED
  BY <1>1, <1>2, InitRegistry DEF TameInv

\* Without "kill host", and with kill commands in batches of their own, no
\* step is undefined, and events to come stay those of living objects.
LEMMA NextTame ==
    ASSUME KillsAreAlone, TameInv, [Next]_vars
    PROVE  TameInv'
<1>1. /\ Sound(reg) /\ ~reg.ub /\ Hung(reg) /\ reg \in RegistryType
      /\ batch \in Seq(AllEvents) /\ BatchLive(reg, batch)
      /\ Len(batch) <= MaxBatch /\ Len(batch) \in Nat /\ MaxBatch \in Nat
  BY LimitsAssumption DEF TameInv, RegistryInv, Sound
<1>2. RegistryInv'
  BY NextRegistry DEF TameInv
<1> SUFFICES ~reg'.ub /\ Hung(reg') /\ BatchLive(reg', batch')
  BY <1>2 DEF TameInv
\* The servers in S are removed and no event is left.
<1>3. ASSUME NEW S, S \subseteq reg.servers, reg' = RemoveAll(reg, S),
             batch' = <<>>
      PROVE  ~reg'.ub /\ Hung(reg') /\ BatchLive(reg', batch')
  <2>1. Removed(reg, reg', S)
    BY <1>1, <1>3, RemoveSound
  <2>2. Hung(reg')
    BY <1>1, <1>3, <2>1, RemovedHung
  <2> QED
    BY <1>3, <2>1, <2>2 DEF Removed, BatchLive
\* A kill command is the only event of its batch.
<1>4. ASSUME NEW k \in Commands, batch # <<>>
      PROVE  Tail(batch) = <<>>
  <2>1. Len(batch) = 1
    BY <1>1, <1>4 DEF KillsAreAlone
  <2>2. Tail(batch) \in Seq(AllEvents) /\ Len(Tail(batch)) = 0
    BY <1>1, <1>4, <2>1, TailEvents
  <2> QED
    BY <2>2, EmptyOfLength
\* A handled event leaves the events behind it alive.
<1>5. ASSUME batch # <<>>, batch' = Tail(batch),
             reg.servers \subseteq reg'.servers,
             \A c \in reg.clients : <<"client", c>> # Head(batch) => c \in reg'.clients
      PROVE  BatchLive(reg', batch')
  <2>1. ASSUME NEW i \in 2..Len(batch), Live(reg, batch[i])
        PROVE  Live(reg', batch[i])
    <3>1. 1 \in 1..Len(batch) /\ i \in 1..Len(batch) /\ i # 1
      BY <1>1
    <3>2. batch[i] # Head(batch) /\ batch[i] \in AllEvents
      BY <1>1, <1>5, <3>1 DEF BatchLive
    <3>3. CASE batch[i] = <<"stdin">>
      BY <3>3 DEF Live
    <3>4. ASSUME NEW s \in Servers, batch[i] = <<"server", s>>
          PROVE  Live(reg', batch[i])
      BY <1>5, <2>1, <3>4 DEF Live
    <3>5. ASSUME NEW c \in Clients, batch[i] = <<"client", c>>
          PROVE  Live(reg', batch[i])
      BY <1>5, <2>1, <3>2, <3>5 DEF Live
    <3> QED
      BY <3>2, <3>3, <3>4, <3>5 DEF AllEvents
  <2> QED
    BY <1>1, <1>5, <2>1, TailLive
<1>6. CASE EpollWait
  <2>1. /\ \A i \in 1..Len(batch') : batch'[i] \in Events
        /\ \A i, j \in 1..Len(batch') : batch'[i] = batch'[j] => i = j
    BY <1>1, <1>6, BatchEvents DEF EpollWait
  <2>2. \A e \in Events : Live(reg, e)
    BY DEF Events, Live
  <2> QED
    BY <1>1, <1>6, <2>1, <2>2 DEF EpollWait, BatchLive
<1>7. CASE KillAll
  BY <1>3, <1>4, <1>7 DEF KillAll, RemoveServers, Current
<1>8. CASE CloseStdin
  BY <1>3, <1>8 DEF CloseStdin, RemoveServers
<1>9. CASE KillServer
  <2>1. PICK s \in reg.servers : reg' = RemoveServer(reg, s)
    BY <1>9 DEF KillServer
  <2>2. batch' = <<>>
    BY <1>4, <1>9 DEF KillServer, Current
  <2> QED
    BY <1>3, <2>1, <2>2 DEF RemoveServer
<1>10. CASE KillHost
  BY <1>10 DEF KillHost, KillsAreAlone
<1>11. CASE OtherCommand
  BY <1>1, <1>5, <1>11 DEF OtherCommand, Current
<1>12. CASE ListenEvent
  <2> DEFINE s == Head(batch)[2]
  <2>1. /\ batch # <<>> /\ Head(batch)[1] = "server" /\ batch' = Tail(batch)
    BY <1>12 DEF ListenEvent, Current
  <2>2. s \in reg.servers
    <3>1. 1 \in 1..Len(batch) /\ Head(batch) = batch[1]
      BY <1>1, <2>1
    <3> QED
      BY <1>1, <2>1, <3>1 DEF BatchLive, Live
  <2>3. CASE UNCHANGED reg
    BY <1>1, <1>5, <2>1, <2>3
  <2>4. CASE \E c \in Clients \ reg.clients : reg' = NewClient(reg, c, s)
    <3>1. PICK c \in Clients \ reg.clients : Accepted(reg, reg', c, s)
      BY <1>1, <2>2, <2>4, NewClientEffect
    <3>2. Hung(reg')
      BY <1>1, <2>2, <3>1, AcceptedHung
    <3>3. /\ reg'.ub = reg.ub /\ reg'.servers = reg.servers
          /\ reg.clients \subseteq reg'.clients
      BY <3>1 DEF Accepted
    <3> QED
      BY <1>1, <1>5, <2>1, <3>2, <3>3
  <2> QED
    BY <1>12, <2>2, <2>3, <2>4 DEF ListenEvent
<1>13. CASE ClientEvent
  <2> DEFINE c == Head(batch)[2]
  <2>1. batch # <<>> /\ Head(batch)[1] = "client" /\ batch' = Tail(batch)
    BY <1>13 DEF ClientEvent, Current
  <2>2. 1 \in 1..Len(batch) /\ Head(batch) = batch[1]
    BY <1>1, <2>1
  <2>3. c \in reg.clients
    BY <1>1, <2>1, <2>2 DEF BatchLive, Live
  <2>4. Head(batch) = <<"client", c>>
    <3>1. Head(batch) \in AllEvents
      BY <1>1, <2>1
    <3> QED
      BY <2>1, <3>1 DEF AllEvents
  <2>5. CASE UNCHANGED reg
    BY <1>1, <1>5, <2>1, <2>5
  <2>6. CASE \E n \in Names : reg' = SetHost(reg, c, n)
    <3>1. /\ reg'.ub = reg.ub /\ Hung(reg')
          /\ reg'.servers = reg.servers /\ reg'.clients = reg.clients
      BY <1>1, <2>3, <2>6, SetHostHung
    <3> QED
      BY <1>1, <1>5, <2>1, <3>1
  <2>7. CASE reg' = TerminateAll(reg, {c})
    <3>1. Terminated(reg, reg', {c}) /\ Hung(reg')
      BY <1>1, <2>3, <2>7, TerminatedHung
    <3>2. /\ reg'.ub = reg.ub /\ reg'.servers = reg.servers
          /\ reg'.clients = reg.clients \ {c}
      BY <3>1 DEF Terminated
    <3>3. \A d \in reg.clients :
            <<"client", d>> # Head(batch) => d \in reg'.clients
      BY <2>4, <3>2
    <3> QED
      BY <1>1, <1>5, <2>1, <3>1, <3>2, <3>3
  <2> QED
    BY <1>13, <2>3, <2>5, <2>6, <2>7 DEF ClientEvent
<1>14. CASE CheckTO
  <2>1. PICK c \in reg.clients : reg' = TerminateAll(reg, {c})
    BY <1>14 DEF CheckTO
  <2>2. Terminated(reg, reg', {c}) /\ Hung(reg')
    BY <1>1, <2>1, TerminatedHung
  <2> QED
    BY <1>1, <1>14, <2>2 DEF CheckTO, Terminated, BatchLive
<1>15. CASE UNCHANGED vars
  BY <1>1, <1>15 DEF vars
<1> QED
  BY <1>6, <1>7, <1>8, <1>9, <1>10, <1>11, <1>12, <1>13, <1>14, <1>15 DEF Next

\* Without "kill host", and with kill commands in batches of their own, clients
\* hang on their servers and the events of a batch are of living objects.
THEOREM TameInvariant ==
    ASSUME KillsAreAlone
    PROVE  Spec => []TameInv
<1>1. TameInv /\ [Next]_vars => TameInv'
  BY NextTame
<1> QED
  BY <1>1, InitTame, PTL DEF Spec

\* Without "kill host", and with kill commands in batches of their own, no
\* handler uses a deleted object: batches of any length are safe when no
\* command is given.
THEOREM NeverUndefinedAlways ==
    ASSUME KillsAreAlone
    PROVE  Spec => []NeverUndefined
<1>1. TameInv => NeverUndefined
  BY DEF TameInv, NeverUndefined
<1> QED
  BY <1>1, TameInvariant, PTL

\* Under the same condition a living client has a running server, and its host
\* serves that server: killing a server leaves no client behind.
THEOREM ClientsServedAlways ==
    ASSUME KillsAreAlone
    PROVE  Spec => []ClientsServed
<1>1. TameInv => ClientsServed
  <2> SUFFICES ASSUME TameInv, NEW c \in reg.clients
               PROVE  /\ reg.server[c] \in reg.servers
                      /\ reg.host[c] # NoHost =>
                           /\ reg.host[c] \in reg.hosts
                           /\ reg.server[c] \in reg.listens[reg.host[c]]
    BY DEF ClientsServed
  <2> QED
    BY DEF TameInv, RegistryInv, Sound, ListsAgree, Hung
<1> QED
  BY <1>1, TameInvariant, PTL

\* Under the same condition each server counts exactly its living clients, and
\* as orphans exactly those without a host.
THEOREM CountedOnceAlways ==
    ASSUME KillsAreAlone
    PROVE  Spec => []CountedOnce
<1>1. TameInv => CountedOnce
  <2> SUFFICES ASSUME TameInv, NEW s \in reg.servers
               PROVE  LET mine == {c \in reg.clients : reg.server[c] = s}
                      IN /\ reg.connected[s] = mine
                         /\ reg.orphans[s] = {c \in mine : reg.host[c] = NoHost}
    BY DEF CountedOnce
  <2>1. ListsAgree(reg) /\ Hung(reg) /\ s \in Servers
    BY DEF TameInv, RegistryInv, Sound, RegistryType
  <2>2. \A c \in reg.orphans[s] \union reg.connected[s] :
          c \in reg.clients /\ reg.server[c] = s
    BY <2>1 DEF ListsAgree
  <2>3. \A c \in reg.clients : reg.server[c] = s =>
          c \in reg.connected[s] /\ (reg.host[c] = NoHost <=> c \in reg.orphans[s])
    BY <2>1 DEF Hung
  <2> QED
    BY <2>2, <2>3
<1> QED
  BY <1>1, TameInvariant, PTL
=============================================================================
