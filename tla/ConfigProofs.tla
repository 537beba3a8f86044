---------------------------- MODULE ConfigProofs ----------------------------
(***************************************************************************)
(* Every name of a registered host leads to it, and the parser keeps its   *)
(* types, for every configuration file and every edit of it.               *)
(*                                                                         *)
(* NamesReachHost is not inductive: a port of an earlier host that was not *)
(* opened could be opened for a later one, without the earlier one's       *)
(* names.  Reach adds what rules that out: while the file is parsed, the   *)
(* servers are exactly there for the ports that can be bound.              *)
(*                                                                         *)
(* TypeOK is not inductive either.  The directives of a block fill the     *)
(* object of that block, so ConfigInv says that inside a block there is    *)
(* one, with all its fields.  That parseValues returns words rests on      *)
(* Ranked: of the places it reads there is an n-th for every n up to       *)
(* their number.                                                           *)
(***************************************************************************)
EXTENDS Config, Recursion, SequenceTheorems, FiniteSetTheorems

\* hosts is a sequence, of whatever records.
IsList(s) == \E S : s \in Seq(S)

\* The ports of the hosts that can be bound have a server, and no other can
\* get one later.
ServersOpen ==
    /\ DOMAIN servers \intersect Unbindable = {}
    /\ \A i \in DOMAIN hosts : Endpoints(hosts[i]) \ Unbindable \subseteq DOMAIN servers

Reach ==
    /\ IsList(hosts)
    /\ outcome = "parsing" => ServersOpen
    /\ NamesReachHost

\* Append keeps what was there and adds one element behind it.
LEMMA AppendList ==
    ASSUME NEW s, NEW h, IsList(s)
    PROVE  /\ Len(s) \in Nat
           /\ DOMAIN s = 1..Len(s)
           /\ DOMAIN Append(s, h) = 1..(Len(s) + 1)
           /\ \A i \in 1..Len(s) : Append(s, h)[i] = s[i]
           /\ Append(s, h)[Len(s) + 1] = h
           /\ IsList(Append(s, h))
<1>1. PICK S : s \in Seq(S)
  BY DEF IsList
<1> DEFINE T == S \union {h}
<1>2. s \in Seq(T)
  BY <1>1
<1>3. Append(s, h) \in Seq(T)
  BY <1>2
<1> QED
  BY <1>2, <1>3 DEF IsList

\* A step that keeps the hosts and the servers, or ends the parsing with them,
\* keeps Reach.
LEMMA UnchangedReach ==
    ASSUME Reach, UNCHANGED <<hosts, servers>>,
           outcome' = "parsing" => outcome = "parsing"
    PROVE  Reach'
BY DEF Reach, IsList, ServersOpen, NamesReachHost, Endpoints

\* The one step that registers a host: checkServerNames finds none of its names
\* at its ports, so that assignHost takes them all.
LEMMA RegisterReach ==
    ASSUME Reach, outcome = "parsing", NEW h, checkServerNames(h),
           hosts' = Append(hosts, h),
           servers' = registerHost(h, Len(hosts) + 1)
    PROVE  Reach'
<1> DEFINE id == Len(hosts) + 1
           old(e) == IF e \in DOMAIN servers THEN servers[e] ELSE [n \in {} |-> 0]
<1>1. /\ Len(hosts) \in Nat
      /\ DOMAIN hosts = 1..Len(hosts)
      /\ DOMAIN hosts' = 1..id
      /\ \A i \in 1..Len(hosts) : hosts'[i] = hosts[i]
      /\ hosts'[id] = h
      /\ IsList(hosts')
  BY AppendList DEF Reach
<1>2. DOMAIN servers' = DOMAIN servers \union (Endpoints(h) \ Unbindable)
  BY DEF registerHost
<1>3. \A e \in DOMAIN servers' :
          servers'[e] = IF e \in Endpoints(h) THEN assignHost(old(e), h, id)
                                              ELSE servers[e]
  BY DEF registerHost
<1>4. ServersOpen
  BY DEF Reach
<1>5. ServersOpen'
  <2>1. DOMAIN servers' \intersect Unbindable = {}
    BY <1>2, <1>4 DEF ServersOpen
  <2>2. ASSUME NEW i \in DOMAIN hosts'
        PROVE  Endpoints(hosts'[i]) \ Unbindable \subseteq DOMAIN servers'
    <3>1. CASE i = id
      BY <3>1, <1>1, <1>2
    <3>2. CASE i # id
      <4>1. i \in DOMAIN hosts /\ hosts'[i] = hosts[i]
        BY <3>2, <1>1
      <4> QED
        BY <4>1, <1>2, <1>4 DEF ServersOpen
    <3> QED
      BY <3>1, <3>2
  <2> QED
    BY <2>1, <2>2 DEF ServersOpen, Endpoints
<1>6. ASSUME NEW i \in DOMAIN hosts',
             NEW e \in Endpoints(hosts'[i]) \intersect DOMAIN servers',
             NEW n \in ToSet(hosts'[i].names)
      PROVE  n \in DOMAIN servers'[e] /\ servers'[e][n] = i
  <2>1. CASE i = id
    <3>1. e \in Endpoints(h) /\ n \in ToSet(h.names)
      BY <2>1, <1>1
    <3>2. n \notin DOMAIN old(e)
      BY <3>1 DEF checkServerNames
    <3>3. servers'[e] = assignHost(old(e), h, id)
      BY <3>1, <1>3
    <3> HIDE DEF old
    <3> QED
      BY <3>1, <3>2, <3>3, <2>1 DEF assignHost
  <2>2. CASE i # id
    <3>1. i \in DOMAIN hosts /\ hosts'[i] = hosts[i]
      BY <2>2, <1>1
    <3>2. e \in DOMAIN servers
      BY <3>1, <1>2, <1>4 DEF ServersOpen
    <3>3. n \in DOMAIN servers[e] /\ servers[e][n] = i
      BY <3>1, <3>2 DEF Reach, NamesReachHost
    <3>4. CASE e \in Endpoints(h)
      BY <3>2, <3>3, <3>4, <1>3 DEF assignHost
    <3>5. CASE e \notin Endpoints(h)
      BY <3>3, <3>5, <1>3
    <3> QED
      BY <3>4, <3>5
  <2> QED
    BY <2>1, <2>2
<1> QED
  BY <1>1, <1>5, <1>6 DEF Reach, NamesReachHost, Endpoints

\* Erasing servers keeps what the others map.
LEMMA StartReach ==
    ASSUME Reach, startServers
    PROVE  Reach'
<1>1. hosts' = hosts /\ outcome' # "parsing"
  BY DEF startServers
<1>2. /\ DOMAIN servers' \subseteq DOMAIN servers
      /\ \A e \in DOMAIN servers' : servers'[e] = servers[e]
  BY DEF startServers
<1>3. IsList(hosts')
  BY <1>1 DEF Reach
<1>4. NamesReachHost'
  BY <1>1, <1>2 DEF Reach, NamesReachHost, Endpoints
<1> QED
  BY <1>1, <1>3, <1>4 DEF Reach

\* A host dropped for an error leaves the registered ones alone.
LEMMA HostErrorReach ==
    ASSUME Reach, outcome = "parsing", HostError
    PROVE  Reach'
BY UnchangedReach DEF HostError

\* So does the end of a block, whichever way it ends.
LEMMA EndBlockTurnReach ==
    ASSUME Reach, outcome = "parsing", NEW h, NEW err, EndBlockTurn(h, err)
    PROVE  Reach'
BY UnchangedReach, HostErrorReach DEF EndBlockTurn

\* Only EndHost and startServers touch what Reach is about.
LEMMA NextReach ==
    ASSUME Reach, [Next]_vars
    PROVE  Reach'
<1>1. CASE FileDirective
  <2>1. UNCHANGED <<hosts, servers>> /\ outcome = "parsing"
    BY <1>1, ZenonT(60) DEF FileDirective, Parsing, EndOfFile, FileError
  <2> QED
    BY <2>1, UnchangedReach
<1>2. CASE HostDirective
  <2>1. outcome = "parsing"
    BY <1>2 DEF HostDirective, Parsing
  <2>2. HostError \/ UNCHANGED <<hosts, servers>>
    BY <1>2 DEF HostDirective, OpenBlock, Abort
  <2> QED
    BY <2>1, <2>2, UnchangedReach, HostErrorReach
<1>3. CASE EndHost
  <2>1. outcome = "parsing"
    BY <1>3 DEF EndHost, Parsing
  <2>2. PICK h : IF checkHost(h)
                 THEN /\ hosts' = Append(hosts, h)
                      /\ servers' = registerHost(h, Len(hosts) + 1)
                 ELSE HostError
    BY <1>3 DEF EndHost
  <2>3. CASE checkHost(h)
    BY <2>1, <2>2, <2>3, RegisterReach DEF checkHost
  <2>4. CASE ~checkHost(h)
    BY <2>1, <2>2, <2>4, HostErrorReach
  <2> QED
    BY <2>3, <2>4
<1>4. CASE BlockDirective
  <2>1. outcome = "parsing"
    BY <1>4 DEF BlockDirective, Parsing
  <2>2. BlockError \/ UNCHANGED <<hosts, servers>>
    BY <1>4 DEF BlockDirective, Abort
  <2> QED
    BY <2>1, <2>2, UnchangedReach, EndBlockTurnReach DEF BlockError
<1>5. CASE EndBlock
  <2>1. outcome = "parsing"
    BY <1>5 DEF EndBlock, Parsing
  <2>2. \E h, err : EndBlockTurn(h, err)
    BY <1>5 DEF EndBlock, BlockError
  <2> QED
    BY <2>1, <2>2, EndBlockTurnReach
<1>6. CASE startServers
  BY <1>6, StartReach
<1>7. CASE Done \/ UNCHANGED vars
  BY <1>7, UnchangedReach DEF Done, vars
<1> QED
  BY <1>1, <1>2, <1>3, <1>4, <1>5, <1>6, <1>7 DEF Next

\* No file makes the parser register a host one of whose names leads elsewhere:
\* checkServerNames, done before any of its ports is registered, is enough.
THEOREM NamesReachHostAlways == Spec => []NamesReachHost
<1>1. Init => Reach
  BY DEF Init, Reach, IsList, ServersOpen, NamesReachHost
<1>2. Reach /\ [Next]_vars => Reach'
  BY NextReach
<1>3. Reach => NamesReachHost
  BY DEF Reach
<1> QED
  BY <1>1, <1>2, <1>3, PTL DEF Spec

-----------------------------------------------------------------------------
(***************************************************************************)
(* What the readers of the stream return.                                  *)
(***************************************************************************)
\* What is left of the file, or a list of words.
Words == Seq(STRING)

\* There is a first place of a kind, or none before the end.
LEMMA FirstPlace ==
    ASSUME NEW N \in Nat, NEW H \in SUBSET (1..N)
    PROVE  \E i \in 1..(N + 1) : /\ i <= N => i \in H
                                 /\ \A j \in 1..(i - 1) : j \notin H
<1>1. CASE H = {}
  <2>1. N + 1 \in 1..(N + 1) /\ ~(N + 1 <= N)
    OBVIOUS
  <2> QED
    BY <1>1, <2>1
<1>2. CASE H # {}
  <2>1. H \subseteq Nat
    OBVIOUS
  <2>2. PICK i \in H : \A j \in H : i <= j
    BY <1>2, <2>1, Least
  <2>3. i \in 1..(N + 1) /\ \A j \in 1..(i - 1) : ~(i <= j)
    OBVIOUS
  <2> QED
    BY <2>2, <2>3
<1> QED
  BY <1>1, <1>2

\* The n-th of some places.
LEMMA Ranked ==
    ASSUME NEW N \in Nat, NEW R \in SUBSET (1..N), NEW n \in 1..Cardinality(R)
    PROVE  \E i \in R : Cardinality({j \in R : j <= i}) = n
<1> DEFINE U(k) == {j \in R : j <= k}
           f(k) == Cardinality(U(k))
           S == {k \in 0..N : f(k) >= n}
<1>1. IsFiniteSet(R) /\ Cardinality(R) \in Nat
  <2>1. IsFiniteSet(1..N)
    BY FS_Interval
  <2> QED
    BY <2>1, FS_Subset, FS_CardinalityType
<1>2. \A k \in 0..N : IsFiniteSet(U(k)) /\ f(k) \in Nat
  <2> SUFFICES ASSUME NEW k \in 0..N PROVE IsFiniteSet(U(k)) /\ f(k) \in Nat
    OBVIOUS
  <2>1. U(k) \in SUBSET R
    OBVIOUS
  <2> HIDE DEF U
  <2> QED
    BY <1>1, <2>1, FS_Subset, FS_CardinalityType
<1>3. U(0) = {} /\ U(N) = R
  <2>1. \A j \in R : j \in Nat /\ j <= N /\ ~(j <= 0)
    OBVIOUS
  <2> QED
    BY <2>1
<1>4. \A k \in 1..N : f(k) = IF k \in R THEN f(k - 1) + 1 ELSE f(k - 1)
  <2> SUFFICES ASSUME NEW k \in 1..N
               PROVE  f(k) = IF k \in R THEN f(k - 1) + 1 ELSE f(k - 1)
    OBVIOUS
  <2>3. /\ k - 1 \in 0..N /\ k <= k /\ ~(k <= k - 1)
        /\ \A j \in R : j <= k <=> (j <= k - 1 \/ j = k)
    OBVIOUS
  <2>1. CASE k \in R
    <3>1. U(k) = U(k - 1) \union {k} /\ k \notin U(k - 1)
      BY <2>1, <2>3
    <3>2. IsFiniteSet(U(k - 1))
      BY <1>2, <2>3
    <3> HIDE DEF U
    <3> QED
      BY <2>1, <3>1, <3>2, FS_AddElement
  <2>2. CASE k \notin R
    <3>1. U(k) = U(k - 1)
      BY <2>2, <2>3
    <3> QED
      BY <2>2, <3>1
  <2> QED
    BY <2>1, <2>2
<1>5. f(0) = 0 /\ f(N) = Cardinality(R)
  BY <1>3, FS_EmptySet
<1> HIDE DEF U, f
<1>6. N \in S /\ S \subseteq Nat /\ 0 \notin S
  BY <1>1, <1>5
<1>7. PICK x \in S : \A y \in S : x <= y
  <2> HIDE DEF S
  <2> QED
    BY <1>6, Least
<1>8. x \in 1..N /\ x - 1 \in 0..N /\ x - 1 \notin S
  <2>1. x # 0 /\ x \in 0..N
    BY <1>6
  <2>2. ~(x <= x - 1)
    BY <2>1
  <2> QED
    BY <1>7, <2>1, <2>2
<1>9. f(x - 1) < n /\ f(x) >= n /\ f(x - 1) \in Nat
  BY <1>1, <1>2, <1>8
<1>10. f(x) = n /\ x \in R
  BY <1>1, <1>4, <1>8, <1>9
<1> QED
  BY <1>10 DEF f, U

\* Rest of a stream.
LEMMA FromWords ==
    ASSUME NEW s \in Words, NEW i \in Nat \ {0}
    PROVE  From(s, i) \in Words
<1>1. Len(s) \in Nat /\ \A k \in i..Len(s) : s[k] \in STRING
  BY DEF Words
<1> QED
  BY <1>1, SubSeqProperties DEF From, Words

\* The searches end inside the stream, or just behind it.
LEMMA PlacesType ==
    ASSUME NEW s \in Words
    PROVE  /\ FirstAt(s, LAMBDA i : ~Blank(s, i))
                 \in 1..(Len(s) + 1)
           /\ FirstAt(s, LAMBDA i : s[i] \in Delims /\ ~Blank(s, i))
                 \in 1..(Len(s) + 1)
           /\ FirstAt(s, LAMBDA i : s[i] # "\n")
                 \in 1..(Len(s) + 1)
           /\ FirstAt(s, LAMBDA i : s[i] = "}" /\ Depth(s, i) <= 0)
                 \in 1..(Len(s) + 1)
           /\ FirstAt(s, LAMBDA i : s[i] = "{")
                 \in 1..(Len(s) + 1)
<1>2. Len(s) \in Nat
  BY DEF Words
<1>1. \A H \in SUBSET (1..Len(s)) :
          \E i \in 1..(Len(s) + 1) : /\ i <= Len(s) => i \in H
                                     /\ \A j \in 1..(i - 1) : j \notin H
  BY <1>2, FirstPlace, Zenon
<1>3. \A i \in 1..(Len(s) + 1) : /\ i <= Len(s) => i \in 1..Len(s)
                                 /\ \A j \in 1..(i - 1) : j \in 1..Len(s)
  BY <1>2
<1>4. FirstAt(s, LAMBDA i : ~Blank(s, i))
        \in 1..(Len(s) + 1)
  <2> DEFINE P(i) == ~Blank(s, i)
             H == {i \in 1..Len(s) : P(i)}
  <2> HIDE DEF P
  <2>1. \E i \in 1..(Len(s) + 1) : /\ i <= Len(s) => i \in H
                                   /\ \A j \in 1..(i - 1) : j \notin H
    BY <1>1
  <2>2. \E i \in 1..(Len(s) + 1) : /\ i <= Len(s) => P(i)
                                   /\ \A j \in 1..(i - 1) : ~P(j)
    BY <1>3, <2>1
  <2> QED
    BY <2>2 DEF FirstAt, P
<1>5. FirstAt(s, LAMBDA i : s[i] \in Delims /\ ~Blank(s, i))
        \in 1..(Len(s) + 1)
  <2> DEFINE P(i) == s[i] \in Delims /\ ~Blank(s, i)
             H == {i \in 1..Len(s) : P(i)}
  <2> HIDE DEF P
  <2>1. \E i \in 1..(Len(s) + 1) : /\ i <= Len(s) => i \in H
                                   /\ \A j \in 1..(i - 1) : j \notin H
    BY <1>1
  <2>2. \E i \in 1..(Len(s) + 1) : /\ i <= Len(s) => P(i)
                                   /\ \A j \in 1..(i - 1) : ~P(j)
    BY <1>3, <2>1
  <2> QED
    BY <2>2 DEF FirstAt, P
<1>6. FirstAt(s, LAMBDA i : s[i] # "\n")
        \in 1..(Len(s) + 1)
  <2> DEFINE P(i) == s[i] # "\n"
             H == {i \in 1..Len(s) : P(i)}
  <2> HIDE DEF P
  <2>1. \E i \in 1..(Len(s) + 1) : /\ i <= Len(s) => i \in H
                                   /\ \A j \in 1..(i - 1) : j \notin H
    BY <1>1
  <2>2. \E i \in 1..(Len(s) + 1) : /\ i <= Len(s) => P(i)
                                   /\ \A j \in 1..(i - 1) : ~P(j)
    BY <1>3, <2>1
  <2> QED
    BY <2>2 DEF FirstAt, P
<1>7. FirstAt(s, LAMBDA i : s[i] = "}" /\ Depth(s, i) <= 0)
        \in 1..(Len(s) + 1)
  <2> DEFINE P(i) == s[i] = "}" /\ Depth(s, i) <= 0
             H == {i \in 1..Len(s) : P(i)}
  <2> HIDE DEF P
  <2>1. \E i \in 1..(Len(s) + 1) : /\ i <= Len(s) => i \in H
                                   /\ \A j \in 1..(i - 1) : j \notin H
    BY <1>1
  <2>2. \E i \in 1..(Len(s) + 1) : /\ i <= Len(s) => P(i)
                                   /\ \A j \in 1..(i - 1) : ~P(j)
    BY <1>3, <2>1
  <2> QED
    BY <2>2 DEF FirstAt, P
<1>8. FirstAt(s, LAMBDA i : s[i] = "{")
        \in 1..(Len(s) + 1)
  <2> DEFINE P(i) == s[i] = "{"
             H == {i \in 1..Len(s) : P(i)}
  <2> HIDE DEF P
  <2>1. \E i \in 1..(Len(s) + 1) : /\ i <= Len(s) => i \in H
                                   /\ \A j \in 1..(i - 1) : j \notin H
    BY <1>1
  <2>2. \E i \in 1..(Len(s) + 1) : /\ i <= Len(s) => P(i)
                                   /\ \A j \in 1..(i - 1) : ~P(j)
    BY <1>3, <2>1
  <2> QED
    BY <2>2 DEF FirstAt, P
<1> QED
  BY <1>4, <1>5, <1>6, <1>7, <1>8

\* getNextWord gives a word, and leaves words.
LEMMA NextWordType ==
    ASSUME NEW s \in Words
    PROVE  /\ getNextWord(s).rest \in Words
           /\ getNextWord(s).ret = "word" => getNextWord(s).word \in STRING
<1> DEFINE at == FirstAt(s, LAMBDA i : ~Blank(s, i))
<1>1. Len(s) \in Nat
  BY DEF Words
<1>2. at \in 1..(Len(s) + 1)
  BY PlacesType
<1> DEFINE t == SkipBlank(s)
<1>3. t \in Words
  <2>1. at \in Nat \ {0}
    BY <1>1, <1>2
  <2> HIDE DEF at
  <2>2. From(s, at) \in Words
    BY <2>1, FromWords
  <2> QED
    BY <2>2 DEF SkipBlank, at
<1>4. t # <<>> => Head(t) \in STRING /\ Tail(t) \in Words
  <2> HIDE DEF t
  <2> QED
    BY <1>3, HeadTailProperties DEF Words
<1> DEFINE g == getNextWord(s)
<1>5. /\ t = <<>> => g = [ret |-> "eof", word |-> "", rest |-> t]
      /\ t # <<>> /\ Head(t) \in Delims =>
            g = [ret |-> Head(t), word |-> "", rest |-> t]
      /\ t # <<>> /\ Head(t) \notin Delims =>
            g = [ret |-> "word", word |-> Head(t), rest |-> Tail(t)]
  BY DEF getNextWord
<1> HIDE DEF t, at
<1>6. "word" \notin Delims
  BY DEF Delims
<1> HIDE DEF g
<1>7. CASE t = <<>>
  <2>0. g = [ret |-> "eof", word |-> "", rest |-> t]
    BY <1>5, <1>7
  <2>1. g.rest = t /\ g.ret # "word"
    BY <2>0
  <2> QED
    BY <1>3, <2>1 DEF g
<1>8. CASE t # <<>> /\ Head(t) \in Delims
  <2>1. Head(t) # "word"
    BY <1>6, <1>8
  <2>2. g.rest = t /\ g.ret # "word"
    <3>1. g = [ret |-> Head(t), word |-> "", rest |-> t]
      BY <1>5, <1>8
    <3> QED
      BY <2>1, <3>1
  <2> QED
    BY <1>3, <2>2 DEF g
<1>9. CASE t # <<>> /\ Head(t) \notin Delims
  <2>1. g.rest = Tail(t) /\ g.word = Head(t)
    <3>1. g = [ret |-> "word", word |-> Head(t), rest |-> Tail(t)]
      BY <1>5, <1>9
    <3> QED
      BY <3>1
  <2> QED
    BY <1>4, <1>9, <2>1 DEF g
<1> QED
  BY <1>7, <1>8, <1>9

\* parseValues gives words, each of them read, and leaves words.
LEMMA ValuesType ==
    ASSUME NEW s \in Words
    PROVE  parseValues(s).words \in Words /\ parseValues(s).rest \in Words
<1> DEFINE stop == FirstAt(s, LAMBDA i : s[i] \in Delims /\ ~Blank(s, i))
           read == {i \in 1..(stop - 1) : ~Blank(s, i)}
           nth(n) == CHOOSE i \in read : Cardinality({j \in read : j <= i}) = n
           ws == [n \in 1..Cardinality(read) |-> s[nth(n)]]
<1>0. Len(s) \in Nat /\ \A i \in 1..Len(s) : s[i] \in STRING
  BY DEF Words
<1>1. /\ Len(s) \in Nat /\ stop \in 1..(Len(s) + 1)
      /\ \A i \in 1..Len(s) : s[i] \in STRING
  BY <1>0, PlacesType, Zenon
<1>2. parseValues(s) = [words |-> ws, rest |-> From(s, stop)]
  BY DEF parseValues
<1> HIDE DEF stop
<1>3. read \in SUBSET (1..Len(s))
  BY <1>1
<1> HIDE DEF read
<1>4. IsFiniteSet(read) /\ Cardinality(read) \in Nat
  <2>1. IsFiniteSet(1..Len(s))
    BY <1>1, FS_Interval
  <2> QED
    BY <1>3, <2>1, FS_Subset, FS_CardinalityType
<1>5. \A n \in 1..Cardinality(read) : s[nth(n)] \in STRING
  <2> SUFFICES ASSUME NEW n \in 1..Cardinality(read) PROVE s[nth(n)] \in STRING
    OBVIOUS
  <2>1. \E i \in read : Cardinality({j \in read : j <= i}) = n
    BY <1>1, <1>3, Ranked
  <2>2. nth(n) \in read
    BY <2>1
  <2> QED
    BY <1>1, <1>3, <2>2
<1> HIDE DEF nth
<1>6. ws \in Words
  BY <1>4, <1>5 DEF Words
<1>7. From(s, stop) \in Words
  <2>1. stop \in Nat \ {0}
    BY <1>1
  <2> QED
    BY <2>1, FromWords
<1> HIDE DEF ws
<1>8. parseValues(s).words = ws /\ parseValues(s).rest = From(s, stop)
  BY <1>2
<1> QED
  BY <1>6, <1>7, <1>8

\* What follows a semicolon.
LEMMA SemiColonType ==
    ASSUME NEW s \in Words, checkSemiColon(s)
    PROVE  AfterSemiColon(s) \in Words
<1> DEFINE at == FirstAt(s, LAMBDA i : s[i] # "\n")
<1>0. Len(s) \in Nat
  BY DEF Words
<1>1. Len(s) \in Nat /\ at \in 1..(Len(s) + 1)
  BY <1>0, PlacesType, Zenon
<1>2. SkipSpace(s) = From(s, at)
  BY DEF SkipSpace
<1> HIDE DEF at
<1>3. SkipSpace(s) \in Words
  <2>1. at \in Nat \ {0}
    BY <1>1
  <2> QED
    BY <1>2, <2>1, FromWords
<1> QED
  BY <1>3, HeadTailProperties DEF checkSemiColon, AfterSemiColon, Words

\* getNextBlock cuts the stream in two.
LEMMA NextBlockType ==
    ASSUME NEW s \in Words
    PROVE  getNextBlock(s).block \in Words /\ getNextBlock(s).rest \in Words
<1> DEFINE close == FirstAt(s, LAMBDA i : s[i] = "}" /\ Depth(s, i) <= 0)
           open == FirstAt(s, LAMBDA i : s[i] = "{")
           result == CASE close > Len(s) /\ open > Len(s)  -> "LastBlock"
                       [] close > Len(s) /\ open <= Len(s) -> "UnclosedBlock"
                       [] close <= Len(s) /\ open > close  -> "UnexpectedBrace"
                       [] close <= Len(s) /\ open <= close -> "block"
           b == IF result = "block" THEN SubSeq(s, open + 1, close - 1) ELSE <<>>
<1>0. Len(s) \in Nat /\ \A i \in 1..Len(s) : s[i] \in STRING
  BY DEF Words
<1>1. /\ Len(s) \in Nat /\ close \in 1..(Len(s) + 1) /\ open \in 1..(Len(s) + 1)
      /\ \A i \in 1..Len(s) : s[i] \in STRING
  BY <1>0, PlacesType, Zenon
<1>2. getNextBlock(s) = [result |-> result, block |-> b, rest |-> From(s, close + 1)]
  BY DEF getNextBlock
<1> HIDE DEF close, open, result
<1>3. SubSeq(s, open + 1, close - 1) \in Words
  <2>1. open + 1 \in Int /\ close - 1 \in Int
        /\ \A i \in (open + 1)..(close - 1) : i \in 1..Len(s)
    BY <1>1
  <2> QED
    BY <1>1, <2>1, SubSeqProperties DEF Words
<1>4. b \in Words
  <2>1. <<>> \in Words
    BY DEF Words
  <2> QED
    BY <1>3, <2>1
<1>5. From(s, close + 1) \in Words
  <2>1. close + 1 \in Nat \ {0}
    BY <1>1
  <2> QED
    BY <2>1, FromWords
<1> HIDE DEF b
<1>6. getNextBlock(s).block = b /\ getNextBlock(s).rest = From(s, close + 1)
  BY <1>2
<1> QED
  BY <1>4, <1>5, <1>6

-----------------------------------------------------------------------------
(***************************************************************************)
(* What the directives do to the object they fill.                         *)
(***************************************************************************)
\* The objects of BlockType.
Statuses == {0} \union (300..303) \union {307, 308}
LocationObj ==
    [root : Words, methods : SUBSET Methods, dir_listing : BOOLEAN,
     default_uri : Words, upload : BOOLEAN, upload_root : Words,
     redir : Statuses, addr_redir : Words]
CgiObj ==
    [root : Words, methods : SUBSET Methods, exec : Words, extension : Words]

\* What TypeOK says of a host; the other fields may hold anything.
HostFields ==
    {"addr", "ports", "size", "errors", "names", "locations", "cgis"}
HostGood(h) ==
    /\ h = [f \in HostFields |-> h[f]]
    /\ h.ports \subseteq DOMAIN Number
    /\ \A n \in DOMAIN h.locations : h.locations[n].root # <<>>
    /\ \A n \in DOMAIN h.cgis : h.cgis[n].extension # <<>>

\* The object with another value of a field.
Fill(obj, field, v) == [obj EXCEPT ![field] = v]

\* A path of an object gets one word longer, or stays.
LEMMA AppendWordEffect ==
    ASSUME NEW obj, NEW field, NEW s \in Words
    PROVE  /\ AppendWord(obj, field, s).rest \in Words
           /\ \E v : /\ AppendWord(obj, field, s).obj = Fill(obj, field, v)
                     /\ obj[field] \in Words => v \in Words
<1> DEFINE w == getNextWord(s)
           v == IF w.ret = "word" THEN Append(obj[field], w.word) ELSE obj[field]
<1>1. w.rest \in Words /\ (w.ret = "word" => w.word \in STRING)
  BY NextWordType
<1>2. AppendWord(obj, field, s) =
        [ok |-> v # <<>>, obj |-> [obj EXCEPT ![field] = v], rest |-> w.rest]
  BY DEF AppendWord
<1> HIDE DEF w
<1>3. obj[field] \in Words => v \in Words
  <2>1. \A x \in Words, y \in STRING : Append(x, y) \in Words
    BY AppendProperties DEF Words
  <2> QED
    BY <1>1, <2>1
<1> HIDE DEF v
<1>4. /\ AppendWord(obj, field, s).rest = w.rest
      /\ AppendWord(obj, field, s).obj = Fill(obj, field, v)
  BY <1>2 DEF Fill
<1> QED
  BY <1>1, <1>3, <1>4

\* A field gets the meaning of a word.
LEMMA SetWordEffect ==
    ASSUME NEW obj, NEW field, NEW s \in Words, NEW meaning
    PROVE  SetWord(obj, field, s, meaning).ok =>
             /\ SetWord(obj, field, s, meaning).rest \in Words
             /\ \E v : /\ SetWord(obj, field, s, meaning).obj = Fill(obj, field, v)
                       /\ \E x \in DOMAIN meaning : v = meaning[x]
<1> DEFINE w == getNextWord(s)
           c == w.ret = "word" /\ w.word \in DOMAIN meaning
<1>1. w.rest \in Words
  BY NextWordType
<1>2. SetWord(obj, field, s, meaning) =
        IF c THEN [ok |-> TRUE, obj |-> [obj EXCEPT ![field] = meaning[w.word]],
                   rest |-> w.rest]
        ELSE [ok |-> FALSE, obj |-> obj, rest |-> <<>>]
  BY DEF SetWord, Raise
<1> HIDE DEF w
<1>3. CASE c
  <2>1. w.word \in DOMAIN meaning
    BY <1>3
  <2>2. /\ SetWord(obj, field, s, meaning).rest = w.rest
        /\ SetWord(obj, field, s, meaning).obj = Fill(obj, field, meaning[w.word])
    BY <1>2, <1>3 DEF Fill
  <2> QED
    BY <1>1, <2>1, <2>2
<1>4. CASE ~c
  BY <1>2, <1>4
<1> QED
  BY <1>3, <1>4

\* Another value of a field that TypeOK does not look at.
LEMMA HostFieldSet ==
    ASSUME NEW h, HostGood(h), NEW v
    PROVE  /\ HostGood(Fill(h, "addr", v))
           /\ HostGood(Fill(h, "errors", v))
           /\ HostGood(Fill(h, "size", v))
           /\ HostGood([h EXCEPT !.names = v])
           /\ v \subseteq DOMAIN Number => HostGood([h EXCEPT !.ports = v])
BY DEF HostGood, HostFields, Fill

\* A directive of a server block leaves a good host when it raises nothing.
LEMMA HostTokenType ==
    ASSUME NEW h, HostGood(h), NEW s \in Words, NEW token,
           handleHostToken(token, s, h).ok
    PROVE  /\ HostGood(handleHostToken(token, s, h).obj)
           /\ handleHostToken(token, s, h).rest \in Words
<1> DEFINE r == handleHostToken(token, s, h)
           v == parseValues(s)
<1>1. v.words \in Words /\ v.rest \in Words
  BY ValuesType
<1>2. CASE token = "listen"
  <2>1. r = parsePorts(h, s)
    BY <1>2 DEF handleHostToken
  <2> DEFINE P == h.ports \union ToSet(v.words)
  <2>2. r = [ok |-> v.words # <<>> /\ ToSet(v.words) \subseteq DOMAIN Number,
             obj |-> [h EXCEPT !.ports = P], rest |-> v.rest]
    BY <2>1 DEF parsePorts
  <2> HIDE DEF r, v
  <2>3. ToSet(v.words) \subseteq DOMAIN Number /\ r.ok
    <3>1. r.ok
      BY DEF r
    <3> QED
      BY <2>2, <3>1
  <2>4. P \subseteq DOMAIN Number
    BY <2>3 DEF HostGood
  <2> HIDE DEF P
  <2>5. r.obj = [h EXCEPT !.ports = P] /\ r.rest = v.rest
    BY <2>2
  <2>6. HostGood([h EXCEPT !.ports = P])
    BY <2>4, HostFieldSet
  <2> QED
    BY <1>1, <2>5, <2>6 DEF r
<1>3. CASE token = "host"
  <2> DEFINE m == [x \in ToSet(s) |-> x]
  <2>1. r = SetWord(h, "addr", s, m)
    BY <1>3 DEF handleHostToken
  <2> HIDE DEF m
  <2>2. r.ok
    OBVIOUS
  <2> HIDE DEF r
  <2>3. PICK x : r.obj = Fill(h, "addr", x) /\ r.rest \in Words
    BY <2>1, <2>2, SetWordEffect
  <2>4. HostGood(Fill(h, "addr", x))
    BY HostFieldSet
  <2> QED
    BY <2>3, <2>4 DEF r
<1>4. CASE token = "server_name"
  <2> DEFINE names == h.names \o v.words
  <2>1. r = [ok |-> names # <<>>, obj |-> [h EXCEPT !.names = names],
             rest |-> v.rest]
    BY <1>4 DEF handleHostToken, parseServerName
  <2> HIDE DEF r, v, names
  <2>2. r.obj = [h EXCEPT !.names = names] /\ r.rest = v.rest
    BY <2>1
  <2>3. HostGood(r.obj)
    BY <2>2, HostFieldSet
  <2> QED
    BY <1>1, <2>2, <2>3 DEF r
<1>5. CASE token = "error_pages"
  <2>1. r = AppendWord(h, "errors", s)
    BY <1>5 DEF handleHostToken
  <2>2. PICK x : r.obj = Fill(h, "errors", x) /\ r.rest \in Words
    BY <2>1, AppendWordEffect
  <2>3. HostGood(Fill(h, "errors", x))
    BY HostFieldSet
  <2> QED
    BY <2>2, <2>3
<1>6. CASE token = "body_max_size"
  <2>1. r = SetWord(h, "size", s, Number)
    BY <1>6 DEF handleHostToken
  <2>2. r.ok
    OBVIOUS
  <2> HIDE DEF r
  <2>3. PICK x : r.obj = Fill(h, "size", x) /\ r.rest \in Words
    BY <2>1, <2>2, SetWordEffect
  <2>4. HostGood(Fill(h, "size", x))
    BY HostFieldSet
  <2> QED
    BY <2>3, <2>4 DEF r
<1>7. CASE token \notin {"listen", "host", "server_name", "error_pages", "body_max_size"}
  <2>1. r = Raise(h)
    BY <1>7 DEF handleHostToken
  <2> QED
    BY <2>1 DEF Raise
<1> QED
  BY <1>2, <1>3, <1>4, <1>5, <1>6, <1>7

\* The fields of a block keep their types.
LEMMA BlockFieldSet ==
    ASSUME NEW v
    PROVE  /\ \A l \in LocationObj :
                 /\ l.root \in Words /\ l.default_uri \in Words
                 /\ l.upload_root \in Words /\ l.addr_redir \in Words
                 /\ v \in Words => /\ Fill(l, "root", v) \in LocationObj
                                   /\ Fill(l, "default_uri", v) \in LocationObj
                                   /\ Fill(l, "upload_root", v) \in LocationObj
                 /\ v \in BOOLEAN => /\ Fill(l, "dir_listing", v) \in LocationObj
                                     /\ Fill(l, "upload", v) \in LocationObj
                 /\ v \subseteq Methods => Fill(l, "methods", v) \in LocationObj
           /\ \A c \in CgiObj :
                 /\ c.root \in Words /\ c.exec \in Words /\ c.extension \in Words
                 /\ v \in Words => /\ Fill(c, "root", v) \in CgiObj
                                   /\ Fill(c, "exec", v) \in CgiObj
                                   /\ Fill(c, "extension", v) \in CgiObj
                 /\ v \subseteq Methods => Fill(c, "methods", v) \in CgiObj
BY DEF LocationObj, CgiObj, Fill

\* parseAllowedMethods raises an exception for any other word.
LEMMA MethodsEffect ==
    ASSUME NEW obj, NEW s \in Words
    PROVE  parseAllowedMethods(obj, s).ok =>
             /\ parseAllowedMethods(obj, s).rest \in Words
             /\ \E v : /\ v \subseteq Methods
                       /\ parseAllowedMethods(obj, s).obj = Fill(obj, "methods", v)
<1> DEFINE v == parseValues(s)
           m == ToSet(v.words)
<1>1. v.rest \in Words
  BY ValuesType
<1> DEFINE d == parseAllowedMethods(obj, s)
<1>2. d = [ok |-> m \subseteq Methods, obj |-> [obj EXCEPT !.methods = m],
           rest |-> v.rest]
  BY DEF parseAllowedMethods
<1> HIDE DEF v, m, d
<1> SUFFICES ASSUME d.ok
             PROVE  /\ d.rest \in Words
                    /\ \E x : x \subseteq Methods /\ d.obj = Fill(obj, "methods", x)
  BY DEF d
<1>3. m \subseteq Methods
  BY <1>2
<1>4. d.rest = v.rest /\ d.obj = [obj EXCEPT !.methods = m]
  BY <1>2
<1>5. d.obj = Fill(obj, "methods", m)
  BY <1>4 DEF Fill
<1> QED
  BY <1>1, <1>3, <1>4, <1>5

\* on and off are truth values.
LEMMA BooleanEffect ==
    ASSUME NEW obj, NEW field, NEW s \in Words
    PROVE  parseBoolean(obj, field, s).ok =>
             /\ parseBoolean(obj, field, s).rest \in Words
             /\ \E v \in BOOLEAN : parseBoolean(obj, field, s).obj = Fill(obj, field, v)
<1> DEFINE m == [w \in {"on", "off"} |-> w = "on"]
           d == parseBoolean(obj, field, s)
<1>1. d = SetWord(obj, field, s, m)
  BY DEF parseBoolean
<1>2. \A x \in DOMAIN m : m[x] \in BOOLEAN
  OBVIOUS
<1> HIDE DEF m, d
<1>3. d.ok => /\ d.rest \in Words
              /\ \E v : d.obj = Fill(obj, field, v) /\ \E x \in DOMAIN m : v = m[x]
  BY <1>1, SetWordEffect
<1>4. d.ok => \E v \in BOOLEAN : d.obj = Fill(obj, field, v)
  BY <1>2, <1>3
<1> QED
  BY <1>3, <1>4 DEF d

\* A redirection has one of the statuses of redirections.
LEMMA RedirectionType ==
    ASSUME NEW l \in LocationObj, NEW s \in Words
    PROVE  parseRedirection(l, s).ok =>
             /\ parseRedirection(l, s).rest \in Words
             /\ parseRedirection(l, s).obj \in LocationObj
<1> DEFINE v == parseValues(s)
           n == Number[v.words[1]]
           good == /\ Len(v.words) >= 2
                   /\ v.words[1] \in DOMAIN Number
                   /\ n \in (300..303) \union {307, 308}
           a == l.addr_redir \o Tail(v.words)
           d == parseRedirection(l, s)
<1>1. v.words \in Words /\ v.rest \in Words
  BY ValuesType
<1>2. d = IF good THEN [ok |-> TRUE, rest |-> v.rest,
                        obj |-> [l EXCEPT !.redir = n, !.addr_redir = a]]
          ELSE [ok |-> FALSE, obj |-> l, rest |-> <<>>]
  BY DEF parseRedirection, Raise
<1> HIDE DEF v, d
<1>3. CASE good
  <2>1. d.rest = v.rest /\ d.obj = [l EXCEPT !.redir = n, !.addr_redir = a]
    <3> HIDE DEF n, a, good
    <3> QED
      BY <1>2, <1>3
  <2>2. a \in Words
    <3>1. l.addr_redir \in Words
      BY BlockFieldSet
    <3>2. v.words # <<>>
      BY <1>1, <1>3 DEF Words
    <3>3. Tail(v.words) \in Words
      BY <1>1, <3>2, HeadTailProperties DEF Words
    <3> QED
      BY <3>1, <3>3, ConcatProperties DEF Words
  <2>3. n \in Statuses
    BY <1>3 DEF Statuses
  <2> HIDE DEF n, a
  <2>4. [l EXCEPT !.redir = n, !.addr_redir = a] \in LocationObj
    BY <2>2, <2>3 DEF LocationObj
  <2> QED
    BY <1>1, <2>1, <2>4 DEF d
<1>4. CASE ~good
  <2> HIDE DEF good, n, a
  <2>1. ~d.ok
    BY <1>2, <1>4
  <2> QED
    BY <2>1 DEF d
<1> QED
  BY <1>3, <1>4

\* A directive of a location that raises nothing leaves a location.
LEMMA LocationTokenType ==
    ASSUME NEW l \in LocationObj, NEW s \in Words, NEW token,
           handleLocationToken(token, s, l).ok
    PROVE  /\ handleLocationToken(token, s, l).obj \in LocationObj
           /\ handleLocationToken(token, s, l).rest \in Words
<1> DEFINE r == handleLocationToken(token, s, l)
<1>1. r.ok
  OBVIOUS
<1> SUFFICES r.obj \in LocationObj /\ r.rest \in Words
  OBVIOUS
<1> HIDE DEF r
<1>2. CASE token = "root"
  <2>1. r = AppendWord(l, "root", s)
    BY <1>2 DEF handleLocationToken, r
  <2>2. PICK v : /\ r.obj = Fill(l, "root", v) /\ r.rest \in Words
                 /\ l["root"] \in Words => v \in Words
    BY <2>1, AppendWordEffect
  <2>3. Fill(l, "root", v) \in LocationObj
    BY <2>2, BlockFieldSet
  <2> QED
    BY <2>2, <2>3
<1>3. CASE token = "default_uri"
  <2>1. r = AppendWord(l, "default_uri", s)
    BY <1>3 DEF handleLocationToken, r
  <2>2. PICK v : /\ r.obj = Fill(l, "default_uri", v) /\ r.rest \in Words
                 /\ l["default_uri"] \in Words => v \in Words
    BY <2>1, AppendWordEffect
  <2>3. Fill(l, "default_uri", v) \in LocationObj
    BY <2>2, BlockFieldSet
  <2> QED
    BY <2>2, <2>3
<1>4. CASE token = "upload_root"
  <2>1. r = AppendWord(l, "upload_root", s)
    BY <1>4 DEF handleLocationToken, r
  <2>2. PICK v : /\ r.obj = Fill(l, "upload_root", v) /\ r.rest \in Words
                 /\ l["upload_root"] \in Words => v \in Words
    BY <2>1, AppendWordEffect
  <2>3. Fill(l, "upload_root", v) \in LocationObj
    BY <2>2, BlockFieldSet
  <2> QED
    BY <2>2, <2>3
<1>5. CASE token = "methods"
  <2>1. r = parseAllowedMethods(l, s)
    BY <1>5 DEF handleLocationToken, r
  <2>2. PICK v : v \subseteq Methods /\ r.obj = Fill(l, "methods", v) /\ r.rest \in Words
    BY <1>1, <2>1, MethodsEffect
  <2>3. Fill(l, "methods", v) \in LocationObj
    BY <2>2, BlockFieldSet
  <2> QED
    BY <2>2, <2>3
<1>6. CASE token = "dir_listing"
  <2>1. r = parseBoolean(l, "dir_listing", s)
    BY <1>6 DEF handleLocationToken, r
  <2>2. PICK v : v \in BOOLEAN /\ r.obj = Fill(l, "dir_listing", v) /\ r.rest \in Words
    BY <1>1, <2>1, BooleanEffect
  <2>3. Fill(l, "dir_listing", v) \in LocationObj
    BY <2>2, BlockFieldSet
  <2> QED
    BY <2>2, <2>3
<1>7. CASE token = "upload"
  <2>1. r = parseBoolean(l, "upload", s)
    BY <1>7 DEF handleLocationToken, r
  <2>2. PICK v : v \in BOOLEAN /\ r.obj = Fill(l, "upload", v) /\ r.rest \in Words
    BY <1>1, <2>1, BooleanEffect
  <2>3. Fill(l, "upload", v) \in LocationObj
    BY <2>2, BlockFieldSet
  <2> QED
    BY <2>2, <2>3
<1>8. CASE token = "return"
  <2>1. r = parseRedirection(l, s)
    BY <1>8 DEF handleLocationToken, r
  <2> QED
    BY <1>1, <2>1, RedirectionType
<1>9. CASE token \notin {"root", "default_uri", "upload_root", "methods", "dir_listing",
                       "upload", "return"}
  <2>1. r = [ok |-> FALSE, obj |-> l, rest |-> <<>>]
    BY <1>9 DEF handleLocationToken, r, Raise
  <2> QED
    BY <1>1, <2>1
<1> QED
  BY <1>2, <1>3, <1>4, <1>5, <1>6, <1>7, <1>8, <1>9

\* The same for a cgi block.
LEMMA CgiTokenType ==
    ASSUME NEW c \in CgiObj, NEW s \in Words, NEW token,
           handleCGIConfigToken(token, s, c).ok
    PROVE  /\ handleCGIConfigToken(token, s, c).obj \in CgiObj
           /\ handleCGIConfigToken(token, s, c).rest \in Words
<1> DEFINE r == handleCGIConfigToken(token, s, c)
<1>1. r.ok
  OBVIOUS
<1> SUFFICES r.obj \in CgiObj /\ r.rest \in Words
  OBVIOUS
<1> HIDE DEF r
<1>2. CASE token = "root"
  <2>1. r = AppendWord(c, "root", s)
    BY <1>2 DEF handleCGIConfigToken, r
  <2>2. PICK v : /\ r.obj = Fill(c, "root", v) /\ r.rest \in Words
                 /\ c["root"] \in Words => v \in Words
    BY <2>1, AppendWordEffect
  <2>3. Fill(c, "root", v) \in CgiObj
    BY <2>2, BlockFieldSet
  <2> QED
    BY <2>2, <2>3
<1>3. CASE token = "exec"
  <2>1. r = AppendWord(c, "exec", s)
    BY <1>3 DEF handleCGIConfigToken, r
  <2>2. PICK v : /\ r.obj = Fill(c, "exec", v) /\ r.rest \in Words
                 /\ c["exec"] \in Words => v \in Words
    BY <2>1, AppendWordEffect
  <2>3. Fill(c, "exec", v) \in CgiObj
    BY <2>2, BlockFieldSet
  <2> QED
    BY <2>2, <2>3
<1>4. CASE token = "identifier"
  <2>1. r = AppendWord(c, "extension", s)
    BY <1>4 DEF handleCGIConfigToken, r
  <2>2. PICK v : /\ r.obj = Fill(c, "extension", v) /\ r.rest \in Words
                 /\ c["extension"] \in Words => v \in Words
    BY <2>1, AppendWordEffect
  <2>3. Fill(c, "extension", v) \in CgiObj
    BY <2>2, BlockFieldSet
  <2> QED
    BY <2>2, <2>3
<1>5. CASE token = "methods"
  <2>1. r = parseAllowedMethods(c, s)
    BY <1>5 DEF handleCGIConfigToken, r
  <2>2. PICK v : v \subseteq Methods /\ r.obj = Fill(c, "methods", v) /\ r.rest \in Words
    BY <1>1, <2>1, MethodsEffect
  <2>3. Fill(c, "methods", v) \in CgiObj
    BY <2>2, BlockFieldSet
  <2> QED
    BY <2>2, <2>3
<1>6. CASE token \notin {"root", "exec", "identifier", "methods"}
  <2>1. r = [ok |-> FALSE, obj |-> c, rest |-> <<>>]
    BY <1>6 DEF handleCGIConfigToken, r, Raise
  <2> QED
    BY <1>1, <2>1
<1> QED
  BY <1>2, <1>3, <1>4, <1>5, <1>6

-----------------------------------------------------------------------------
(***************************************************************************)
(* The type invariant.                                                     *)
(***************************************************************************)
\* BlockType, with names for its parts.
Block ==
    [kind : {"location"}, names : Words, obj : LocationObj]
    \union [kind : {"cgi"}, names : Words, obj : CgiObj]
    \union [kind : {"none"}]

\* What the loops have yet to read, and where the parser is.
StreamGood ==
    /\ edit \in Edits
    /\ level \in {"file", "host", "block"}
    /\ rest \in [file : Words, host : Words, block : Words]
    /\ errorPages \in Words
    /\ error \in BOOLEAN
    /\ outcome \in Outcomes

\* The block being filled: there is one inside a block.
BlockGood == block \in Block /\ (level = "block" => block.kind # "none")

\* The registered hosts, and the numbers the servers know them by.
HostsGood ==
    /\ IsList(hosts)
    /\ \A i \in DOMAIN hosts : HostGood(hosts[i])
    /\ \A e \in DOMAIN servers :
           \A n \in DOMAIN servers[e] : servers[e][n] \in DOMAIN hosts

\* The inductive invariant.
ConfigInv == StreamGood /\ BlockGood /\ HostGood(host) /\ HostsGood

\* It says all that TypeOK does.
LEMMA InvIsType == ConfigInv => TypeOK
<1> SUFFICES ASSUME ConfigInv PROVE TypeOK
  OBVIOUS
<1>1. /\ edit \in Edits /\ level \in {"file", "host", "block"}
      /\ errorPages \in Seq(STRING) /\ error \in BOOLEAN /\ outcome \in Outcomes
  BY DEF ConfigInv, StreamGood, Words
<1>2. \A l \in DOMAIN rest : rest[l] \in Seq(STRING)
  BY DEF ConfigInv, StreamGood, Words
<1>3. block \in BlockType
  BY DEF ConfigInv, BlockGood, Block, BlockType, LocationObj, CgiObj, Words, Statuses
<1>4. \A h \in ToSet(hosts) \union {host} : HostGood(h)
  BY DEF ConfigInv, HostsGood, ToSet
<1>5. \A e \in DOMAIN servers :
          \A n \in DOMAIN servers[e] : servers[e][n] \in DOMAIN hosts
  BY DEF ConfigInv, HostsGood
<1> QED
  BY <1>1, <1>2, <1>3, <1>4, <1>5 DEF TypeOK, HostGood

\* A new host has nothing in its maps.
LEMMA NewHostGood == HostGood(NewHost)
BY DEF HostGood, HostFields, NewHost

\* The file is a sequence of words, whatever the edit.
LEMMA ApplyType ==
    ASSUME NEW e \in Edits
    PROVE  Apply(e) \in Words
<1>1. /\ Base \in Seq(STRING) /\ Len(Base) \in Nat
      /\ e.kind \in {"none", "remove", "replace", "insert", "swap"}
      /\ e.at \in 1..(Len(Base) + 1)
      /\ e.kind \in {"remove", "replace"} => e.at <= Len(Base)
      /\ e.kind = "swap" => e.at < Len(Base)
      /\ e.token \in STRING
  BY ConfigAssumption
<1> DEFINE i == e.at
<1>2. i \in Nat \ {0}
  BY <1>1
<1>3. \A m, n \in 0..(Len(Base) + 2) :
          m >= 1 /\ n <= Len(Base) => SubSeq(Base, m, n) \in Seq(STRING)
  <2> SUFFICES ASSUME NEW m \in 0..(Len(Base) + 2), NEW n \in 0..(Len(Base) + 2),
                      m >= 1, n <= Len(Base)
               PROVE  SubSeq(Base, m, n) \in Seq(STRING)
    OBVIOUS
  <2>1. m \in Int /\ n \in Int /\ \A k \in m..n : Base[k] \in STRING
    BY <1>1
  <2> QED
    BY <2>1, SubSeqProperties
<1>4. CASE e.kind = "none"
  BY <1>1, <1>4 DEF Apply, Words
<1>5. CASE e.kind = "remove"
  <2>1. Apply(e) = SubSeq(Base, 1, i - 1) \o SubSeq(Base, i + 1, Len(Base))
    BY <1>5 DEF Apply, RemoveAt
  <2>2. /\ SubSeq(Base, 1, i - 1) \in Seq(STRING)
        /\ SubSeq(Base, i + 1, Len(Base)) \in Seq(STRING)
    BY <1>1, <1>2, <1>3
  <2> QED
    BY <2>1, <2>2, ConcatProperties DEF Words
<1>6. CASE e.kind = "replace"
  <2>1. Apply(e) = [Base EXCEPT ![i] = e.token]
    BY <1>6 DEF Apply, ReplaceAt
  <2>2. i \in 1..Len(Base)
    BY <1>1, <1>6
  <2> QED
    <3>1. [Base EXCEPT ![i] = e.token] \in Seq(STRING)
      BY <1>1, <2>2, ExceptSeq
    <3> QED
      BY <2>1, <3>1 DEF Words
<1>7. CASE e.kind = "insert"
  <2>1. Apply(e) = SubSeq(Base, 1, i - 1) \o <<e.token>> \o SubSeq(Base, i, Len(Base))
    BY <1>7 DEF Apply, InsertAt
  <2>2. /\ SubSeq(Base, 1, i - 1) \in Seq(STRING)
        /\ SubSeq(Base, i, Len(Base)) \in Seq(STRING)
        /\ <<e.token>> \in Seq(STRING)
    BY <1>1, <1>2, <1>3
  <2>3. SubSeq(Base, 1, i - 1) \o <<e.token>> \in Seq(STRING)
    BY <2>2, ConcatProperties
  <2> QED
    BY <2>1, <2>2, <2>3, ConcatProperties DEF Words
<1>8. CASE e.kind = "swap"
  <2>1. Apply(e) = [Base EXCEPT ![i] = Base[i + 1], ![i + 1] = Base[i]]
    BY <1>8 DEF Apply
  <2>2. /\ Base[i] \in STRING /\ Base[i + 1] \in STRING
        /\ i \in 1..Len(Base) /\ i + 1 \in 1..Len(Base)
    BY <1>1, <1>8
  <2> DEFINE b == [Base EXCEPT ![i] = Base[i + 1]]
  <2>4. b \in Seq(STRING) /\ Len(b) = Len(Base)
    BY <1>1, <2>2, ExceptSeq
  <2>5. Apply(e) = [b EXCEPT ![i + 1] = Base[i]]
    BY <2>1
  <2> HIDE DEF b
  <2> QED
    <3>1. i + 1 \in 1..Len(b)
      BY <2>2, <2>4
    <3>2. [b EXCEPT ![i + 1] = Base[i]] \in Seq(STRING)
      BY <2>2, <2>4, <3>1, ExceptSeq
    <3> QED
      BY <2>5, <3>2 DEF Words
<1> QED
  BY <1>1, <1>4, <1>5, <1>6, <1>7, <1>8

\* The parser starts well.
LEMMA InitType == Init => ConfigInv
<1> SUFFICES ASSUME Init PROVE ConfigInv
  OBVIOUS
<1>1. <<>> \in Words
  BY DEF Words
<1>2. StreamGood
  BY <1>1, ApplyType DEF Init, StreamGood, Outcomes
<1>3. BlockGood
  BY DEF Init, BlockGood, Block
<1>4. HostGood(host)
  BY NewHostGood DEF Init
<1>5. HostsGood
  BY DEF Init, HostsGood, IsList
<1> QED
  BY <1>2, <1>3, <1>4, <1>5 DEF ConfigInv

\* The end of a turn of the file's loop.
LEMMA EndFileTurnType ==
    ASSUME NEW left \in Words, EndFileTurn(left)
    PROVE  /\ rest' \in [file : Words, host : Words, block : Words]
           /\ outcome' \in Outcomes
<1>1. <<>> \in Words
  BY DEF Words
<1>2. checkSemiColon(left) => AfterSemiColon(left) \in Words
  BY SemiColonType
<1>3. outcome' \in Outcomes
  BY DEF EndFileTurn, Outcomes
<1>4. rest' \in [file : Words, host : Words, block : Words]
  BY <1>1, <1>2 DEF EndFileTurn
<1> QED
  BY <1>3, <1>4

\* The block last filled, once its braces are closed.
LEMMA BlockKept ==
    ASSUME BlockGood, block' = block, level' # "block"
    PROVE  BlockGood'
BY DEF BlockGood

\* A step that registers no host.
LEMMA HostsKept ==
    ASSUME HostsGood, UNCHANGED <<hosts, servers>>
    PROVE  HostsGood'
BY DEF HostsGood, IsList

\* A host dropped for an error.
LEMMA HostErrorType ==
    ASSUME ConfigInv, HostError, edit' = edit
    PROVE  ConfigInv'
<1>1. rest.file \in Words
  BY DEF ConfigInv, StreamGood
<1>2. /\ rest' \in [file : Words, host : Words, block : Words]
      /\ outcome' \in Outcomes
  BY <1>1, EndFileTurnType DEF HostError
<1>3. StreamGood'
  BY <1>2 DEF ConfigInv, StreamGood, HostError
<1>4. BlockGood'
  BY BlockKept DEF ConfigInv, HostError
<1>5. HostGood(host)'
  BY DEF ConfigInv, HostError
<1>6. HostsGood'
  BY HostsKept DEF ConfigInv, HostError
<1> QED
  BY <1>3, <1>4, <1>5, <1>6 DEF ConfigInv

\* A step that only says how the parsing ends.
LEMMA OutcomeType ==
    ASSUME ConfigInv, outcome' \in Outcomes, edit' = edit,
           UNCHANGED <<level, rest, host, block, errorPages, error, hosts, servers>>
    PROVE  ConfigInv'
<1>1. StreamGood'
  BY DEF ConfigInv, StreamGood
<1>2. BlockGood'
  BY DEF ConfigInv, BlockGood
<1>3. HostsGood'
  BY HostsKept DEF ConfigInv
<1> QED
  BY <1>1, <1>2, <1>3 DEF ConfigInv

\* The semicolon behind a block.
LEMMA EndBlockTurnType ==
    ASSUME ConfigInv, outcome = "parsing", edit' = edit,
           NEW h, HostGood(h), NEW err \in BOOLEAN, EndBlockTurn(h, err)
    PROVE  ConfigInv'
<1>1. CASE ~checkSemiColon(rest.host)
  BY <1>1, HostErrorType DEF EndBlockTurn
<1>2. CASE checkSemiColon(rest.host)
  <2>1. /\ level' = "host" /\ host' = h /\ error' = err
        /\ rest' = [rest EXCEPT !.host = AfterSemiColon(rest.host)]
        /\ UNCHANGED <<block, errorPages, hosts, servers, outcome>>
    BY <1>2 DEF EndBlockTurn
  <2>2. rest.host \in Words /\ rest \in [file : Words, host : Words, block : Words]
    BY DEF ConfigInv, StreamGood
  <2>3. AfterSemiColon(rest.host) \in Words
    BY <1>2, <2>2, SemiColonType
  <2>4. rest' \in [file : Words, host : Words, block : Words]
    BY <2>1, <2>2, <2>3
  <2>5. StreamGood'
    BY <2>1, <2>4 DEF ConfigInv, StreamGood
  <2>6. BlockGood'
    BY <2>1, BlockKept DEF ConfigInv
  <2>7. HostsGood'
    BY <2>1, HostsKept DEF ConfigInv
  <2> QED
    BY <2>1, <2>5, <2>6, <2>7 DEF ConfigInv
<1> QED
  BY <1>1, <1>2

\* A turn over the file.
LEMMA FileDirectiveType == ConfigInv /\ FileDirective => ConfigInv'
<1> SUFFICES ASSUME ConfigInv, FileDirective PROVE ConfigInv'
  OBVIOUS
<1> DEFINE w == getNextWord(rest.file)
           b == getNextBlock(w.rest)
           p == AppendWord([path |-> <<>>], "path", w.rest)
<1>1. rest.file \in Words /\ rest \in [file : Words, host : Words, block : Words]
  BY DEF ConfigInv, StreamGood
<1>2. w.rest \in Words
  BY <1>1, NextWordType
<1>3. b.block \in Words /\ b.rest \in Words
  <2> HIDE DEF w
  <2> QED
    BY <1>2, NextBlockType
<1>4. p.rest \in Words /\ p.obj.path \in Words
  <2> DEFINE o == [path |-> <<>>]
  <2> HIDE DEF w
  <2>1. o["path"] \in Words
    BY DEF Words
  <2>2. PICK v : p.obj = Fill(o, "path", v) /\ (o["path"] \in Words => v \in Words)
    BY <1>2, AppendWordEffect
  <2>3. Fill(o, "path", v).path = v
    BY DEF Fill
  <2>4. p.rest \in Words
    BY <1>2, AppendWordEffect
  <2> HIDE DEF o, p
  <2> QED
    BY <2>1, <2>2, <2>3, <2>4
<1>5. edit' = edit /\ level = "file" /\ outcome = "parsing"
  BY DEF FileDirective, Parsing
<1>6. \/ EndOfFile
      \/ FileError
      \/ /\ level' = "host" /\ host' = NewHost
         /\ rest' = [rest EXCEPT !.file = b.rest, !.host = b.block]
         /\ UNCHANGED <<block, errorPages, error, hosts, servers, outcome>>
      \/ /\ errorPages' = p.obj.path /\ EndFileTurn(p.rest)
         /\ UNCHANGED <<level, host, block, error, hosts, servers>>
  BY DEF FileDirective
<1> HIDE DEF w, b, p
<1>7. CASE EndOfFile \/ FileError
  <2>1. outcome' \in Outcomes
    BY <1>7 DEF EndOfFile, FileError, Outcomes
  <2> QED
    BY <1>5, <1>7, <2>1, OutcomeType DEF EndOfFile, FileError
<1>8. CASE /\ level' = "host" /\ host' = NewHost
           /\ rest' = [rest EXCEPT !.file = b.rest, !.host = b.block]
           /\ UNCHANGED <<block, errorPages, error, hosts, servers, outcome>>
  <2>1. rest' \in [file : Words, host : Words, block : Words]
    BY <1>1, <1>3, <1>8
  <2>2. StreamGood'
    BY <1>5, <1>8, <2>1 DEF ConfigInv, StreamGood
  <2>3. BlockGood'
    BY <1>8, BlockKept DEF ConfigInv
  <2>4. HostGood(host)'
    BY <1>8, NewHostGood
  <2>5. HostsGood'
    BY <1>8, HostsKept DEF ConfigInv
  <2> QED
    BY <2>2, <2>3, <2>4, <2>5 DEF ConfigInv
<1>9. CASE /\ errorPages' = p.obj.path /\ EndFileTurn(p.rest)
           /\ UNCHANGED <<level, host, block, error, hosts, servers>>
  <2>1. /\ rest' \in [file : Words, host : Words, block : Words]
        /\ outcome' \in Outcomes
    BY <1>4, <1>9, EndFileTurnType
  <2>2. StreamGood'
    BY <1>4, <1>5, <1>9, <2>1 DEF ConfigInv, StreamGood
  <2>3. BlockGood'
    BY <1>5, <1>9, BlockKept DEF ConfigInv
  <2>4. HostGood(host)'
    BY <1>9 DEF ConfigInv
  <2>5. HostsGood'
    BY <1>9, HostsKept DEF ConfigInv
  <2> QED
    BY <2>2, <2>3, <2>4, <2>5 DEF ConfigInv
<1> QED
  BY <1>6, <1>7, <1>8, <1>9

\* A turn over a server block.
LEMMA HostDirectiveType == ConfigInv /\ HostDirective => ConfigInv'
<1> SUFFICES ASSUME ConfigInv, HostDirective PROVE ConfigInv'
  OBVIOUS
<1> DEFINE w == getNextWord(rest.host)
           r == handleHostToken(w.word, w.rest, host)
<1>1. rest.host \in Words /\ rest \in [file : Words, host : Words, block : Words]
  BY DEF ConfigInv, StreamGood
<1>2. w.rest \in Words
  BY <1>1, NextWordType
<1>3. edit' = edit /\ level = "host" /\ outcome = "parsing"
  BY DEF HostDirective, Parsing
<1>4. \/ HostError
      \/ Abort
      \/ w.word \in BlockTokens /\ OpenBlock(w.word, w.rest)
      \/ /\ r.ok /\ checkSemiColon(r.rest)
         /\ host' = r.obj
         /\ rest' = [rest EXCEPT !.host = AfterSemiColon(r.rest)]
         /\ UNCHANGED <<level, block, errorPages, error, hosts, servers, outcome>>
  BY DEF HostDirective
<1> HIDE DEF w
<1>5. CASE HostError
  BY <1>3, <1>5, HostErrorType
<1>6. CASE Abort
  <2>1. outcome' \in Outcomes
    BY <1>6 DEF Abort, Outcomes
  <2> QED
    BY <1>3, <1>6, <2>1, OutcomeType DEF Abort
<1>7. CASE w.word \in BlockTokens /\ OpenBlock(w.word, w.rest) /\ ~HostError
  <2> DEFINE v == parseValues(w.rest)
             b == getNextBlock(v.rest)
             o == IF w.word = "location" THEN NewLocation ELSE NewCGIConfig
  <2>1. v.words \in Words /\ v.rest \in Words
    BY <1>2, ValuesType
  <2>2. b.block \in Words /\ b.rest \in Words
    <3> HIDE DEF v
    <3> QED
      BY <2>1, NextBlockType
  <2>3. /\ level' = "block"
        /\ block' = [kind |-> w.word, names |-> v.words, obj |-> o]
        /\ rest' = [rest EXCEPT !.host = b.rest, !.block = b.block]
        /\ UNCHANGED <<host, errorPages, error, hosts, servers, outcome>>
    BY <1>7 DEF OpenBlock
  <2>4. NewLocation \in LocationObj /\ NewCGIConfig \in CgiObj
    <3>1. <<>> \in Words
      BY DEF Words
    <3> QED
      BY <3>1 DEF NewLocation, NewCGIConfig, LocationObj, CgiObj, Statuses, Methods
  <2> HIDE DEF v, b
  <2>5. rest' \in [file : Words, host : Words, block : Words]
    BY <1>1, <2>2, <2>3
  <2>6. StreamGood'
    BY <1>3, <2>3, <2>5 DEF ConfigInv, StreamGood
  <2>7. BlockGood'
    <3>1. CASE w.word = "location"
      <4>1. block' = [kind |-> "location", names |-> v.words, obj |-> NewLocation]
        BY <2>3, <3>1
      <4>2. block'.kind # "none"
        BY <4>1
      <4>3. block' \in Block
        BY <2>1, <2>4, <4>1 DEF Block
      <4> QED
        BY <4>2, <4>3 DEF BlockGood
    <3>2. CASE w.word = "cgi"
      <4>1. block' = [kind |-> "cgi", names |-> v.words, obj |-> NewCGIConfig]
        BY <2>3, <3>2
      <4>2. block'.kind # "none"
        BY <4>1
      <4>3. block' \in Block
        BY <2>1, <2>4, <4>1 DEF Block
      <4> QED
        BY <4>2, <4>3 DEF BlockGood
    <3> QED
      BY <1>7, <3>1, <3>2 DEF BlockTokens
  <2>8. HostGood(host)'
    BY <2>3 DEF ConfigInv
  <2>9. HostsGood'
    BY <2>3, HostsKept DEF ConfigInv
  <2> QED
    BY <2>6, <2>7, <2>8, <2>9 DEF ConfigInv
<1>8. CASE /\ r.ok /\ checkSemiColon(r.rest)
           /\ host' = r.obj
           /\ rest' = [rest EXCEPT !.host = AfterSemiColon(r.rest)]
           /\ UNCHANGED <<level, block, errorPages, error, hosts, servers, outcome>>
  <2>1. HostGood(r.obj) /\ r.rest \in Words
    BY <1>2, <1>8, HostTokenType DEF ConfigInv
  <2> HIDE DEF r
  <2>2. AfterSemiColon(r.rest) \in Words
    BY <1>8, <2>1, SemiColonType
  <2>3. rest' \in [file : Words, host : Words, block : Words]
    BY <1>1, <1>8, <2>2
  <2>4. StreamGood'
    BY <1>3, <1>8, <2>3 DEF ConfigInv, StreamGood
  <2>5. BlockGood'
    BY <1>3, <1>8, BlockKept DEF ConfigInv
  <2>6. HostGood(host)'
    BY <1>8, <2>1
  <2>7. HostsGood'
    BY <1>8, HostsKept DEF ConfigInv
  <2> QED
    BY <2>4, <2>5, <2>6, <2>7 DEF ConfigInv
<1> QED
  BY <1>4, <1>5, <1>6, <1>7, <1>8

\* A turn over a location or a cgi block.
LEMMA BlockDirectiveType == ConfigInv /\ BlockDirective => ConfigInv'
<1> SUFFICES ASSUME ConfigInv, BlockDirective PROVE ConfigInv'
  OBVIOUS
<1> DEFINE w == getNextWord(rest.block)
           r == Handle(w.word, w.rest)
<1>1. rest.block \in Words /\ rest \in [file : Words, host : Words, block : Words]
  BY DEF ConfigInv, StreamGood
<1>2. w.rest \in Words
  BY <1>1, NextWordType
<1>3. edit' = edit /\ level = "block" /\ outcome = "parsing"
  BY DEF BlockDirective, Parsing
<1>4. \/ BlockError
      \/ Abort
      \/ /\ r.ok /\ checkSemiColon(r.rest)
         /\ block' = [block EXCEPT !.obj = r.obj]
         /\ rest' = [rest EXCEPT !.block = AfterSemiColon(r.rest)]
         /\ UNCHANGED <<level, host, errorPages, error, hosts, servers, outcome>>
  BY DEF BlockDirective
<1> HIDE DEF w
<1>5. CASE BlockError
  BY <1>3, <1>5, EndBlockTurnType DEF BlockError, ConfigInv
<1>6. CASE Abort
  <2>1. outcome' \in Outcomes
    BY <1>6 DEF Abort, Outcomes
  <2> QED
    BY <1>3, <1>6, <2>1, OutcomeType DEF Abort
<1>7. CASE /\ r.ok /\ checkSemiColon(r.rest)
           /\ block' = [block EXCEPT !.obj = r.obj]
           /\ rest' = [rest EXCEPT !.block = AfterSemiColon(r.rest)]
           /\ UNCHANGED <<level, host, errorPages, error, hosts, servers, outcome>>
  <2>1. \/ block \in [kind : {"location"}, names : Words, obj : LocationObj]
        \/ block \in [kind : {"cgi"}, names : Words, obj : CgiObj]
    BY <1>3 DEF ConfigInv, BlockGood, Block
  <2>2. r.rest \in Words /\ BlockGood'
    <3>1. CASE block \in [kind : {"location"}, names : Words, obj : LocationObj]
      <4>1. r = handleLocationToken(w.word, w.rest, block.obj) /\ block.obj \in LocationObj
        BY <3>1 DEF Handle
      <4>2. r.obj \in LocationObj /\ r.rest \in Words
        BY <1>2, <1>7, <4>1, LocationTokenType
      <4> HIDE DEF r
      <4>3. block' \in [kind : {"location"}, names : Words, obj : LocationObj]
        BY <1>7, <3>1, <4>2
      <4> QED
        BY <4>2, <4>3 DEF BlockGood, Block
    <3>2. CASE block \in [kind : {"cgi"}, names : Words, obj : CgiObj]
      <4>1. r = handleCGIConfigToken(w.word, w.rest, block.obj) /\ block.obj \in CgiObj
        BY <3>2 DEF Handle
      <4>2. r.obj \in CgiObj /\ r.rest \in Words
        BY <1>2, <1>7, <4>1, CgiTokenType
      <4> HIDE DEF r
      <4>3. block' \in [kind : {"cgi"}, names : Words, obj : CgiObj]
        BY <1>7, <3>2, <4>2
      <4> QED
        BY <4>2, <4>3 DEF BlockGood, Block
    <3> QED
      BY <2>1, <3>1, <3>2
  <2> HIDE DEF r
  <2>3. AfterSemiColon(r.rest) \in Words
    BY <1>7, <2>2, SemiColonType
  <2>4. rest' \in [file : Words, host : Words, block : Words]
    BY <1>1, <1>7, <2>3
  <2>5. StreamGood'
    BY <1>3, <1>7, <2>4 DEF ConfigInv, StreamGood
  <2>6. HostGood(host)'
    BY <1>7 DEF ConfigInv
  <2>7. HostsGood'
    BY <1>7, HostsKept DEF ConfigInv
  <2> QED
    BY <2>2, <2>5, <2>6, <2>7 DEF ConfigInv
<1> QED
  BY <1>4, <1>5, <1>6, <1>7

\* The end of a block: only a checked one goes to the maps of the host.
LEMMA EndBlockType == ConfigInv /\ EndBlock => ConfigInv'
<1> SUFFICES ASSUME ConfigInv, EndBlock PROVE ConfigInv'
  OBVIOUS
<1>1. edit' = edit /\ outcome = "parsing" /\ error \in BOOLEAN /\ HostGood(host)
  BY DEF EndBlock, Parsing, ConfigInv, StreamGood
<1> DEFINE l == Named(host.locations, block.names, block.obj)
           c == Named(host.cgis, block.names, block.obj)
<1>2. CASE BlockError
  BY <1>1, <1>2, EndBlockTurnType DEF BlockError
<1>3. CASE /\ checkBlock(block) /\ block.kind = "location"
           /\ EndBlockTurn([host EXCEPT !.locations = l], error)
  <2>1. \A n \in DOMAIN l : l[n].root # <<>>
    BY <1>1, <1>3 DEF Named, HostGood, checkBlock
  <2> HIDE DEF l
  <2>2. HostGood([host EXCEPT !.locations = l])
    BY <1>1, <2>1 DEF HostGood, HostFields
  <2> QED
    BY <1>1, <1>3, <2>2, EndBlockTurnType
<1>4. CASE /\ checkBlock(block) /\ block.kind = "cgi"
           /\ EndBlockTurn([host EXCEPT !.cgis = c], error)
  <2>1. \A n \in DOMAIN c : c[n].extension # <<>>
    BY <1>1, <1>4 DEF Named, HostGood, checkBlock
  <2> HIDE DEF c
  <2>2. HostGood([host EXCEPT !.cgis = c])
    BY <1>1, <2>1 DEF HostGood, HostFields
  <2> QED
    BY <1>1, <1>4, <2>2, EndBlockTurnType
<1> QED
  BY <1>2, <1>3, <1>4 DEF EndBlock

\* The end of a server block: the host joins the list, and its servers know it
\* by its place there.
LEMMA EndHostType == ConfigInv /\ EndHost => ConfigInv'
<1> SUFFICES ASSUME ConfigInv, EndHost PROVE ConfigInv'
  OBVIOUS
<1> DEFINE h == [host EXCEPT !.errors = IF host.errors = <<>> THEN errorPages
                                                            ELSE host.errors]
           failed == \E e \in Endpoints(h) : e \notin DOMAIN servers /\ e \in Unbindable
<1>1. edit' = edit /\ outcome = "parsing" /\ level = "host"
  BY DEF EndHost, Parsing
<1>2. HostGood(h)
  <2> DEFINE x == IF host.errors = <<>> THEN errorPages ELSE host.errors
  <2>1. HostGood(host)
    BY DEF ConfigInv
  <2> HIDE DEF x
  <2>2. HostGood(Fill(host, "errors", x))
    BY <2>1, HostFieldSet
  <2> QED
    BY <2>2 DEF Fill, x
<1>3. IF checkHost(h)
      THEN /\ hosts' = Append(hosts, h)
           /\ servers' = registerHost(h, Len(hosts) + 1)
           /\ error' = (error \/ failed)
           /\ level' = "file"
           /\ EndFileTurn(rest.file)
           /\ UNCHANGED <<host, block, errorPages>>
      ELSE HostError
  BY DEF EndHost
<1> HIDE DEF h, failed
<1>4. CASE ~checkHost(h)
  BY <1>1, <1>3, <1>4, HostErrorType
<1>5. CASE checkHost(h)
  <2>1. rest.file \in Words
    BY DEF ConfigInv, StreamGood
  <2>2. /\ rest' \in [file : Words, host : Words, block : Words]
        /\ outcome' \in Outcomes
    BY <1>3, <1>5, <2>1, EndFileTurnType
  <2>3. StreamGood'
    <3>1. error' \in BOOLEAN
      BY <1>3, <1>5
    <3> QED
      BY <1>1, <1>3, <1>5, <2>2, <3>1 DEF ConfigInv, StreamGood
  <2>4. BlockGood'
    BY <1>3, <1>5, BlockKept DEF ConfigInv
  <2>5. HostGood(host)'
    BY <1>3, <1>5 DEF ConfigInv
  <2>6. HostsGood'
    <3> DEFINE id == Len(hosts) + 1
               old(e) == IF e \in DOMAIN servers THEN servers[e] ELSE [n \in {} |-> 0]
    <3>1. IsList(hosts)
      BY DEF ConfigInv, HostsGood
    <3>2. /\ Len(hosts) \in Nat
          /\ DOMAIN hosts = 1..Len(hosts)
          /\ DOMAIN hosts' = 1..id
          /\ \A i \in 1..Len(hosts) : hosts'[i] = hosts[i]
          /\ hosts'[id] = h
          /\ IsList(hosts')
      <4>1. hosts' = Append(hosts, h)
        BY <1>3, <1>5
      <4>2. /\ Len(hosts) \in Nat
            /\ DOMAIN hosts = 1..Len(hosts)
            /\ DOMAIN Append(hosts, h) = 1..(Len(hosts) + 1)
            /\ \A i \in 1..Len(hosts) : Append(hosts, h)[i] = hosts[i]
            /\ Append(hosts, h)[Len(hosts) + 1] = h
            /\ IsList(Append(hosts, h))
        BY <3>1, AppendList
      <4> HIDE DEF IsList
      <4> QED
        BY <4>1, <4>2
    <3>3. \A i \in DOMAIN hosts' : HostGood(hosts'[i])
      <4>1. \A i \in DOMAIN hosts' : i = id \/ i \in DOMAIN hosts
        BY <3>2
      <4> HIDE DEF id
      <4> QED
        BY <1>2, <3>2, <4>1 DEF ConfigInv, HostsGood
    <3>4. id \in DOMAIN hosts' /\ DOMAIN hosts \subseteq DOMAIN hosts'
      BY <3>2
    <3>5. \A e \in DOMAIN servers' :
             servers'[e] = IF e \in Endpoints(h) THEN assignHost(old(e), h, id)
                                                 ELSE servers[e]
      BY <1>3, <1>5 DEF registerHost
    <3>6. DOMAIN servers' = DOMAIN servers \union (Endpoints(h) \ Unbindable)
      BY <1>3, <1>5 DEF registerHost
    <3> HIDE DEF id
    <3>7. \A e : \A n \in DOMAIN old(e) : old(e)[n] \in DOMAIN hosts
      BY DEF ConfigInv, HostsGood
    <3> HIDE DEF old
    <3>8. \A e \in DOMAIN servers' :
             \A n \in DOMAIN servers'[e] : servers'[e][n] \in DOMAIN hosts'
      <4> SUFFICES ASSUME NEW e \in DOMAIN servers', NEW n \in DOMAIN servers'[e]
                   PROVE  servers'[e][n] \in DOMAIN hosts'
        OBVIOUS
      <4>1. CASE e \in Endpoints(h)
        <5>1. servers'[e] = assignHost(old(e), h, id)
          BY <3>5, <4>1
        <5>2. servers'[e][n] = id \/ (n \in DOMAIN old(e) /\ servers'[e][n] = old(e)[n])
          BY <5>1 DEF assignHost
        <5> QED
          BY <3>4, <3>7, <5>2
      <4>2. CASE e \notin Endpoints(h)
        <5>1. e \in DOMAIN servers /\ servers'[e] = servers[e]
          BY <3>5, <3>6, <4>2
        <5> QED
          BY <3>4, <5>1 DEF ConfigInv, HostsGood
      <4> QED
        BY <4>1, <4>2
    <3> QED
      BY <3>2, <3>3, <3>8 DEF HostsGood
  <2> QED
    BY <2>3, <2>4, <2>5, <2>6 DEF ConfigInv
<1> QED
  BY <1>4, <1>5

\* main erases servers, and no host.
LEMMA StartType == ConfigInv /\ startServers => ConfigInv'
<1> SUFFICES ASSUME ConfigInv, startServers PROVE ConfigInv'
  OBVIOUS
<1>1. StreamGood'
  BY DEF ConfigInv, StreamGood, startServers, Outcomes
<1>2. BlockGood'
  BY DEF ConfigInv, BlockGood, startServers
<1>3. HostGood(host)'
  BY DEF ConfigInv, startServers
<1>4. HostsGood'
  <2>1. hosts' = hosts
    BY DEF startServers
  <2>2. /\ DOMAIN servers' \subseteq DOMAIN servers
        /\ \A e \in DOMAIN servers' : servers'[e] = servers[e]
    BY DEF startServers
  <2> QED
    BY <2>1, <2>2 DEF ConfigInv, HostsGood
<1> QED
  BY <1>1, <1>2, <1>3, <1>4 DEF ConfigInv

\* Whatever the file, the parser keeps its types, a host's maps hold checked
\* blocks only (a location with a root, a cgi block with an identifier), its
\* ports are numbers, and every number a server maps a name to is that of a
\* registered host.
THEOREM ConfigTypeCorrect == Spec => []TypeOK
<1>1. ConfigInv /\ UNCHANGED vars => ConfigInv'
  <2> SUFFICES ASSUME ConfigInv, UNCHANGED vars PROVE ConfigInv'
    OBVIOUS
  <2>1. outcome' \in Outcomes /\ edit' = edit
        /\ UNCHANGED <<level, rest, host, block, errorPages, error, hosts, servers>>
    BY DEF vars, ConfigInv, StreamGood
  <2> QED
    BY <2>1, OutcomeType
<1>2. ConfigInv /\ [Next]_vars => ConfigInv'
  BY <1>1, FileDirectiveType, HostDirectiveType, EndHostType, BlockDirectiveType,
     EndBlockType, StartType DEF Next, Done
<1> QED
  BY <1>2, InitType, InvIsType, PTL DEF Spec
=============================================================================
