--------------------------- MODULE FramingProofs ----------------------------
(***************************************************************************)
(* A peer can take apart what a kept-alive connection sends it, for every  *)
(* BUFFER_SIZE, every file, every output of a script, and any number of    *)
(* requests and redirections.                                              *)
(*                                                                         *)
(* Reads follows a peer over a part of the stream, Along follows the       *)
(* queued buffers to the stream they will have become, and ResponseRead    *)
(* says that a peer that waits for a response has it, whole, behind the    *)
(* text of one.  FramingInv, the invariant of the specification, is about  *)
(* that coming stream, not about what has arrived: behind it every peer    *)
(* that asked these requests has the responses meant and waits.  What has  *)
(* arrived is a prefix of it, and a peer that is lost stays lost.  The     *)
(* other part is about parseHeaders: Lined says where it stands in the     *)
(* output, so that index is behind the first blank line whenever the       *)
(* header lines fit in one buffer.                                         *)
(***************************************************************************)
EXTENDS Framing, Recursion, SequenceTheorems, FiniteSetTheorems

-----------------------------------------------------------------------------
(***************************************************************************)
(* What is sent.                                                           *)
(***************************************************************************)
\* Any string; the provers know of no string that it is one.
Names == {"crlf", "html", "list", "moved", "Location", "Set-Cookie", "none", "page",
          "static", "created", "empty", "folder", "output", "GET"}
Word == STRING \union Names

\* What a stream is made of.
Symbol ==
    {StatusLine(st) : st \in Nat} \union {Length(n) : n \in Nat}
    \union {Field(name) : name \in Word} \union {Blank}
    \union {Byte(s) : s \in Word}

\* Each symbol is one of the stream.
LEMMA Symbols ==
    /\ \A n \in Nat : StatusLine(n) \in Symbol /\ Length(n) \in Symbol
    /\ \A s \in Word : Field(s) \in Symbol /\ Byte(s) \in Symbol
    /\ Blank \in Symbol
BY DEF Symbol

\* The peer.
MessageType == [status : Nat, length : Nat, body : Seq(Word)]
Places == {"start", "head", "body", "lost"}
PeerType == [at : Places, now : MessageType, messages : Seq(MessageType)]

\* The fields of a peer.
LEMMA PeerFields ==
    ASSUME NEW r \in PeerType
    PROVE  /\ r.at \in Places /\ r.now \in MessageType
           /\ r.messages \in Seq(MessageType) /\ Len(r.messages) \in Nat
           /\ r.now.status \in Nat /\ r.now.length \in Nat
           /\ r.now.body \in Seq(Word)
BY DEF PeerType, MessageType

\* A peer that has received nothing.
LEMMA NewPeerType == NewPeer \in PeerType /\ NewMessage \in MessageType
<1>1. NewMessage \in MessageType
  BY DEF NewMessage, MessageType
<1> QED
  BY <1>1 DEF NewPeer, PeerType, Places

\* What each symbol does to a peer.
LEMMA StatusRead ==
    ASSUME NEW r \in PeerType, NEW st \in Nat, NEW methods
    PROVE  LET q == DecodeSymbol(r, StatusLine(st), methods)
           IN /\ r.at = "start" =>
                    q = [at |-> "head",
                         now |-> [status |-> st, length |-> 0, body |-> <<>>],
                         messages |-> r.messages]
              /\ r.at # "start" => q = [r EXCEPT !.at = "lost"]
BY DEF DecodeSymbol, StatusLine, NewMessage, PeerType

\* A Content-Length belongs in a head.
LEMMA LengthRead ==
    ASSUME NEW r \in PeerType, NEW n \in Nat, NEW methods
    PROVE  LET q == DecodeSymbol(r, Length(n), methods)
           IN /\ r.at = "head" => q = [r EXCEPT !.now.length = n]
              /\ r.at # "head" => q = [r EXCEPT !.at = "lost"]
BY DEF DecodeSymbol, Length, PeerType

\* So does any other field, which changes nothing.
LEMMA FieldRead ==
    ASSUME NEW r \in PeerType, NEW s \in Word, NEW methods
    PROVE  LET q == DecodeSymbol(r, Field(s), methods)
           IN /\ r.at = "head" => q = r
              /\ r.at # "head" => q = [r EXCEPT !.at = "lost"]
BY DEF DecodeSymbol, Field, PeerType

\* A blank line ends a head.
LEMMA BlankRead ==
    ASSUME NEW r \in PeerType, NEW methods
    PROVE  LET q == DecodeSymbol(r, Blank, methods)
           IN /\ r.at = "head" => q = EndOfHead(r, methods)
              /\ r.at # "head" => q = [r EXCEPT !.at = "lost"]
BY DEF DecodeSymbol, Blank, PeerType

\* A byte belongs in a body.
LEMMA ByteRead ==
    ASSUME NEW r \in PeerType, NEW s \in Word, NEW methods
    PROVE  LET q == DecodeSymbol(r, Byte(s), methods)
           IN /\ r.at = "body" => q = ReadBody(r, s)
              /\ r.at # "body" => q = [r EXCEPT !.at = "lost"]
BY DEF DecodeSymbol, Byte, PeerType

\* Responses are only added.
Grows(a, b) == Len(a) <= Len(b) /\ \A i \in 1..Len(a) : b[i] = a[i]

\* q may come after r.
Follows(r, q) ==
    /\ q \in PeerType
    /\ Grows(r.messages, q.messages)
    /\ r.at = "lost" => q.at = "lost"

\* A peer with the same responses comes after, unless it recovers from being
\* lost.
LEMMA SameFollows ==
    ASSUME NEW r \in PeerType, NEW q \in PeerType, q.messages = r.messages,
           r.at = "lost" => q.at = "lost"
    PROVE  Follows(r, q)
<1>1. Len(r.messages) \in Nat
  BY PeerFields
<1> QED
  BY <1>1 DEF Follows, Grows

\* A peer may get lost.
LEMMA LostFollows ==
    ASSUME NEW r \in PeerType, NEW q, q = [r EXCEPT !.at = "lost"]
    PROVE  Follows(r, q)
<1>1. q \in PeerType /\ q.messages = r.messages /\ q.at = "lost"
  BY DEF PeerType, Places
<1> QED
  BY <1>1, SameFollows

\* A response more.
LEMMA MoreFollows ==
    ASSUME NEW r \in PeerType, NEW d \in MessageType, NEW n \in MessageType, NEW q,
           r.at # "lost",
           q = [at |-> "start", now |-> n, messages |-> Append(r.messages, d)]
    PROVE  Follows(r, q)
<1>1. r.messages \in Seq(MessageType)
  BY PeerFields
<1>2. /\ Append(r.messages, d) \in Seq(MessageType)
      /\ Grows(r.messages, Append(r.messages, d))
  BY <1>1 DEF Grows
<1>3. q \in PeerType /\ q.messages = Append(r.messages, d)
  BY <1>2 DEF PeerType, Places
<1> QED
  BY <1>2, <1>3 DEF Follows

\* The end of a head.
LEMMA EndOfHeadFollows ==
    ASSUME NEW r \in PeerType, r.at = "head", NEW methods
    PROVE  Follows(r, EndOfHead(r, methods))
<1> DEFINE n == Len(r.messages) + 1
           bodiless == r.now.status = 204 \/ methods[n] = "HEAD"
           q == EndOfHead(r, methods)
<1>1. CASE r.now.status \in 100..199
  <2>1. q = [r EXCEPT !.at = "start"]
    BY <1>1 DEF EndOfHead
  <2>2. q \in PeerType /\ q.messages = r.messages
    BY <2>1 DEF PeerType, Places
  <2> QED
    BY <2>2, SameFollows
<1>2. CASE ~(r.now.status \in 100..199) /\ (bodiless \/ r.now.length = 0)
  <2>1. q = [r EXCEPT !.at = "start", !.messages = Append(@, r.now)]
    BY <1>2 DEF EndOfHead
  <2>2. q = [at |-> "start", now |-> r.now, messages |-> Append(r.messages, r.now)]
    BY <2>1 DEF PeerType
  <2> HIDE DEF q
  <2> QED
    BY <2>2, PeerFields, MoreFollows DEF q
<1>3. CASE ~(r.now.status \in 100..199) /\ ~(bodiless \/ r.now.length = 0)
  <2>1. q = [r EXCEPT !.at = "body"]
    BY <1>3 DEF EndOfHead
  <2>2. q \in PeerType /\ q.messages = r.messages
    BY <2>1 DEF PeerType, Places
  <2> QED
    BY <2>2, SameFollows
<1> QED
  BY <1>1, <1>2, <1>3

\* A byte of a body.
LEMMA ReadBodyFollows ==
    ASSUME NEW r \in PeerType, r.at = "body", NEW s \in Word
    PROVE  Follows(r, ReadBody(r, s))
<1> DEFINE d == [r.now EXCEPT !.body = Append(@, s)]
           q == ReadBody(r, s)
<1>1. d \in MessageType
  <2>1. r.now \in MessageType /\ r.now.body \in Seq(Word)
    BY PeerFields
  <2>2. Append(r.now.body, s) \in Seq(Word)
    BY <2>1
  <2>3. \A b \in Seq(Word) : [r.now EXCEPT !.body = b] \in MessageType
    BY <2>1 DEF MessageType
  <2> QED
    BY <2>2, <2>3
<1>2. CASE Len(d.body) < d.length
  <2>1. q = [r EXCEPT !.now = d]
    BY <1>2 DEF ReadBody
  <2> HIDE DEF d, q
  <2>2. q \in PeerType /\ q.messages = r.messages
    BY <1>1, <2>1 DEF PeerType
  <2> QED
    BY <2>2, SameFollows DEF q
<1>3. CASE ~(Len(d.body) < d.length)
  <2>1. q = [r EXCEPT !.at = "start", !.messages = Append(@, d)]
    BY <1>3 DEF ReadBody
  <2> HIDE DEF d, q
  <2>2. q = [at |-> "start", now |-> r.now, messages |-> Append(r.messages, d)]
    BY <2>1 DEF PeerType
  <2> QED
    BY <1>1, <2>2, PeerFields, MoreFollows DEF q
<1> QED
  BY <1>2, <1>3

\* Any symbol.
LEMMA SymbolFollows ==
    ASSUME NEW r \in PeerType, NEW x \in Symbol, NEW methods
    PROVE  Follows(r, DecodeSymbol(r, x, methods))
<1> DEFINE q == DecodeSymbol(r, x, methods)
<1> HIDE DEF q
<1>1. CASE q = [r EXCEPT !.at = "lost"]
  BY <1>1, LostFollows DEF q
<1>2. CASE \E st \in Nat : x = StatusLine(st)
  <2>1. PICK st \in Nat : x = StatusLine(st)
    BY <1>2
  <2>2. CASE r.at = "start"
    <3> DEFINE m == [status |-> st, length |-> 0, body |-> <<>>]
    <3>1. q = [at |-> "head", now |-> m, messages |-> r.messages]
      BY <2>1, <2>2, StatusRead DEF q
    <3>2. m \in MessageType
      BY DEF MessageType
    <3> HIDE DEF m
    <3>3. q \in PeerType /\ q.messages = r.messages
      BY <3>1, <3>2, PeerFields DEF PeerType, Places
    <3> QED
      BY <2>2, <3>3, SameFollows DEF q
  <2> QED
    BY <1>1, <2>1, <2>2, StatusRead DEF q
<1>3. CASE \E n \in Nat : x = Length(n)
  <2>1. PICK n \in Nat : x = Length(n)
    BY <1>3
  <2>2. CASE r.at = "head"
    <3>1. q = [r EXCEPT !.now.length = n]
      BY <2>1, <2>2, LengthRead DEF q
    <3>2. q \in PeerType /\ q.messages = r.messages
      BY <3>1 DEF PeerType, MessageType
    <3> QED
      BY <2>2, <3>2, SameFollows DEF q
  <2> QED
    BY <1>1, <2>1, <2>2, LengthRead DEF q
<1>4. CASE \E s \in Word : x = Field(s)
  <2>1. r.at = "head" => q = r
    BY <1>4, FieldRead DEF q
  <2>2. q = r => Follows(r, q)
    BY SameFollows
  <2> QED
    BY <1>1, <1>4, <2>1, <2>2, FieldRead DEF q
<1>5. CASE x = Blank
  <2>1. CASE r.at = "head"
    BY <1>5, <2>1, BlankRead, EndOfHeadFollows DEF q
  <2> QED
    BY <1>1, <1>5, <2>1, BlankRead DEF q
<1>6. CASE \E s \in Word : x = Byte(s)
  <2>1. PICK s \in Word : x = Byte(s)
    BY <1>6
  <2>2. CASE r.at = "body"
    BY <2>1, <2>2, ByteRead, ReadBodyFollows DEF q
  <2> QED
    BY <1>1, <2>1, <2>2, ByteRead DEF q
<1> QED
  BY <1>2, <1>3, <1>4, <1>5, <1>6 DEF Symbol

-----------------------------------------------------------------------------
(***************************************************************************)
(* Streams.                                                                *)
(***************************************************************************)
Stream == Seq(Symbol)

\* The peer at r reads t and is then at q.
Reads(r, t, q, methods) ==
    \E f : /\ f \in [0..Len(t) -> PeerType]
           /\ f[0] = r
           /\ f[Len(t)] = q
           /\ \A n \in 1..Len(t) : f[n] = DecodeSymbol(f[n - 1], t[n], methods)

\* It can.
LEMMA ReadsSome ==
    ASSUME NEW r \in PeerType, NEW t \in Stream, NEW methods
    PROVE  \E q \in PeerType : Reads(r, t, q, methods)
<1> DEFINE N == Len(t)
           g == [v \in PeerType \X (1..N) |-> DecodeSymbol(v[1], t[v[2]], methods)]
<1>1. N \in Nat /\ N \in 0..N /\ \A n \in 1..N : t[n] \in Symbol
  BY DEF Stream
<1>2. \A v \in PeerType, n \in 1..N : DecodeSymbol(v, t[n], methods) \in PeerType
  BY <1>1, SymbolFollows DEF Follows
<1>3. g \in [PeerType \X (1..N) -> PeerType]
  BY <1>2
<1>4. PICK f : Iteration(f, PeerType, N, r, g)
  <2> HIDE DEF g, N
  <2> QED
    BY <1>1, <1>3, Iterates
<1>5. \A n \in 1..N : f[n] = DecodeSymbol(f[n - 1], t[n], methods)
  <2>1. \A v \in PeerType, n \in 1..N : g[<<v, n>>] = DecodeSymbol(v, t[n], methods)
    OBVIOUS
  <2> HIDE DEF g, N
  <2>2. \A n \in 1..N : n - 1 \in 0..N
    BY <1>1
  <2>3. \A n \in 1..N : f[n] = g[<<f[n - 1], n>>] /\ f[n - 1] \in PeerType
    BY <1>4, <2>2 DEF Iteration
  <2> QED
    BY <2>1, <2>3
<1>6. Reads(r, t, f[N], methods) /\ f[N] \in PeerType
  BY <1>1, <1>4, <1>5 DEF Iteration, Reads
<1> QED
  BY <1>6

\* There is one place where it can be.
LEMMA ReadsOne ==
    ASSUME NEW r, NEW t \in Stream, NEW methods, NEW q1, NEW q2,
           Reads(r, t, q1, methods), Reads(r, t, q2, methods)
    PROVE  q1 = q2
<1> DEFINE N == Len(t)
<1>1. N \in Nat /\ N \in 0..N
  BY DEF Stream
<1>2. PICK f : /\ f[0] = r /\ f[N] = q1
               /\ \A n \in 1..N : f[n] = DecodeSymbol(f[n - 1], t[n], methods)
  BY DEF Reads
<1>3. PICK g : /\ g[0] = r /\ g[N] = q2
               /\ \A n \in 1..N : g[n] = DecodeSymbol(g[n - 1], t[n], methods)
  BY DEF Reads
<1>4. f[0] = g[0] /\ \A n \in 1..N : f[n - 1] = g[n - 1] => f[n] = g[n]
  BY <1>2, <1>3
<1> DEFINE Bad == {n \in 0..N : f[n] # g[n]}
<1>5. Bad \in SUBSET (0..N) /\ 0 \notin Bad /\ \A n \in 1..N : n \in Bad => n - 1 \in Bad
  <2>1. \A n \in 1..N : n - 1 \in 0..N
    BY <1>1
  <2> QED
    BY <1>4, <2>1
<1>6. Bad = {}
  <2> HIDE DEF Bad, N
  <2> QED
    BY <1>1, <1>5, NoFirst
<1> QED
  BY <1>1, <1>2, <1>3, <1>6

\* One text after the other.
LEMMA ReadsOn ==
    ASSUME NEW r, NEW q, NEW e, NEW s \in Stream, NEW t \in Stream, NEW methods,
           Reads(r, s, q, methods), Reads(q, t, e, methods)
    PROVE  Reads(r, s \o t, e, methods)
<1> DEFINE M == Len(s)
           N == Len(t)
<1>1. M \in Nat /\ N \in Nat /\ Len(s \o t) = M + N
      /\ (\A n \in 1..M : (s \o t)[n] = s[n])
      /\ (\A n \in 1..N : (s \o t)[M + n] = t[n])
  BY DEF Stream
<1>2. PICK f : /\ f \in [0..M -> PeerType] /\ f[0] = r /\ f[M] = q
               /\ \A n \in 1..M : f[n] = DecodeSymbol(f[n - 1], s[n], methods)
  BY DEF Reads
<1>3. PICK g : /\ g \in [0..N -> PeerType] /\ g[0] = q /\ g[N] = e
               /\ \A n \in 1..N : g[n] = DecodeSymbol(g[n - 1], t[n], methods)
  BY DEF Reads
<1> DEFINE h == [n \in 0..(M + N) |-> IF n <= M THEN f[n] ELSE g[n - M]]
<1> HIDE DEF M, N
<1>4. \A n \in 0..(M + N) : (n <= M => n \in 0..M) /\ (~(n <= M) => n - M \in 1..N /\ n - M \in 0..N)
  BY <1>1
<1>5. h \in [0..(M + N) -> PeerType]
  BY <1>2, <1>3, <1>4
<1>6. h[0] = r
  BY <1>1, <1>2
<1>7. \A n \in 0..N : h[M + n] = g[n]
  <2> SUFFICES ASSUME NEW n \in 0..N PROVE h[M + n] = g[n]
    OBVIOUS
  <2>1. M + n \in 0..(M + N) /\ (M + n) - M = n /\ (M + n <= M => n = 0 /\ M + n = M)
    BY <1>1
  <2> QED
    BY <1>2, <1>3, <2>1
<1>8. h[M + N] = e
  <2>1. N \in 0..N
    BY <1>1
  <2> HIDE DEF h
  <2> QED
    BY <1>3, <1>7, <2>1
<1>9. ASSUME NEW n \in 1..(M + N)
      PROVE  h[n] = DecodeSymbol(h[n - 1], (s \o t)[n], methods)
  <2>1. CASE n <= M
    <3>1. n \in 1..M /\ h[n] = f[n] /\ h[n - 1] = f[n - 1]
      BY <1>1, <2>1
    <3> QED
      BY <1>1, <1>2, <3>1
  <2>2. CASE ~(n <= M)
    <3> DEFINE k == n - M
    <3>1. k \in 1..N /\ k \in 0..N /\ k - 1 \in 0..N /\ M + k = n /\ M + (k - 1) = n - 1
      BY <1>1, <2>2
    <3>2. h[n] = g[k] /\ h[n - 1] = g[k - 1] /\ (s \o t)[n] = t[k]
      <4> HIDE DEF k, h
      <4> QED
        BY <1>1, <1>7, <3>1
    <3> QED
      BY <1>3, <3>1, <3>2
  <2> QED
    BY <2>1, <2>2
<1> HIDE DEF h
<1> QED
  BY <1>1, <1>5, <1>6, <1>8, <1>9 DEF Reads

\* What Decode computes.
LEMMA DecodeReads ==
    ASSUME NEW t \in Stream, NEW methods
    PROVE  Reads(NewPeer, t, Decode(t, methods), methods) /\ Decode(t, methods) \in PeerType
<1> DEFINE N == Len(t)
           F(f) == [n \in 0..N |-> IF n = 0 THEN NewPeer
                                   ELSE DecodeSymbol(f[n - 1], t[n], methods)]
           R == CHOOSE f : f = F(f)
<1>1. N \in Nat /\ N \in 0..N
  BY DEF Stream
<1>2. PICK q \in PeerType : Reads(NewPeer, t, q, methods)
  BY ReadsSome, NewPeerType
<1>3. PICK f : /\ f \in [0..N -> PeerType] /\ f[0] = NewPeer /\ f[N] = q
               /\ \A n \in 1..N : f[n] = DecodeSymbol(f[n - 1], t[n], methods)
  BY <1>2 DEF Reads
<1>4. f = F(f)
  <2>1. \A n \in 0..N : n = 0 \/ n \in 1..N
    BY <1>1
  <2> QED
    BY <1>3, <2>1
<1>5. R = F(R)
  BY <1>4
<1>6. Decode(t, methods) = R[N]
  BY DEF Decode
<1>7. R[0] = NewPeer /\ \A n \in 1..N : R[n] = DecodeSymbol(R[n - 1], t[n], methods)
  <2> HIDE DEF R
  <2> QED
    BY <1>1, <1>5
<1>8. R \in [0..N -> PeerType]
  <2> HIDE DEF R
  <2>1. \A n \in 1..N : t[n] \in Symbol
    BY DEF Stream
  <2>2. R[0] \in PeerType /\ \A n \in 1..N : R[n - 1] \in PeerType => R[n] \in PeerType
    BY <1>7, <2>1, NewPeerType, SymbolFollows DEF Follows
  <2>3. \A n \in 0..N : R[n] \in PeerType
    BY <1>1, <2>2, Stays
  <2>4. R = [n \in 0..N |-> R[n]]
    BY <1>5
  <2> QED
    BY <2>3, <2>4
<1> HIDE DEF R
<1>9. Reads(NewPeer, t, R[N], methods)
  BY <1>1, <1>7, <1>8 DEF Reads
<1> QED
  BY <1>1, <1>6, <1>8, <1>9

\* Decode, from where it was.
LEMMA DecodeOn ==
    ASSUME NEW s \in Stream, NEW t \in Stream, NEW methods, NEW q,
           Reads(Decode(s, methods), t, q, methods)
    PROVE  Decode(s \o t, methods) = q
<1>1. s \o t \in Stream
  BY DEF Stream
<1>2. Reads(NewPeer, s, Decode(s, methods), methods)
  BY DecodeReads
<1>3. Reads(NewPeer, s \o t, q, methods)
  BY <1>2, ReadsOn
<1>4. Reads(NewPeer, s \o t, Decode(s \o t, methods), methods)
  BY <1>1, DecodeReads
<1> QED
  BY <1>1, <1>3, <1>4, ReadsOne

\* Nothing is taken back.
LEMMA ReadsFollows ==
    ASSUME NEW r \in PeerType, NEW t \in Stream, NEW methods, NEW q, Reads(r, t, q, methods)
    PROVE  Follows(r, q)
<1> DEFINE N == Len(t)
           T == {e \in PeerType : Follows(r, e)}
<1>1. N \in Nat /\ N \in 0..N /\ \A n \in 1..N : t[n] \in Symbol
  BY DEF Stream
<1>2. PICK f : /\ f \in [0..N -> PeerType] /\ f[0] = r /\ f[N] = q
               /\ \A n \in 1..N : f[n] = DecodeSymbol(f[n - 1], t[n], methods)
  BY DEF Reads
<1>3. f[0] \in T
  BY <1>2, SameFollows
<1>4. ASSUME NEW n \in 1..N, f[n - 1] \in T
      PROVE  f[n] \in T
  <2> DEFINE d == f[n - 1]
             e == f[n]
  <2>1. d \in PeerType /\ Follows(r, d) /\ Follows(d, e)
    BY <1>1, <1>2, <1>4, SymbolFollows
  <2>2. e \in PeerType
    BY <2>1 DEF Follows
  <2>3. Grows(r.messages, e.messages)
    <3>1. Len(r.messages) \in Nat /\ Len(d.messages) \in Nat /\ Len(e.messages) \in Nat
      BY <2>1, <2>2, PeerFields
    <3> HIDE DEF d, e
    <3>2. Grows(r.messages, d.messages) /\ Grows(d.messages, e.messages)
      BY <2>1 DEF Follows
    <3>3. \A i \in 1..Len(r.messages) : i \in 1..Len(d.messages)
      BY <3>1, <3>2 DEF Grows
    <3>4. Len(r.messages) <= Len(e.messages)
      BY <3>1, <3>2 DEF Grows
    <3> QED
      BY <3>2, <3>3, <3>4 DEF Grows
  <2>4. Follows(r, e)
    BY <2>1, <2>2, <2>3 DEF Follows
  <2> QED
    BY <2>2, <2>4
<1>5. \A n \in 0..N : f[n] \in T
  <2>1. \A n \in 1..N : f[n - 1] \in T => f[n] \in T
    BY <1>4
  <2> HIDE DEF T, N
  <2> QED
    BY <1>1, <1>3, <2>1, Stays
<1> QED
  BY <1>1, <1>2, <1>5

-----------------------------------------------------------------------------
(***************************************************************************)
(* Buffers.                                                                *)
(***************************************************************************)
\* Behind a, the buffers lead to b.
Along(bufs, a, b) ==
    \E f : /\ f \in [0..Len(bufs) -> Stream]
           /\ f[0] = a
           /\ f[Len(bufs)] = b
           /\ \A n \in 1..Len(bufs) : f[n] = f[n - 1] \o bufs[n]

\* No buffer leads nowhere.
LEMMA AlongNone ==
    ASSUME NEW a \in Stream
    PROVE  \A b : Along(<<>>, a, b) <=> a = b
<1>1. Along(<<>>, a, a)
  <2> DEFINE f == [n \in 0..0 |-> a]
  <2>1. f \in [0..Len(<<>>) -> Stream] /\ f[0] = a /\ Len(<<>>) = 0
    OBVIOUS
  <2> HIDE DEF f
  <2> QED
    BY <2>1 DEF Along
<1>2. ASSUME NEW b, Along(<<>>, a, b) PROVE a = b
  BY <1>2 DEF Along
<1> QED
  BY <1>1, <1>2

\* The first buffer is sent.
LEMMA AlongTail ==
    ASSUME NEW bufs \in Seq(Stream), bufs # <<>>, NEW a, NEW b, Along(bufs, a, b)
    PROVE  Along(Tail(bufs), a \o Head(bufs), b)
<1> DEFINE N == Len(bufs)
           t == Tail(bufs)
<1>1. N \in Nat /\ N # 0 /\ Len(t) = N - 1 /\ Head(bufs) = bufs[1]
      /\ \A n \in 1..(N - 1) : t[n] = bufs[n + 1]
  OBVIOUS
<1>2. PICK f : /\ f \in [0..N -> Stream] /\ f[0] = a /\ f[N] = b
               /\ \A n \in 1..N : f[n] = f[n - 1] \o bufs[n]
  BY DEF Along
<1> DEFINE g == [n \in 0..(N - 1) |-> f[n + 1]]
<1> HIDE DEF N, t
<1>3. g \in [0..(N - 1) -> Stream]
  BY <1>1, <1>2
<1>4. g[0] = a \o Head(bufs)
  <2>1. 0 \in 0..(N - 1) /\ 0 + 1 = 1 /\ 1 \in 1..N /\ 1 - 1 = 0
    BY <1>1
  <2> QED
    BY <1>1, <1>2, <2>1
<1>5. g[N - 1] = b
  <2>1. N - 1 \in 0..(N - 1) /\ (N - 1) + 1 = N
    BY <1>1
  <2> QED
    BY <1>2, <2>1
<1>6. \A n \in 1..(N - 1) : g[n] = g[n - 1] \o t[n]
  <2> SUFFICES ASSUME NEW n \in 1..(N - 1) PROVE g[n] = g[n - 1] \o t[n]
    OBVIOUS
  <2>1. /\ n \in 0..(N - 1) /\ n - 1 \in 0..(N - 1) /\ (n - 1) + 1 = n
        /\ n + 1 \in 1..N /\ (n + 1) - 1 = n
    BY <1>1
  <2>2. g[n] = f[n + 1] /\ g[n - 1] = f[n]
    BY <2>1
  <2>3. f[n + 1] = f[n] \o bufs[n + 1]
    BY <1>2, <2>1
  <2> QED
    BY <1>1, <2>2, <2>3
<1> HIDE DEF g
<1> QED
  BY <1>1, <1>3, <1>4, <1>5, <1>6 DEF Along, t

\* Buffers behind buffers.
LEMMA AlongOn ==
    ASSUME NEW p \in Seq(Stream), NEW q \in Seq(Stream), NEW a, NEW b, NEW c,
           Along(p, a, b), Along(q, b, c)
    PROVE  Along(p \o q, a, c)
<1> DEFINE M == Len(p)
           N == Len(q)
<1>1. M \in Nat /\ N \in Nat /\ Len(p \o q) = M + N
      /\ (\A n \in 1..M : (p \o q)[n] = p[n])
      /\ (\A n \in 1..N : (p \o q)[M + n] = q[n])
  OBVIOUS
<1>2. PICK f : /\ f \in [0..M -> Stream] /\ f[0] = a /\ f[M] = b
               /\ \A n \in 1..M : f[n] = f[n - 1] \o p[n]
  BY DEF Along
<1>3. PICK g : /\ g \in [0..N -> Stream] /\ g[0] = b /\ g[N] = c
               /\ \A n \in 1..N : g[n] = g[n - 1] \o q[n]
  BY DEF Along
<1> DEFINE h == [n \in 0..(M + N) |-> IF n <= M THEN f[n] ELSE g[n - M]]
           u == p \o q
<1> HIDE DEF M, N
<1>4. \A n \in 0..(M + N) : (n <= M => n \in 0..M) /\ (~(n <= M) => n - M \in 1..N /\ n - M \in 0..N)
  BY <1>1
<1>5. h \in [0..(M + N) -> Stream]
  BY <1>2, <1>3, <1>4
<1>6. h[0] = a
  BY <1>1, <1>2
<1>7. \A n \in 0..N : h[M + n] = g[n]
  <2> SUFFICES ASSUME NEW n \in 0..N PROVE h[M + n] = g[n]
    OBVIOUS
  <2>1. M + n \in 0..(M + N) /\ (M + n) - M = n /\ (M + n <= M => n = 0 /\ M + n = M)
    BY <1>1
  <2> QED
    BY <1>2, <1>3, <2>1
<1>8. h[M + N] = c
  <2>1. N \in 0..N
    BY <1>1
  <2> HIDE DEF h
  <2> QED
    BY <1>3, <1>7, <2>1
<1>10. /\ \A n \in 1..M : u[n] = p[n]
       /\ \A n \in 1..N : u[M + n] = q[n]
       /\ Len(u) = M + N
  BY <1>1
<1> HIDE DEF u
<1>9. ASSUME NEW n \in 1..(M + N)
      PROVE  h[n] = h[n - 1] \o u[n]
  <2>1. CASE n <= M
    <3>1. n \in 1..M /\ h[n] = f[n] /\ h[n - 1] = f[n - 1]
      BY <1>1, <2>1
    <3> HIDE DEF h
    <3> QED
      BY <1>2, <1>10, <3>1
  <2>2. CASE ~(n <= M)
    <3> DEFINE k == n - M
    <3>1. k \in 1..N /\ k \in 0..N /\ k - 1 \in 0..N /\ M + k = n /\ M + (k - 1) = n - 1
      BY <1>1, <2>2
    <3> HIDE DEF k, h
    <3>2. h[n] = g[k] /\ h[n - 1] = g[k - 1] /\ u[n] = q[k]
      BY <1>7, <1>10, <3>1
    <3> QED
      BY <1>3, <3>1, <3>2
  <2> QED
    BY <2>1, <2>2
<1> HIDE DEF h
<1>11. Along(u, a, c)
  BY <1>5, <1>6, <1>8, <1>9, <1>10 DEF Along
<1> QED
  BY <1>11 DEF u

\* Concatenation is associative.
LEMMA StreamsConcat ==
    ASSUME NEW a \in Stream, NEW t \in Stream, NEW c \in Stream
    PROVE  (a \o t) \o c = a \o (t \o c) /\ t \o c \in Stream
<1>1. (a \o t) \o c = a \o (t \o c)
  BY ConcatAssociative DEF Stream
<1>2. t \o c \in Stream
  BY DEF Stream
<1> QED
  BY <1>1, <1>2

\* What the buffers lead to begins where they begin.
LEMMA AlongRest ==
    ASSUME NEW bufs \in Seq(Stream), NEW a \in Stream, NEW b, Along(bufs, a, b)
    PROVE  \E t \in Stream : b = a \o t
<1> DEFINE N == Len(bufs)
           T == {s \in Stream : \E t \in Stream : s = a \o t}
<1>1. N \in Nat /\ N \in 0..N /\ \A n \in 1..N : bufs[n] \in Stream
  OBVIOUS
<1>2. PICK f : /\ f \in [0..N -> Stream] /\ f[0] = a /\ f[N] = b
               /\ \A n \in 1..N : f[n] = f[n - 1] \o bufs[n]
  BY DEF Along
<1>3. f[0] \in T
  <2>1. a = a \o <<>> /\ <<>> \in Stream
    <3>1. a \in Seq(Symbol)
      BY DEF Stream
    <3> QED
      BY <3>1, ConcatEmptySeq DEF Stream
  <2> QED
    BY <1>2, <2>1
<1>4. ASSUME NEW n \in 1..N, f[n - 1] \in T
      PROVE  f[n] \in T
  <2>1. PICK t \in Stream : f[n - 1] = a \o t
    BY <1>4
  <2> DEFINE c == bufs[n]
  <2>2. c \in Stream /\ f[n] = (a \o t) \o c /\ f[n] \in Stream
    <3>1. f[n] = f[n - 1] \o c
      BY <1>2
    <3>2. n \in 0..N
      BY <1>1
    <3>3. f[n] \in Stream
      BY <1>2, <3>2
    <3>4. c \in Stream
      BY <1>1
    <3> QED
      BY <2>1, <3>1, <3>3, <3>4
  <2> HIDE DEF c
  <2>3. (a \o t) \o c = a \o (t \o c) /\ t \o c \in Stream
    <3>1. c \in Stream
      BY <2>2
    <3> QED
      BY <3>1, StreamsConcat
  <2> QED
    BY <2>2, <2>3
<1>5. \A n \in 0..N : f[n] \in T
  <2>1. \A n \in 1..N : f[n - 1] \in T => f[n] \in T
    BY <1>4
  <2> HIDE DEF T, N
  <2> QED
    BY <1>1, <1>3, <2>1, Stays
<1> QED
  BY <1>1, <1>2, <1>5

\* s up to c.
Upto(s, c) == SubSeq(s, 1, c)

\* It is a stream of c symbols.
LEMMA UptoType ==
    ASSUME NEW s \in Stream, NEW c \in 0..Len(s)
    PROVE  /\ Upto(s, c) \in Stream /\ Len(Upto(s, c)) = c
           /\ \A i \in 1..c : Upto(s, c)[i] = s[i]
<1>1. Len(s) \in Nat /\ s \in Seq(Symbol) /\ \A i \in 1..c : s[i] \in Symbol
  BY DEF Stream
<1>2. Len(Upto(s, c)) = c /\ \A i \in 1..c : Upto(s, c)[i] = s[i]
  BY <1>1, SubSeqProperties DEF Upto
<1>3. Upto(s, c) \in Seq(Symbol)
  BY <1>1, SubSeqProperties DEF Upto
<1> QED
  BY <1>2, <1>3 DEF Stream

\* From behind b to c.
LEMMA PieceType ==
    ASSUME NEW s \in Stream, NEW c \in 0..Len(s), NEW b \in 0..c
    PROVE  /\ SubSeq(s, b + 1, c) \in Stream /\ Len(SubSeq(s, b + 1, c)) = c - b
           /\ \A i \in 1..(c - b) : SubSeq(s, b + 1, c)[i] = s[b + i]
<1>1. Len(s) \in Nat /\ s \in Seq(Symbol) /\ \A i \in (b + 1)..c : s[i] \in Symbol
  BY DEF Stream
<1> QED
  BY <1>1, SubSeqProperties DEF Stream

\* Two streams with the same symbols.
LEMMA SameStream ==
    ASSUME NEW s \in Stream, NEW t \in Stream, Len(s) = Len(t),
           \A i \in 1..Len(s) : s[i] = t[i]
    PROVE  s = t
BY DEF Stream

\* A stream up to c is the stream up to b and the piece behind it.
LEMMA UptoOn ==
    ASSUME NEW s \in Stream, NEW c \in 0..Len(s), NEW b \in 0..c
    PROVE  Upto(s, b) \o SubSeq(s, b + 1, c) = Upto(s, c)
<1> DEFINE x == Upto(s, b)
           y == SubSeq(s, b + 1, c)
           z == Upto(s, c)
<1>1. Len(s) \in Nat /\ b \in 0..Len(s) /\ b \in Nat /\ c \in Nat
  BY DEF Stream
<1>2. x \in Stream /\ Len(x) = b /\ \A i \in 1..b : x[i] = s[i]
  BY <1>1, UptoType
<1>3. y \in Stream /\ Len(y) = c - b /\ \A i \in 1..(c - b) : y[i] = s[b + i]
  BY PieceType
<1>4. z \in Stream /\ Len(z) = c /\ \A i \in 1..c : z[i] = s[i]
  BY UptoType
<1> HIDE DEF x, y, z
<1>5. /\ x \o y \in Stream /\ Len(x \o y) = Len(x) + Len(y)
      /\ \A i \in 1..Len(x) : (x \o y)[i] = x[i]
      /\ \A i \in 1..Len(y) : (x \o y)[Len(x) + i] = y[i]
  <2>1. x \in Seq(Symbol) /\ y \in Seq(Symbol)
    BY <1>2, <1>3 DEF Stream
  <2> QED
    BY <2>1 DEF Stream
<1>6. Len(x \o y) = c
  BY <1>1, <1>2, <1>3, <1>5
<1>7. ASSUME NEW i \in 1..c PROVE (x \o y)[i] = z[i]
  <2>1. CASE i <= b
    <3>1. i \in 1..b
      BY <1>1, <2>1
    <3> QED
      BY <1>2, <1>4, <1>5, <3>1
  <2>2. CASE ~(i <= b)
    <3> DEFINE k == i - b
    <3>1. k \in 1..(c - b) /\ b + k = i
      BY <1>1, <2>2
    <3> HIDE DEF k
    <3>2. (x \o y)[b + k] = y[k]
      BY <1>2, <1>3, <1>5, <3>1
    <3>3. y[k] = s[b + k]
      BY <1>3, <3>1
    <3> QED
      BY <1>4, <3>1, <3>2, <3>3
  <2> QED
    BY <2>1, <2>2
<1>8. x \o y = z
  BY <1>4, <1>5, <1>6, <1>7, SameStream
<1> QED
  BY <1>8 DEF x, y, z

\* How many buffers a text needs.
LEMMA BufferCount ==
    ASSUME NEW L \in Nat, NEW B \in Nat \ {0}, NEW N, N = (L + B - 1) \div B
    PROVE  /\ N \in Nat
           /\ L <= N * B
           /\ \A i \in 1..N : (i - 1) * B <= L /\ (i - 1) * B \in Nat /\ i * B \in Nat
                              /\ (i - 1) * B <= i * B
<1> DEFINE x == L + B - 1
<1>1. x \in Nat
  OBVIOUS
<1>2. N \in Nat /\ N * B <= x /\ x < N * B + B
  <2> HIDE DEF x
  <2>1. N = x \div B
    BY DEF x
  <2> QED
    BY <1>1, <2>1
<1>3. N * B \in Nat
  BY <1>2
<1>4. L <= N * B
  BY <1>2, <1>3
<1>5. ASSUME NEW i \in 1..N
      PROVE  (i - 1) * B <= L /\ (i - 1) * B \in Nat /\ i * B \in Nat /\ (i - 1) * B <= i * B
  <2>1. i - 1 \in Nat /\ i \in Nat /\ i <= N
    BY <1>2
  <2>2. (i - 1) * B \in Nat /\ i * B \in Nat /\ i * B <= N * B
    BY <1>2, <2>1
  <2>3. (i - 1) * B = i * B - B
    BY <2>1
  <2> QED
    BY <1>2, <1>3, <2>2, <2>3
<1> QED
  BY <1>2, <1>4, <1>5

\* The smaller of two.
LEMMA MinOfTwo ==
    ASSUME NEW x \in Int, NEW y \in Int
    PROVE  Min({x, y}) = IF x <= y THEN x ELSE y
<1> DEFINE S == {x, y}
           z == IF x <= y THEN x ELSE y
<1>1. z \in S /\ \A k \in S : z <= k
  OBVIOUS
<1>2. \A i \in S : (\A k \in S : i <= k) => i = z
  OBVIOUS
<1> QED
  BY <1>1, <1>2 DEF Min

\* writeResponse puts a text into buffers whose contents are the text.
LEMMA PortionsLead ==
    ASSUME NEW s \in Stream, NEW a \in Stream
    PROVE  /\ Portions(s) \in Seq(Stream)
           /\ Along(Portions(s), a, a \o s)
<1> DEFINE L == Len(s)
           B == BufferSize
           N == (L + B - 1) \div B
           c(i) == Min({i * B, L})
           P == [i \in 1..N |-> SubSeq(s, (i - 1) * B + 1, c(i))]
           f == [i \in 0..N |-> a \o Upto(s, c(i))]
<1>1. L \in Nat /\ B \in Nat \ {0}
  BY FramingAssumption DEF Stream
<1>2. /\ N \in Nat /\ L <= N * B
      /\ \A i \in 1..N : (i - 1) * B <= L /\ (i - 1) * B \in Nat /\ i * B \in Nat
                         /\ (i - 1) * B <= i * B
  <2> HIDE DEF L, B
  <2> QED
    BY <1>1, BufferCount
<1>3. Portions(s) = P
  BY DEF Portions
<1> HIDE DEF N
<1>4. \A i \in 0..N : i * B \in Nat
  <2>1. \A i \in 0..N : i \in Nat
    BY <1>2
  <2> QED
    BY <1>1, <2>1
<1>5. \A i \in 0..N : c(i) \in 0..L /\ (i * B <= L => c(i) = i * B) /\ (~(i * B <= L) => c(i) = L)
  <2> SUFFICES ASSUME NEW i \in 0..N
               PROVE  c(i) \in 0..L /\ (i * B <= L => c(i) = i * B) /\ (~(i * B <= L) => c(i) = L)
    OBVIOUS
  <2> DEFINE x == i * B
  <2>1. x \in Nat
    BY <1>4
  <2> HIDE DEF x, L
  <2>2. Min({x, L}) = IF x <= L THEN x ELSE L
    BY <1>1, <2>1, MinOfTwo
  <2> QED
    BY <1>1, <2>1, <2>2 DEF x
<1>6. c(0) = 0 /\ c(N) = L
  <2>1. 0 * B = 0 /\ 0 \in 0..N /\ N \in 0..N
    BY <1>1, <1>2
  <2>2. N * B \in Nat
    BY <1>4, <2>1
  <2>3. c(0) = 0
    BY <1>1, <1>5, <2>1
  <2>4. c(N) = L
    BY <1>1, <1>2, <1>5, <2>1, <2>2
  <2> QED
    BY <2>3, <2>4
<1> DEFINE b(i) == (i - 1) * B
<1>7. \A i \in 1..N : i \in 0..N /\ i - 1 \in 0..N /\ b(i) \in 0..c(i) /\ c(i - 1) = b(i)
  <2> SUFFICES ASSUME NEW i \in 1..N
               PROVE  i \in 0..N /\ i - 1 \in 0..N /\ b(i) \in 0..c(i) /\ c(i - 1) = b(i)
    OBVIOUS
  <2>1. i \in 0..N /\ i - 1 \in 0..N
    BY <1>2
  <2>2. b(i) <= L /\ b(i) \in Nat /\ i * B \in Nat /\ b(i) <= i * B
    BY <1>2
  <2>3. c(i - 1) = b(i)
    BY <1>5, <2>1, <2>2
  <2>4. c(i) = i * B \/ c(i) = L
    BY <1>5, <2>1
  <2>5. c(i) \in Nat /\ b(i) <= c(i)
    <3> HIDE DEF c, b
    <3> QED
      BY <1>1, <2>2, <2>4
  <2> HIDE DEF c, b
  <2> QED
    BY <2>1, <2>2, <2>3, <2>5
<1> HIDE DEF c, b
<1>8. \A i \in 1..N : P[i] \in Stream /\ P[i] = SubSeq(s, b(i) + 1, c(i))
  <2> SUFFICES ASSUME NEW i \in 1..N
               PROVE  P[i] \in Stream /\ P[i] = SubSeq(s, b(i) + 1, c(i))
    OBVIOUS
  <2>1. P[i] = SubSeq(s, b(i) + 1, c(i))
    BY DEF b
  <2>2. c(i) \in 0..L /\ b(i) \in 0..c(i)
    BY <1>5, <1>7
  <2>3. SubSeq(s, b(i) + 1, c(i)) \in Stream
    BY <2>2, PieceType
  <2> QED
    BY <2>1, <2>3
<1>9. P \in Seq(Stream) /\ Len(P) = N
  <2>1. P \in [1..N -> Stream]
    BY <1>8
  <2> QED
    BY <1>2, <2>1
<1>10. f \in [0..N -> Stream]
  <2> SUFFICES ASSUME NEW i \in 0..N PROVE a \o Upto(s, c(i)) \in Stream
    OBVIOUS
  <2>1. Upto(s, c(i)) \in Stream
    BY <1>5, UptoType
  <2> QED
    BY <2>1 DEF Stream
<1>11. f[0] = a
  <2>1. Upto(s, 0) = <<>> /\ a \o <<>> = a
    <3>1. 0 \in 0..L
      BY <1>1
    <3>2. Upto(s, 0) \in Stream /\ Len(Upto(s, 0)) = 0
      BY <3>1, UptoType
    <3>3. a \in Seq(Symbol)
      BY DEF Stream
    <3> QED
      BY <3>2, <3>3, ConcatEmptySeq, EmptySeq DEF Stream
  <2>2. 0 \in 0..N
    BY <1>2
  <2>3. f[0] = a \o Upto(s, c(0))
    BY <2>2
  <2> HIDE DEF f
  <2> QED
    BY <1>6, <2>1, <2>3, Zenon
<1>12. f[N] = a \o s
  <2>1. Upto(s, L) = s
    <3>1. L \in 0..L
      BY <1>1
    <3>2. Upto(s, L) \in Stream /\ Len(Upto(s, L)) = L /\ \A i \in 1..L : Upto(s, L)[i] = s[i]
      BY <3>1, UptoType
    <3> QED
      BY <3>2, SameStream
  <2>2. N \in 0..N
    BY <1>2
  <2> QED
    BY <1>6, <2>1, <2>2
<1>13. \A i \in 1..N : f[i] = f[i - 1] \o P[i]
  <2> SUFFICES ASSUME NEW i \in 1..N PROVE f[i] = f[i - 1] \o P[i]
    OBVIOUS
  <2> DEFINE u == Upto(s, b(i))
             v == SubSeq(s, b(i) + 1, c(i))
             w == Upto(s, c(i))
  <2>1. /\ i \in 0..N /\ i - 1 \in 0..N /\ b(i) \in 0..c(i) /\ c(i - 1) = b(i)
        /\ c(i) \in 0..L /\ b(i) \in 0..L
    <3>1. i \in 0..N /\ i - 1 \in 0..N /\ b(i) \in 0..c(i) /\ c(i - 1) = b(i)
      BY <1>7
    <3>2. c(i) \in 0..L /\ c(i - 1) \in 0..L
      BY <1>5, <3>1
    <3> QED
      BY <3>1, <3>2
  <2>2. u \o v = w
    BY <2>1, UptoOn
  <2>3. f[i] = a \o w /\ f[i - 1] = a \o u /\ P[i] = v
    BY <1>8, <2>1
  <2>4. u \in Stream /\ v \in Stream
    BY <1>8, <2>1, UptoType
  <2> HIDE DEF u, v, w
  <2>5. (a \o u) \o v = a \o (u \o v)
    <3>1. a \in Seq(Symbol) /\ u \in Seq(Symbol) /\ v \in Seq(Symbol)
      BY <2>4 DEF Stream
    <3> QED
      BY <3>1, ConcatAssociative
  <2> QED
    BY <2>2, <2>3, <2>5
<1> HIDE DEF P, f
<1>14. Along(P, a, a \o s)
  BY <1>9, <1>10, <1>11, <1>12, <1>13 DEF Along
<1> QED
  BY <1>3, <1>9, <1>14

-----------------------------------------------------------------------------
(***************************************************************************)
(* The header lines of a script.                                           *)
(***************************************************************************)
Text == Seq(Word)

\* A blank line ends at i.
IsBlank(o, i) == o[i] = "crlf" /\ (i = 1 \/ o[i - 1] = "crlf")

LinesType ==
    [index : Nat, line : Text, lines : Seq(Text), done : BOOLEAN]

\* The last line has no ":".
Junk(lines) ==
    /\ Len(lines) > 0
    /\ lines[Len(lines)] # <<>>
    /\ lines[Len(lines)][1] \notin Fields

\* Where parseHeaders is after i symbols of o.
Lined(o, i, r) ==
    IF r.done
    THEN /\ r.index \in 1..i
         /\ \/ Junk(r.lines)
            \/ IsBlank(o, r.index) /\ \A k \in 1..(r.index - 1) : ~IsBlank(o, k)
    ELSE /\ r.index + Len(r.line) = i
         /\ r.line = <<>> <=> (i = 0 \/ o[i] = "crlf")
         /\ \A k \in 1..i : ~IsBlank(o, k)

\* What is known of the lines keeps its type.
LEMMA ReadSymbolType ==
    ASSUME NEW r \in LinesType, NEW s \in Word
    PROVE  ReadSymbol(r, s) \in LinesType
<1>1. r.line \in Text /\ r.lines \in Seq(Text) /\ r.index \in Nat
  BY DEF LinesType
<1>2. CASE r.done
  BY <1>2 DEF ReadSymbol
<1>3. CASE ~r.done /\ s # "crlf"
  <2>1. Append(r.line, s) \in Text
    BY <1>1 DEF Text
  <2>2. \A t \in Text : [r EXCEPT !.line = t] \in LinesType
    BY DEF LinesType
  <2> QED
    BY <1>3, <2>1, <2>2 DEF ReadSymbol
<1>4. CASE ~r.done /\ s = "crlf"
  <2> DEFINE n == r.index + Len(r.line) + 1
             ls == Append(r.lines, r.line)
             d == (r.line = <<>> \/ r.line[1] \notin Fields)
             nil == <<>>
  <2>1. n \in Nat /\ ls \in Seq(Text) /\ d \in BOOLEAN /\ nil \in Text
    <3>1. Len(r.line) \in Nat /\ nil \in Text
      BY <1>1 DEF Text
    <3>2. ls \in Seq(Text)
      BY <1>1
    <3> QED
      BY <1>1, <3>1, <3>2
  <2>2. ReadSymbol(r, s) = [index |-> n, line |-> nil, lines |-> ls, done |-> d]
    BY <1>4 DEF ReadSymbol
  <2> HIDE DEF n, ls, d, nil
  <2> QED
    BY <2>1, <2>2 DEF LinesType
<1> QED
  BY <1>2, <1>3, <1>4

\* A text that gets one symbol longer.
LEMMA AppendText ==
    ASSUME NEW u \in Text, NEW x \in Word
    PROVE  Append(u, x) \in Text /\ Len(Append(u, x)) = Len(u) + 1 /\ Append(u, x) # <<>>
BY AppendProperties DEF Text

\* One symbol more.
LEMMA ReadSymbolLined ==
    ASSUME NEW o \in Text, NEW i \in 1..Len(o), NEW r \in LinesType, Lined(o, i - 1, r)
    PROVE  Lined(o, i, ReadSymbol(r, o[i]))
<1> DEFINE q == ReadSymbol(r, o[i])
<1>1. /\ r.line \in Text /\ Len(r.line) \in Nat /\ r.index \in Nat
      /\ r.lines \in Seq(Text) /\ i \in Nat /\ i - 1 \in Nat /\ o[i] \in Word
      /\ r.done \in BOOLEAN
  BY DEF LinesType, Text
<1>2. CASE r.done
  <2>1. q = r
    BY <1>2 DEF ReadSymbol
  <2>2. r.index \in 1..i
    BY <1>1, <1>2 DEF Lined
  <2> QED
    BY <1>2, <2>1, <2>2 DEF Lined
<1>3. CASE ~r.done
  <2>1. /\ r.index + Len(r.line) = i - 1
        /\ r.line = <<>> <=> (i - 1 = 0 \/ o[i - 1] = "crlf")
        /\ \A k \in 1..(i - 1) : ~IsBlank(o, k)
    BY <1>3 DEF Lined
  <2>2. \A k \in 1..i : k \in 1..(i - 1) \/ k = i
    BY <1>1
  <2>3. CASE o[i] # "crlf"
    <3>1. q = [r EXCEPT !.line = Append(r.line, o[i])]
      BY <1>3, <2>3 DEF ReadSymbol
    <3> DEFINE l == Append(r.line, o[i])
    <3>2. Len(l) = Len(r.line) + 1 /\ l # <<>> /\ l \in Text
      <4>1. o[i] \in Word /\ r.line \in Text
        BY <1>1
      <4> QED
        BY <4>1, AppendText
    <3> HIDE DEF l, q
    <3>3. q.done = r.done /\ q.index = r.index /\ q.line = l
      BY <3>1 DEF LinesType, l
    <3>4. r.index + Len(l) = i
      BY <1>1, <2>1, <3>2
    <3>5. \A k \in 1..i : ~IsBlank(o, k)
      BY <2>1, <2>2, <2>3 DEF IsBlank
    <3>6. i # 0 /\ ~q.done
      BY <1>1, <1>3, <3>3
    <3>7. Lined(o, i, q)
      BY <2>3, <3>2, <3>3, <3>4, <3>5, <3>6 DEF Lined
    <3> QED
      BY <3>7 DEF q
  <2>4. CASE o[i] = "crlf"
    <3> DEFINE n == r.index + Len(r.line) + 1
               ls == Append(r.lines, r.line)
               d == (r.line = <<>> \/ r.line[1] \notin Fields)
               nil == <<>>
    <3>1. q = [index |-> n, line |-> nil, lines |-> ls, done |-> d]
      BY <1>3, <2>4 DEF ReadSymbol
    <3>2. n = i /\ d \in BOOLEAN /\ nil = <<>> /\ Len(nil) = 0
      BY <1>1, <2>1
    <3>3. Len(ls) > 0 /\ ls[Len(ls)] = r.line
      BY <1>1
    <3>4. r.line = <<>> <=> IsBlank(o, i)
      BY <1>1, <2>1, <2>4 DEF IsBlank
    <3>5. d <=> (r.line = <<>> \/ r.line[1] \notin Fields)
      OBVIOUS
    <3> HIDE DEF n, ls, d, nil, q
    <3>6. q.index = n /\ q.line = nil /\ q.lines = ls /\ q.done = d
      BY <3>1
    <3>7. CASE q.done
      <4>1. q.index \in 1..i /\ i \in 1..i
        BY <1>1, <3>2, <3>6
      <4>2. CASE r.line = <<>>
        <5>1. IsBlank(o, q.index) /\ \A k \in 1..(q.index - 1) : ~IsBlank(o, k)
          BY <2>1, <3>2, <3>4, <3>6, <4>2
        <5> QED
          BY <3>7, <4>1, <5>1 DEF Lined, q
      <4>3. CASE r.line # <<>>
        <5>1. r.line[1] \notin Fields
          BY <3>5, <3>6, <3>7, <4>3
        <5>2. Junk(q.lines)
          BY <3>3, <3>6, <4>3, <5>1 DEF Junk
        <5> QED
          BY <3>7, <4>1, <5>2 DEF Lined, q
      <4> QED
        BY <4>2, <4>3
    <3>8. CASE ~q.done
      <4>1. r.line # <<>>
        BY <3>5, <3>6, <3>8
      <4>2. \A k \in 1..i : ~IsBlank(o, k)
        BY <2>1, <2>2, <3>4, <4>1
      <4>3. q.index + Len(q.line) = i
        BY <1>1, <3>2, <3>6
      <4>4. q.line = <<>>
        BY <3>2, <3>6
      <4> QED
        BY <2>4, <3>8, <4>2, <4>3, <4>4 DEF Lined, q
    <3> QED
      BY <3>7, <3>8
  <2> QED
    BY <2>3, <2>4
<1> QED
  BY <1>1, <1>2, <1>3

\* What parseHeaders has found in a script's output.
LEMMA ReadLinesLined ==
    ASSUME NEW o \in Text
    PROVE  LET n == Min({Len(o), BufferSize})
           IN n \in 0..Len(o) /\ ReadLines(o) \in LinesType /\ Lined(o, n, ReadLines(o))
<1> DEFINE N == Min({Len(o), BufferSize})
           b == [index |-> 0, line |-> <<>>, lines |-> <<>>, done |-> FALSE]
           F(f) == [i \in 0..N |-> IF i = 0 THEN b ELSE ReadSymbol(f[i - 1], o[i])]
           R == CHOOSE f : f = F(f)
           g == [v \in LinesType \X (1..N) |-> ReadSymbol(v[1], o[v[2]])]
<1>1. N \in 0..Len(o) /\ N \in Nat /\ N \in 0..N
  <2> DEFINE l == Len(o)
  <2>1. l \in Nat
    BY DEF Text
  <2> HIDE DEF l
  <2>2. Min({l, BufferSize}) = IF l <= BufferSize THEN l ELSE BufferSize
    BY <2>1, FramingAssumption, MinOfTwo
  <2>3. Min({l, BufferSize}) \in 0..l
    BY <2>1, <2>2, FramingAssumption
  <2> QED
    BY <2>1, <2>3 DEF l
<1>2. \A i \in 1..N : i \in 1..Len(o) /\ o[i] \in Word
  <2> DEFINE l == Len(o)
  <2>1. l \in Nat /\ \A i \in 1..l : o[i] \in Word
    BY DEF Text
  <2> HIDE DEF l, N
  <2>2. \A i \in 1..N : i \in 1..l
    BY <1>1, <2>1 DEF l
  <2> QED
    BY <2>1, <2>2 DEF l
<1>3. b \in LinesType /\ Lined(o, 0, b)
  <2> DEFINE nil == <<>>
  <2>1. nil \in Text /\ nil \in Seq(Text) /\ Len(nil) = 0
    BY DEF Text
  <2>2. nil = <<>>
    OBVIOUS
  <2>3. b = [index |-> 0, line |-> nil, lines |-> nil, done |-> FALSE]
    OBVIOUS
  <2> HIDE DEF nil, b
  <2>4. b \in LinesType
    BY <2>1, <2>3 DEF LinesType
  <2>5. b.index = 0 /\ b.line = nil /\ ~b.done
    BY <2>3
  <2>6. \A k \in 1..0 : ~IsBlank(o, k)
    OBVIOUS
  <2>7. Lined(o, 0, b)
    BY <2>1, <2>2, <2>5, <2>6 DEF Lined
  <2> QED
    BY <2>4, <2>7
<1> HIDE DEF N, b
<1>4. g \in [LinesType \X (1..N) -> LinesType]
  <2>1. \A v \in LinesType, i \in 1..N : ReadSymbol(v, o[i]) \in LinesType
    BY <1>2, ReadSymbolType
  <2> QED
    BY <2>1
<1>5. PICK f : Iteration(f, LinesType, N, b, g)
  <2> HIDE DEF g
  <2> QED
    BY <1>1, <1>3, <1>4, Iterates
<1>6. f = F(f)
  <2>1. \A v \in LinesType, i \in 1..N : g[<<v, i>>] = ReadSymbol(v, o[i])
    OBVIOUS
  <2> HIDE DEF g
  <2>2. \A i \in 0..N : i = 0 \/ (i \in 1..N /\ i - 1 \in 0..N)
    BY <1>1
  <2>3. \A i \in 1..N : f[i] = ReadSymbol(f[i - 1], o[i])
    <3>1. \A i \in 1..N : i - 1 \in 0..N
      BY <1>1
    <3>2. \A i \in 1..N : f[i] = g[<<f[i - 1], i>>] /\ f[i - 1] \in LinesType
      BY <1>5, <3>1 DEF Iteration
    <3> QED
      BY <2>1, <3>2
  <2>4. f[0] = b /\ f \in [0..N -> LinesType]
    BY <1>5 DEF Iteration
  <2> QED
    BY <2>2, <2>3, <2>4
<1>7. R = F(R)
  BY <1>6
<1>8. ReadLines(o) = R[N]
  BY DEF ReadLines, N, b
<1> HIDE DEF R
<1>9. R[0] = b /\ \A i \in 1..N : R[i] = ReadSymbol(R[i - 1], o[i])
  BY <1>1, <1>7
<1> DEFINE Bad == {i \in 0..N : ~(R[i] \in LinesType /\ Lined(o, i, R[i]))}
<1>10. Bad \in SUBSET (0..N) /\ 0 \notin Bad
  BY <1>3, <1>9
<1>11. ASSUME NEW i \in 1..N, i - 1 \notin Bad PROVE i \notin Bad
  <2>1. i - 1 \in 0..N
    BY <1>1
  <2>2. R[i - 1] \in LinesType /\ Lined(o, i - 1, R[i - 1])
    BY <1>11, <2>1
  <2>3. R[i] \in LinesType /\ Lined(o, i, R[i])
    BY <1>2, <1>9, <2>2, ReadSymbolType, ReadSymbolLined
  <2> QED
    BY <2>3
<1>12. Bad = {}
  <2> HIDE DEF Bad
  <2> QED
    BY <1>1, <1>10, <1>11, NoFirst
<1>13. R[N] \in LinesType /\ Lined(o, N, R[N])
  BY <1>1, <1>12
<1> QED
  BY <1>1, <1>8, <1>13 DEF N

\* A line without ":" is among the keys.
LEMMA JunkIsKey ==
    ASSUME NEW lines \in Seq(Text), Junk(lines)
    PROVE  ~(Keys(lines) \subseteq Fields)
<1> DEFINE N == Len(lines)
           T == SUBSET Word
           More(k, i) == IF lines[i] = <<>> THEN k
                         ELSE (k \ SameKey(lines[i][1])) \union {lines[i][1]}
           F(f) == [i \in 0..N |-> IF i = 0 THEN {} ELSE IF lines[i] = <<>> THEN f[i - 1]
                         ELSE (f[i - 1] \ SameKey(lines[i][1])) \union {lines[i][1]}]
           R == CHOOSE f : f = F(f)
           g == [v \in T \X (1..N) |-> More(v[1], v[2])]
<1>1. N \in Nat /\ N \in 0..N /\ N \in 1..N
  BY DEF Junk
<1>2. \A i \in 1..N : lines[i] # <<>> => lines[i][1] \in Word
  <2> SUFFICES ASSUME NEW i \in 1..N, lines[i] # <<>> PROVE lines[i][1] \in Word
    OBVIOUS
  <2>1. lines[i] \in Seq(Word)
    BY DEF Text
  <2> QED
    BY <2>1
<1>3. \A k \in T, i \in 1..N : More(k, i) \in T
  BY <1>2
<1>4. g \in [T \X (1..N) -> T]
  <2> HIDE DEF More, T
  <2> QED
    BY <1>3
<1>5. PICK f : Iteration(f, T, N, {}, g)
  <2> HIDE DEF g, N, T
  <2>1. {} \in T
    BY DEF T
  <2> QED
    BY <1>1, <1>4, <2>1, Iterates
<1>6. f = F(f)
  <2>1. \A v \in T, i \in 1..N : g[<<v, i>>] = More(v, i)
    <3> HIDE DEF More
    <3> QED
      OBVIOUS
  <2> HIDE DEF g, T
  <2>3. \A i \in 1..N : f[i] = More(f[i - 1], i)
    <3>1. \A i \in 1..N : i - 1 \in 0..N
      BY <1>1
    <3>2. \A i \in 1..N : f[i] = g[<<f[i - 1], i>>] /\ f[i - 1] \in T
      BY <1>5, <3>1 DEF Iteration
    <3> QED
      BY <2>1, <3>2
  <2>2. \A i \in 0..N : i = 0 \/ i \in 1..N
    BY <1>1
  <2>4. f[0] = {} /\ f \in [0..N -> T]
    BY <1>5 DEF Iteration
  <2>5. f = [i \in 0..N |-> IF i = 0 THEN {} ELSE More(f[i - 1], i)]
    <3> HIDE DEF More, N
    <3> QED
      BY <2>2, <2>3, <2>4
  <2> QED
    BY <2>5
<1>7. R = F(R)
  BY <1>6
<1>8. Keys(lines) = R[N]
  BY DEF Keys
<1> HIDE DEF R
<1>9. R[N] = More(R[N - 1], N)
  <2>1. N # 0
    BY <1>1
  <2> QED
    BY <1>1, <1>7, <2>1
<1>10. lines[N][1] \in R[N] /\ lines[N][1] \notin Fields
  <2>1. lines[N] # <<>> /\ lines[N][1] \notin Fields
    BY DEF Junk
  <2> QED
    BY <1>9, <2>1
<1> QED
  BY <1>8, <1>10

\* Where blank lines of o end.
Blanks(o) == {i \in DOMAIN o : o[i] = "crlf" /\ (i = 1 \/ o[i - 1] = "crlf")}

\* The body of a script's output begins behind its first blank line, when the
\* header lines are in one buffer.
LEMMA ScriptHead ==
    ASSUME NEW o \in Text
    PROVE  LET r == ReadLines(o)
           IN /\ r.index \in 0..Len(o)
              /\ Cookies(r.lines) \in Nat
              /\ Keys(r.lines) \subseteq Fields /\ HeadFits(o) =>
                    Blanks(o) # {} /\ Min(Blanks(o)) = r.index
<1> DEFINE r == ReadLines(o)
           N == Min({Len(o), BufferSize})
           l == Len(o)
<1>1. N \in 0..l /\ r \in LinesType /\ Lined(o, N, r)
  BY ReadLinesLined
<1>2. l \in Nat /\ N \in Nat /\ DOMAIN o = 1..l
  BY <1>1 DEF Text
<1>3. /\ r.line \in Text /\ Len(r.line) \in Nat /\ r.index \in Nat
      /\ r.lines \in Seq(Text) /\ r.done \in BOOLEAN
  BY <1>1 DEF LinesType, Text
<1>4. HeadFits(o) <=> \E i \in 1..N : IsBlank(o, i)
  BY DEF HeadFits, IsBlank
<1>5. Blanks(o) = {i \in 1..l : IsBlank(o, i)}
  BY <1>2 DEF Blanks, IsBlank
<1> HIDE DEF r, N, l
<1>6. Cookies(r.lines) \in Nat
  <2> DEFINE S == {i \in DOMAIN r.lines : r.lines[i] = <<"cookie">>}
             m == Len(r.lines)
  <2>1. m \in Nat /\ S \subseteq 1..m
    BY <1>3
  <2> HIDE DEF S, m
  <2>2. IsFiniteSet(1..m)
    <3>1. 1 \in Int /\ m \in Int
      BY <2>1
    <3> QED
      BY <3>1, FS_Interval
  <2>3. IsFiniteSet(S)
    BY <2>1, <2>2, FS_Subset
  <2>4. Cardinality(S) \in Nat
    BY <2>3, FS_CardinalityType
  <2> QED
    BY <2>4 DEF Cookies, S
<1>7. r.index \in 0..l
  <2>1. CASE r.done
    BY <1>1, <1>2, <1>3, <2>1 DEF Lined
  <2>2. CASE ~r.done
    BY <1>1, <1>2, <1>3, <2>2 DEF Lined
  <2> QED
    BY <1>3, <2>1, <2>2
<1>8. ASSUME Keys(r.lines) \subseteq Fields, HeadFits(o)
      PROVE  Blanks(o) # {} /\ Min(Blanks(o)) = r.index
  <2>1. ~Junk(r.lines)
    BY <1>3, <1>8, JunkIsKey
  <2>2. r.done
    BY <1>1, <1>4, <1>8 DEF Lined
  <2> DEFINE x == r.index
             S == {i \in 1..l : IsBlank(o, i)}
  <2>3. x \in 1..N /\ IsBlank(o, x) /\ \A k \in 1..(x - 1) : ~IsBlank(o, k)
    BY <1>1, <2>1, <2>2 DEF Lined
  <2> HIDE DEF x
  <2>4. x \in 1..l /\ x \in Nat
    BY <1>1, <1>2, <2>3
  <2>5. x \in S /\ \A k \in S : x <= k
    <3>1. \A k \in 1..l : x <= k \/ k \in 1..(x - 1)
      BY <1>2, <2>4
    <3> QED
      BY <2>3, <2>4, <3>1
  <2>6. S \subseteq Nat
    BY <1>2
  <2> HIDE DEF S
  <2>7. Min(S) = x
    <3>1. \A y \in S : (\A k \in S : y <= k) => y = x
      BY <2>4, <2>5, <2>6
    <3> QED
      BY <2>5, <3>1 DEF Min
  <2> QED
    BY <1>5, <2>5, <2>7 DEF S, x
<1> QED
  BY <1>6, <1>7, <1>8 DEF r, l

-----------------------------------------------------------------------------
(***************************************************************************)
(* A response, as a peer reads it.                                         *)
(***************************************************************************)
\* One symbol.
LEMMA ReadsSymbol ==
    ASSUME NEW r \in PeerType, NEW x \in Symbol, NEW methods
    PROVE  /\ <<x>> \in Stream
           /\ DecodeSymbol(r, x, methods) \in PeerType
           /\ Reads(r, <<x>>, DecodeSymbol(r, x, methods), methods)
<1> DEFINE q == DecodeSymbol(r, x, methods)
           t == <<x>>
           f == [n \in 0..1 |-> IF n = 0 THEN r ELSE q]
<1>1. q \in PeerType
  BY SymbolFollows DEF Follows
<1>2. t \in Stream /\ Len(t) = 1 /\ t[1] = x
  BY DEF Stream
<1>3. f \in [0..1 -> PeerType] /\ f[0] = r /\ f[1] = q
  <2> HIDE DEF q
  <2> QED
    BY <1>1
<1>4. \A n \in 1..1 : n = 1 /\ n - 1 = 0
  OBVIOUS
<1>5. \A n \in 1..1 : f[n] = DecodeSymbol(f[n - 1], t[n], methods)
  <2> HIDE DEF f, t
  <2> QED
    BY <1>2, <1>3, <1>4 DEF q
<1> HIDE DEF q, f, t
<1>6. Reads(r, t, q, methods)
  BY <1>2, <1>3, <1>5 DEF Reads
<1> QED
  BY <1>1, <1>2, <1>6 DEF q, t

\* Fields leave the peer where it is.
LEMMA ReadsFields ==
    ASSUME NEW r \in PeerType, r.at = "head", NEW t \in Stream, NEW methods,
           \A i \in 1..Len(t) : \E s \in Word : t[i] = Field(s)
    PROVE  Reads(r, t, r, methods)
<1> DEFINE f == [n \in 0..Len(t) |-> r]
<1>1. Len(t) \in Nat /\ \A n \in 1..Len(t) : n \in 0..Len(t) /\ n - 1 \in 0..Len(t)
  BY DEF Stream
<1>2. f \in [0..Len(t) -> PeerType] /\ f[0] = r /\ f[Len(t)] = r
  BY <1>1
<1>3. ASSUME NEW n \in 1..Len(t) PROVE f[n] = DecodeSymbol(f[n - 1], t[n], methods)
  <2>1. f[n] = r /\ f[n - 1] = r
    BY <1>1
  <2>2. PICK s \in Word : t[n] = Field(s)
    OBVIOUS
  <2>3. DecodeSymbol(r, Field(s), methods) = r
    BY FieldRead
  <2> HIDE DEF f
  <2> QED
    BY <2>1, <2>2, <2>3
<1> HIDE DEF f
<1> QED
  BY <1>2, <1>3 DEF Reads

\* The bytes of a body.
Bytes(b) == [i \in DOMAIN b |-> Byte(b[i])]

\* They are a stream, one symbol for each of the body.
LEMMA BytesType ==
    ASSUME NEW b \in Text
    PROVE  /\ Bytes(b) \in Stream /\ Len(Bytes(b)) = Len(b)
           /\ \A i \in 1..Len(b) : Bytes(b)[i] = Byte(b[i]) /\ b[i] \in Word
<1>1. Len(b) \in Nat /\ DOMAIN b = 1..Len(b) /\ \A i \in 1..Len(b) : b[i] \in Word
  BY DEF Text
<1> DEFINE N == Len(b)
<1>2. \A i \in 1..N : Byte(b[i]) \in Symbol
  BY <1>1, Symbols
<1>3. Bytes(b) = [i \in 1..N |-> Byte(b[i])]
  BY <1>1 DEF Bytes
<1> HIDE DEF N
<1>4. Bytes(b) \in [1..N -> Symbol] /\ \A i \in 1..N : Bytes(b)[i] = Byte(b[i])
  <2> DEFINE y(i) == Byte(b[i])
  <2>1. \A i \in 1..N : y(i) \in Symbol
    BY <1>2
  <2>2. Bytes(b) = [i \in 1..N |-> y(i)]
    BY <1>3
  <2> HIDE DEF y
  <2>3. Bytes(b) \in [1..N -> Symbol] /\ \A i \in 1..N : Bytes(b)[i] = y(i)
    BY <2>1, <2>2
  <2> QED
    BY <2>3 DEF y
<1>5. N \in Nat
  BY <1>1 DEF N
<1>6. Bytes(b) \in Seq(Symbol) /\ Len(Bytes(b)) = N
  BY <1>4, <1>5
<1> QED
  BY <1>1, <1>4, <1>6 DEF N, Stream

\* From r to q, a peer reads one response, with a status and a body.
Answered(r, q, st, b) ==
    /\ q \in PeerType
    /\ q.at = "start"
    /\ \E d \in MessageType :
          q.messages = Append(r.messages, d) /\ d.status = st /\ d.body = b

\* The parts of a text.
LEMMA TextUpto ==
    ASSUME NEW b \in Text
    PROVE  /\ \A c \in 0..Len(b) : SubSeq(b, 1, c) \in Text /\ Len(SubSeq(b, 1, c)) = c
           /\ \A c \in 1..Len(b) : SubSeq(b, 1, c) = Append(SubSeq(b, 1, c - 1), b[c])
           /\ SubSeq(b, 1, 0) = <<>>
           /\ SubSeq(b, 1, Len(b)) = b
<1>1. Len(b) \in Nat /\ b \in Seq(Word) /\ \A i \in 1..Len(b) : b[i] \in Word
  BY DEF Text
<1>2. ASSUME NEW c \in 0..Len(b)
      PROVE  /\ SubSeq(b, 1, c) \in Seq(Word) /\ Len(SubSeq(b, 1, c)) = c
             /\ \A i \in 1..c : SubSeq(b, 1, c)[i] = b[i]
  <2>1. \A i \in 1..c : b[i] \in Word
    BY <1>1
  <2> QED
    BY <1>1, <2>1, SubSeqProperties
<1>3. ASSUME NEW c \in 1..Len(b)
      PROVE  SubSeq(b, 1, c) = Append(SubSeq(b, 1, c - 1), b[c])
  <2> DEFINE u == SubSeq(b, 1, c)
             v == SubSeq(b, 1, c - 1)
             w == Append(v, b[c])
  <2>1. c \in 0..Len(b) /\ c - 1 \in 0..Len(b) /\ c \in Nat
    BY <1>1
  <2>2. u \in Seq(Word) /\ Len(u) = c /\ \A i \in 1..c : u[i] = b[i]
    BY <1>2, <2>1
  <2>3. v \in Seq(Word) /\ Len(v) = c - 1 /\ \A i \in 1..(c - 1) : v[i] = b[i]
    BY <1>2, <2>1
  <2> HIDE DEF u, v
  <2>4. w \in Seq(Word) /\ Len(w) = c /\ w[c] = b[c] /\ \A i \in 1..(c - 1) : w[i] = v[i]
    BY <1>1, <2>1, <2>3
  <2> HIDE DEF w
  <2>5. \A i \in 1..c : i \in 1..(c - 1) \/ i = c
    BY <2>1
  <2>6. \A i \in 1..c : u[i] = w[i]
    BY <2>2, <2>3, <2>4, <2>5
  <2>7. u = w
    BY <2>2, <2>4, <2>6
  <2> QED
    BY <2>7 DEF u, v, w
<1>4. SubSeq(b, 1, 0) = <<>>
  <2>1. 0 \in 0..Len(b)
    BY <1>1
  <2> QED
    BY <1>2, <2>1, EmptySeq
<1>5. SubSeq(b, 1, Len(b)) = b
  <2>1. Len(b) \in 0..Len(b)
    BY <1>1
  <2> DEFINE u == SubSeq(b, 1, Len(b))
  <2>2. u \in Seq(Word) /\ Len(u) = Len(b) /\ \A i \in 1..Len(b) : u[i] = b[i]
    BY <1>2, <2>1
  <2> HIDE DEF u
  <2>3. u = b
    BY <1>1, <2>2
  <2> QED
    BY <2>3 DEF u
<1> QED
  BY <1>2, <1>3, <1>4, <1>5 DEF Text

\* A response, and a peer within one.
Message(st, n, b) == [status |-> st, length |-> n, body |-> b]
Within(at, m, ms) == [at |-> at, now |-> m, messages |-> ms]

\* The fields of a response.
LEMMA MessageFields ==
    ASSUME NEW st \in Nat, NEW n \in Nat, NEW b \in Text
    PROVE  /\ Message(st, n, b) \in MessageType
           /\ Message(st, n, b).status = st /\ Message(st, n, b).length = n
           /\ Message(st, n, b).body = b
BY DEF Message, MessageType, Text

\* A response with another body.
LEMMA MessageBody ==
    ASSUME NEW st, NEW n, NEW b, NEW c
    PROVE  [Message(st, n, b) EXCEPT !.body = c] = Message(st, n, c)
BY DEF Message

\* The fields of such a peer.
LEMMA WithinFields ==
    ASSUME NEW at \in Places, NEW m \in MessageType, NEW ms \in Seq(MessageType)
    PROVE  /\ Within(at, m, ms) \in PeerType
           /\ Within(at, m, ms).at = at
           /\ Within(at, m, ms).now = m
           /\ Within(at, m, ms).messages = ms
BY DEF Within, PeerType

\* One byte of a body.
LEMMA ReadBodyOn ==
    ASSUME NEW st \in Nat, NEW n \in Nat, NEW b \in Text, NEW s \in Word,
           NEW ms \in Seq(MessageType)
    PROVE  LET c == Append(b, s)
           IN ReadBody(Within("body", Message(st, n, b), ms), s) =
                IF Len(c) < n THEN Within("body", Message(st, n, c), ms)
                ELSE Within("start", Message(st, n, b), Append(ms, Message(st, n, c)))
<1> DEFINE c == Append(b, s)
           m == Message(st, n, b)
           d == Message(st, n, c)
           r == Within("body", m, ms)
<1>1. c \in Text /\ "body" \in Places
  BY AppendText DEF Places
<1>2. m \in MessageType /\ m.body = b
  BY MessageFields
<1> HIDE DEF c
<1>3. d.body = c /\ d.length = n
  BY <1>1, MessageFields
<1>4. [m EXCEPT !.body = c] = d
  BY MessageBody
<1> HIDE DEF m, d
<1>5. r.now = m /\ r.messages = ms
  BY <1>1, <1>2, WithinFields
<1>6. "start" \in Places /\ d \in MessageType /\ Append(ms, d) \in Seq(MessageType)
  <2>1. d \in MessageType
    BY <1>1, MessageFields DEF d
  <2> QED
    BY <2>1 DEF Places
<1>14. r \in PeerType /\ r.at = "body"
  BY <1>1, <1>2, WithinFields
<1> HIDE DEF r
<1>7. ReadBody(r, s) =
         LET e == [r.now EXCEPT !.body = Append(r.now.body, s)]
         IN IF Len(e.body) < e.length THEN [r EXCEPT !.now = e]
            ELSE [r EXCEPT !.at = "start", !.messages = Append(r.messages, e)]
  BY DEF ReadBody
<1>8. [r.now EXCEPT !.body = Append(r.now.body, s)] = d
  BY <1>2, <1>4, <1>5 DEF c
<1> DEFINE q == ReadBody(r, s)
           e == Append(ms, d)
<1>9. q = IF Len(c) < n THEN [r EXCEPT !.now = d]
          ELSE [r EXCEPT !.at = "start", !.messages = e]
  BY <1>3, <1>5, <1>7, <1>8
<1>11. e \in Seq(MessageType)
  BY <1>6
<1> HIDE DEF q, e
<1>12. CASE Len(c) < n
  <2>1. q = [r EXCEPT !.now = d]
    BY <1>9, <1>12
  <2>2. q = Within("body", d, ms)
    BY <1>5, <1>6, <1>14, <2>1 DEF PeerType, Within
  <2> QED
    BY <1>12, <2>2 DEF q, r, d, m, c
<1>13. CASE ~(Len(c) < n)
  <2>1. q = [r EXCEPT !.at = "start", !.messages = e]
    BY <1>9, <1>13
  <2>2. q = Within("start", m, e)
    BY <1>5, <1>6, <1>11, <1>14, <2>1 DEF PeerType, Within
  <2> QED
    BY <1>13, <2>2 DEF q, r, d, m, c, e
<1> QED
  BY <1>12, <1>13

\* The whole body.
LEMMA ReadsBody ==
    ASSUME NEW st \in Nat, NEW b \in Text, b # <<>>, NEW ms \in Seq(MessageType), NEW methods,
           NEW p, p = Within("body", Message(st, Len(b), <<>>), ms)
    PROVE  \E q : /\ Reads(p, Bytes(b), q, methods)
                  /\ Answered(p, q, st, b)
<1> DEFINE N == Len(b)
           u(n) == SubSeq(b, 1, n)
           P(n) == Within("body", Message(st, N, u(n)), ms)
           d == Message(st, N, b)
           q == Within("start", Message(st, N, u(N - 1)), Append(ms, d))
           f == [n \in 0..N |-> IF n < N THEN P(n) ELSE q]
<1>1. N \in Nat /\ N > 0 /\ N - 1 \in 0..N /\ N \in 0..N
  BY EmptySeq DEF Text
<1>2. /\ \A n \in 0..N : u(n) \in Text /\ Len(u(n)) = n
      /\ \A n \in 1..N : u(n) = Append(u(n - 1), b[n])
      /\ u(0) = <<>> /\ u(N) = b
  BY TextUpto
<1>3. \A n \in 1..N : Bytes(b)[n] = Byte(b[n]) /\ b[n] \in Word
  BY BytesType
<1>4. Len(Bytes(b)) = N
  BY BytesType
<1>15. P(0) = p
  BY <1>2
<1> HIDE DEF N, u
<1>16. "start" \in Places /\ "body" \in Places
  BY DEF Places
<1>5. \A n \in 0..N : P(n) \in PeerType /\ P(n).at = "body" /\ P(n).messages = ms
  <2> SUFFICES ASSUME NEW n \in 0..N
               PROVE  P(n) \in PeerType /\ P(n).at = "body" /\ P(n).messages = ms
    OBVIOUS
  <2>1. Message(st, N, u(n)) \in MessageType
    BY <1>1, <1>2, MessageFields
  <2> QED
    BY <1>16, <2>1, WithinFields
<1>7. d \in MessageType /\ d.status = st /\ d.body = b
  BY <1>1, MessageFields
<1>6. q \in PeerType /\ q.at = "start" /\ q.messages = Append(ms, d)
  <2>1. Append(ms, d) \in Seq(MessageType)
    BY <1>7
  <2>2. Message(st, N, u(N - 1)) \in MessageType
    BY <1>1, <1>2, MessageFields
  <2> DEFINE m == Message(st, N, u(N - 1))
             e == Append(ms, d)
  <2> HIDE DEF d, m, e
  <2>3. m \in MessageType /\ e \in Seq(MessageType)
    BY <2>1, <2>2 DEF m, e
  <2>4. Within("start", m, e) \in PeerType /\ Within("start", m, e).at = "start"
        /\ Within("start", m, e).messages = e
    BY <1>16, <2>3, WithinFields
  <2> QED
    BY <2>4 DEF m, e
<1>8. ASSUME NEW n \in 1..N
      PROVE  DecodeSymbol(P(n - 1), Bytes(b)[n], methods) = IF n < N THEN P(n) ELSE q
  <2>1. n \in 0..N /\ n - 1 \in 0..N
    BY <1>1
  <2>2. DecodeSymbol(P(n - 1), Byte(b[n]), methods) = ReadBody(P(n - 1), b[n])
    BY <1>3, <1>5, <2>1, ByteRead
  <2>3. u(n - 1) \in Text /\ u(n) = Append(u(n - 1), b[n]) /\ Len(u(n)) = n
    BY <1>2, <2>1
  <2>4. ReadBody(P(n - 1), b[n]) =
           IF Len(u(n)) < N THEN P(n)
           ELSE Within("start", Message(st, N, u(n - 1)), Append(ms, Message(st, N, u(n))))
    <3>1. b[n] \in Word
      BY <1>3
    <3> DEFINE v == u(n - 1)
               s == b[n]
               c == Append(v, s)
    <3>2. v \in Text /\ s \in Word
      BY <2>3, <3>1
    <3> HIDE DEF v, s
    <3>3. ReadBody(Within("body", Message(st, N, v), ms), s) =
            IF Len(c) < N THEN Within("body", Message(st, N, c), ms)
            ELSE Within("start", Message(st, N, v), Append(ms, Message(st, N, c)))
      BY <1>1, <3>2, ReadBodyOn
    <3>4. u(n) = c
      BY <2>3 DEF v, s
    <3> HIDE DEF c
    <3> QED
      BY <3>3, <3>4 DEF v, s
  <2>5. CASE n < N
    BY <1>3, <2>2, <2>3, <2>4, <2>5
  <2>6. CASE ~(n < N)
    <3>1. n = N
      BY <1>1, <2>6
    <3>2. u(n) = b /\ u(n - 1) = u(N - 1)
      BY <1>2, <3>1
    <3>3. ReadBody(P(n - 1), b[n]) =
            Within("start", Message(st, N, u(n - 1)), Append(ms, Message(st, N, u(n))))
      BY <2>3, <2>4, <2>6
    <3>4. ReadBody(P(n - 1), b[n]) = q
      BY <3>2, <3>3
    <3> QED
      BY <1>3, <2>2, <2>6, <3>4
  <2> QED
    BY <2>5, <2>6
<1> HIDE DEF P, q, d
<1>9. f \in [0..N -> PeerType] /\ f[0] = P(0) /\ f[N] = q
  BY <1>1, <1>5, <1>6
<1>10. \A n \in 1..N : f[n] = DecodeSymbol(f[n - 1], Bytes(b)[n], methods)
  <2> SUFFICES ASSUME NEW n \in 1..N PROVE f[n] = DecodeSymbol(f[n - 1], Bytes(b)[n], methods)
    OBVIOUS
  <2>1. n \in 0..N /\ n - 1 \in 0..N /\ n - 1 < N
    BY <1>1
  <2>2. f[n - 1] = P(n - 1) /\ f[n] = IF n < N THEN P(n) ELSE q
    BY <2>1
  <2> HIDE DEF f
  <2> QED
    BY <1>8, <2>2
<1> HIDE DEF f
<1>11. Reads(P(0), Bytes(b), q, methods)
  BY <1>4, <1>9, <1>10 DEF Reads
<1>12. P(0).messages = ms
  BY <1>1, <1>5
<1>14. Answered(P(0), q, st, b)
  BY <1>6, <1>7, <1>12 DEF Answered
<1> QED
  BY <1>11, <1>14, <1>15

\* The head, up to the blank line.
LEMMA ReadsHead ==
    ASSUME NEW r \in PeerType, r.at = "start", NEW st \in Nat, NEW n \in Nat,
           NEW x \in Stream, NEW y \in Stream, NEW methods,
           \A i \in 1..Len(x) : \E s \in Word : x[i] = Field(s),
           \A i \in 1..Len(y) : \E s \in Word : y[i] = Field(s)
    PROVE  LET t == <<StatusLine(st), Length(n)>> \o x \o y \o <<Blank>>
               p == Within("head", Message(st, n, <<>>), r.messages)
           IN t \in Stream /\ Reads(r, t, EndOfHead(p, methods), methods)
<1> DEFINE ms == r.messages
           a == StatusLine(st)
           l == Length(n)
           p0 == Within("head", Message(st, 0, <<>>), ms)
           p == Within("head", Message(st, n, <<>>), ms)
           q == EndOfHead(p, methods)
<1>1. ms \in Seq(MessageType) /\ <<>> \in Text /\ "head" \in Places
  BY PeerFields DEF Text, Places
<1>2. p0 \in PeerType /\ p \in PeerType /\ p0.at = "head" /\ p.at = "head"
  <2>1. Message(st, 0, <<>>) \in MessageType /\ Message(st, n, <<>>) \in MessageType
    BY <1>1, MessageFields
  <2> QED
    BY <1>1, <2>1, WithinFields
<1>3. a \in Symbol /\ l \in Symbol /\ Blank \in Symbol
  BY Symbols
<1>4. DecodeSymbol(r, a, methods) = p0
  BY StatusRead DEF Within, Message
<1>5. DecodeSymbol(p0, l, methods) = p
  <2>1. DecodeSymbol(p0, l, methods) = [p0 EXCEPT !.now.length = n]
    BY <1>2, LengthRead
  <2> DEFINE nil == <<>>
  <2> HIDE DEF nil
  <2>2. p0 = [at |-> "head", now |-> [status |-> st, length |-> 0, body |-> nil], messages |-> ms]
    BY DEF Within, Message, nil
  <2>3. p = [at |-> "head", now |-> [status |-> st, length |-> n, body |-> nil], messages |-> ms]
    BY DEF Within, Message, nil
  <2>4. [p0 EXCEPT !.now.length = n] = p
    BY <2>2, <2>3
  <2> QED
    BY <2>1, <2>4
<1>6. DecodeSymbol(p, Blank, methods) = q
  BY <1>2, BlankRead
<1> HIDE DEF a, l, p0, p, q
<1>7. Reads(r, <<a>>, p0, methods) /\ Reads(p0, <<l>>, p, methods) /\ Reads(p, <<Blank>>, q, methods)
  BY <1>2, <1>3, <1>4, <1>5, <1>6, ReadsSymbol
<1>8. Reads(p, x, p, methods) /\ Reads(p, y, p, methods)
  BY <1>2, ReadsFields
<1>9. <<a>> \in Stream /\ <<l>> \in Stream /\ <<Blank>> \in Stream /\ <<a>> \o <<l>> = <<a, l>>
  <2>1. <<a>> \in Stream /\ <<l>> \in Stream /\ <<Blank>> \in Stream
    BY <1>3 DEF Stream
  <2>2. <<a>> \o <<l>> = <<a, l>>
    <3>1. <<a>> \in Seq(Symbol) /\ <<l>> \in Seq(Symbol) /\ <<a, l>> \in Seq(Symbol)
      BY <1>3
    <3>2. Len(<<a>>) = 1 /\ Len(<<l>>) = 1 /\ Len(<<a, l>>) = 2
      OBVIOUS
    <3> DEFINE s == <<a>> \o <<l>>
               t == <<a, l>>
    <3>3. s \in Seq(Symbol) /\ Len(s) = 2 /\ s[1] = a /\ s[2] = l
      BY <3>1, <3>2, ConcatProperties
    <3>4. t \in Seq(Symbol) /\ Len(t) = 2 /\ t[1] = a /\ t[2] = l
      BY <3>1, <3>2
    <3> HIDE DEF s, t
    <3>5. \A i \in 1..2 : i = 1 \/ i = 2
      OBVIOUS
    <3>6. s = t
      BY <3>3, <3>4, <3>5, SameStream DEF Stream
    <3> QED
      BY <3>6 DEF s, t
  <2> QED
    BY <2>1, <2>2
<1>10. \A s, t \in Stream : s \o t \in Stream
  BY DEF Stream
<1> DEFINE t1 == <<a, l>>
           t2 == t1 \o x
           t3 == t2 \o y
           t4 == t3 \o <<Blank>>
<1>11. t1 \in Stream /\ Reads(r, t1, p, methods)
  <2>1. <<a>> \o <<l>> \in Stream
    BY <1>9, <1>10
  <2>2. Reads(r, <<a>> \o <<l>>, p, methods)
    BY <1>7, <1>9, ReadsOn
  <2> QED
    BY <1>9, <2>1, <2>2
<1> HIDE DEF t1
<1>12. t2 \in Stream /\ Reads(r, t2, p, methods)
  BY <1>8, <1>10, <1>11, ReadsOn
<1> HIDE DEF t2
<1>13. t3 \in Stream /\ Reads(r, t3, p, methods)
  BY <1>8, <1>10, <1>12, ReadsOn
<1> HIDE DEF t3
<1>14. t4 \in Stream /\ Reads(r, t4, q, methods)
  BY <1>7, <1>9, <1>10, <1>13, ReadsOn
<1> QED
  BY <1>14 DEF t1, t2, t3, t4, a, l, p, q

\* Behind the blank line.
LEMMA HeadEnds ==
    ASSUME NEW st \in Nat, ~(st \in 100..199), NEW n \in Nat, st = 204 => n = 0, NEW methods,
           NEW ms \in Seq(MessageType), NEW m, m = Message(st, n, <<>>),
           NEW p, p = Within("head", m, ms)
    PROVE  LET q == EndOfHead(p, methods)
               none == methods[Len(ms) + 1] = "HEAD" \/ n = 0
           IN /\ none => q = Within("start", m, Append(ms, m))
              /\ ~none => q = Within("body", m, ms)
<1> DEFINE q == EndOfHead(p, methods)
           none == methods[Len(ms) + 1] = "HEAD" \/ n = 0
           e == Append(ms, m)
<1>1. m \in MessageType /\ m.status = st /\ m.length = n
  <2>1. <<>> \in Text
    BY DEF Text
  <2> QED
    BY <2>1, MessageFields
<1>2. p \in PeerType /\ p.at = "head" /\ p.now = m /\ p.messages = ms
  <2>1. "head" \in Places
    BY DEF Places
  <2> QED
    BY <1>1, <2>1, WithinFields
<1>3. e \in Seq(MessageType)
  BY <1>1
<1>4. q = IF none THEN [p EXCEPT !.at = "start", !.messages = Append(p.messages, p.now)]
          ELSE [p EXCEPT !.at = "body"]
  <2>1. p.now.status = st /\ p.now.length = n
    BY <1>1, <1>2
  <2>2. ~(p.now.status \in 100..199) /\ (p.now.status = 204 => p.now.length = 0)
    BY <2>1
  <2>3. q = IF (p.now.status = 204 \/ methods[Len(p.messages) + 1] = "HEAD") \/ p.now.length = 0
            THEN [p EXCEPT !.at = "start", !.messages = Append(p.messages, p.now)]
            ELSE [p EXCEPT !.at = "body"]
    BY <2>2 DEF EndOfHead
  <2>4. ((p.now.status = 204 \/ methods[Len(p.messages) + 1] = "HEAD") \/ p.now.length = 0)
        <=> none
    BY <1>2, <2>1, <2>2
  <2> QED
    BY <2>3, <2>4
<1> HIDE DEF q, e
<1>5. CASE none
  <2>1. q = [p EXCEPT !.at = "start", !.messages = e]
    BY <1>2, <1>4, <1>5 DEF e
  <2>2. q = Within("start", m, e)
    BY <1>2, <1>3, <2>1 DEF PeerType, Within
  <2> QED
    BY <1>5, <2>2 DEF q, e
<1>6. CASE ~none
  <2>1. q = [p EXCEPT !.at = "body"]
    BY <1>4, <1>6
  <2>2. q = Within("body", m, ms)
    BY <1>2, <2>1 DEF PeerType, Within
  <2> QED
    BY <1>6, <2>2 DEF q
<1> QED
  BY <1>5, <1>6

\* The request's hints.
HintsType ==
    [status : Nat, path : Word, file : Text, gone : BOOLEAN, index : Nat,
     location : BOOLEAN, cookies : Nat, dir : BOOLEAN, cgiRedir : BOOLEAN,
     method : Word]

\* A response whose head tells the length of its body.
Regular(h) ==
    /\ h \in HintsType
    /\ ~(h.status \in 100..199)
    /\ Content(h).body \in Text
    /\ Content(h).length = Len(Content(h).body)
    /\ h.status = 204 => Content(h).length = 0

\* The text of a response.
Spoken(h) ==
    FormatHeaders(h) \o (IF h.method = "HEAD" THEN <<>> ELSE Bytes(Content(h).body))

\* The head of a response is made of header lines.
LEMMA HeadersRead ==
    ASSUME NEW h, Regular(h), NEW r \in PeerType, r.at = "start", NEW methods
    PROVE  LET p == Within("head", Message(h.status, Content(h).length, <<>>), r.messages)
           IN /\ FormatHeaders(h) \in Stream
              /\ Reads(r, FormatHeaders(h), EndOfHead(p, methods), methods)
<1> DEFINE st == h.status
           n == Content(h).length
           x == IF h.location \/ (Dynamic(h) /\ h.status \in 300..399)
                THEN <<Field("Location")>> ELSE <<>>
           y == [i \in 1..h.cookies |-> Field("Set-Cookie")]
           t == <<StatusLine(st), Length(n)>> \o x \o y \o <<Blank>>
           p == Within("head", Message(st, n, <<>>), r.messages)
<1>1. st \in Nat /\ n \in Nat /\ h.cookies \in Nat
  <2>1. st \in Nat /\ h.cookies \in Nat
    BY DEF Regular, HintsType
  <2>2. n \in Nat
    BY DEF Regular, Text
  <2> QED
    BY <2>1, <2>2
<1>7. "Location" \in Word /\ "Set-Cookie" \in Word
  BY DEF Word, Names
<1>2. Field("Location") \in Symbol /\ Field("Set-Cookie") \in Symbol
  BY <1>7, Symbols, Zenon
<1>3. x \in Stream /\ \A i \in 1..Len(x) : \E s \in Word : x[i] = Field(s)
  <2>1. CASE x = <<>>
    <3>1. <<>> \in Stream /\ Len(<<>>) = 0
      BY DEF Stream
    <3> QED
      BY <2>1, <3>1
  <2>2. CASE x = <<Field("Location")>>
    <3> DEFINE w == Field("Location")
    <3>1. w \in Symbol
      BY <1>2
    <3>2. \E s \in Word : w = Field(s)
      BY <1>7, Zenon
    <3> HIDE DEF w
    <3>3. <<w>> \in Stream /\ Len(<<w>>) = 1 /\ <<w>>[1] = w
      BY <3>1 DEF Stream
    <3>4. \A i \in 1..1 : i = 1
      OBVIOUS
    <3>5. x = <<w>>
      BY <2>2 DEF w
    <3> HIDE DEF x
    <3> QED
      BY <3>2, <3>3, <3>4, <3>5
  <2> QED
    BY <2>1, <2>2
<1>4. y \in Stream /\ \A i \in 1..Len(y) : \E s \in Word : y[i] = Field(s)
  <2> DEFINE w == Field("Set-Cookie")
             k == h.cookies
  <2>1. w \in Symbol
    BY <1>2
  <2>2. \E s \in Word : w = Field(s)
    BY <1>7, Zenon
  <2>3. k \in Nat
    BY <1>1
  <2> HIDE DEF w, k
  <2>4. y = [i \in 1..k |-> w]
    BY DEF w, k
  <2> HIDE DEF y
  <2>5. y \in Seq(Symbol) /\ Len(y) = k /\ \A i \in 1..k : y[i] = w
    BY <2>1, <2>3, <2>4
  <2> QED
    BY <2>2, <2>5 DEF Stream
<1>5. FormatHeaders(h) = t
  BY DEF FormatHeaders
<1> HIDE DEF x, y, st, n
<1>6. t \in Stream /\ Reads(r, t, EndOfHead(p, methods), methods)
  BY <1>1, <1>3, <1>4, ReadsHead
<1> HIDE DEF t, p
<1> QED
  BY <1>5, <1>6 DEF p, st, n

\* A peer that waits for a response reads it: the status, and the whole body.
LEMMA ResponseRead ==
    ASSUME NEW h, Regular(h), NEW r \in PeerType, r.at = "start", NEW methods,
           methods[Len(r.messages) + 1] = h.method
    PROVE  /\ Spoken(h) \in Stream
           /\ \E q : /\ Reads(r, Spoken(h), q, methods)
                     /\ Answered(r, q, h.status,
                                 IF h.method = "HEAD" THEN <<>> ELSE Content(h).body)
<1> DEFINE st == h.status
           n == Content(h).length
           b == Content(h).body
           ms == r.messages
           nil == <<>>
           m == Message(st, n, nil)
           p == Within("head", m, ms)
           t == FormatHeaders(h)
           e == EndOfHead(p, methods)
           quiet == h.method = "HEAD"
           none == methods[Len(ms) + 1] = "HEAD" \/ n = 0
           u == IF quiet THEN nil ELSE Bytes(b)
           v == IF quiet THEN nil ELSE b
<1>1. /\ st \in Nat /\ ~(st \in 100..199) /\ (st = 204 => n = 0)
      /\ b \in Text /\ n = Len(b) /\ n \in Nat
  <2>1. h \in HintsType /\ ~(st \in 100..199) /\ (st = 204 => n = 0) /\ b \in Text /\ n = Len(b)
    BY DEF Regular
  <2>2. st \in Nat
    BY <2>1 DEF HintsType
  <2> HIDE DEF b, n
  <2>3. Len(b) \in Nat
    BY <2>1 DEF Text
  <2> QED
    BY <2>1, <2>2, <2>3
<1>2. ms \in Seq(MessageType) /\ nil \in Text /\ nil \in Stream /\ nil = <<>>
  BY PeerFields DEF Text, Stream
<1>3. t \in Stream /\ Reads(r, t, e, methods)
  BY HeadersRead
<1>4. (none => e = Within("start", m, Append(ms, m))) /\ (~none => e = Within("body", m, ms))
  <2>1. m = Message(st, n, <<>>)
    OBVIOUS
  <2>2. p = Within("head", m, ms)
    OBVIOUS
  <2> HIDE DEF st, n, m, ms, p
  <2> QED
    BY <1>1, <1>2, <2>1, <2>2, HeadEnds
<1>5. none <=> (quiet \/ n = 0)
  OBVIOUS
<1>6. Spoken(h) = t \o u
  BY DEF Spoken
<1>7. u \in Stream
  <2>1. Bytes(b) \in Stream
    BY <1>1, BytesType
  <2> QED
    BY <1>2, <2>1
<1>8. \A s, w \in Stream : s \o w \in Stream
  BY DEF Stream
<1>9. m \in MessageType /\ m.status = st /\ m.body = nil
  <2> HIDE DEF st, n, nil
  <2> QED
    BY <1>1, <1>2, MessageFields
<1> HIDE DEF st, n, b, ms, m, p, t, e, u, v, nil
<1>10. \E q : Reads(e, u, q, methods) /\ Answered(r, q, st, v)
  <2>1. CASE none
    <3> DEFINE x == Append(ms, m)
    <3>1. x \in Seq(MessageType) /\ "start" \in Places
      BY <1>2, <1>9 DEF Places
    <3>2. e = Within("start", m, x)
      BY <1>4, <2>1
    <3> HIDE DEF x
    <3>3. e \in PeerType /\ e.at = "start" /\ e.messages = x
      BY <1>9, <3>1, <3>2, WithinFields
    <3>4. v = nil
      <4>1. CASE quiet
        BY <4>1 DEF v
      <4>2. CASE ~quiet
        <5>1. b = <<>>
          BY <1>1, <1>5, <2>1, <4>2, EmptySeq DEF Text
        <5> QED
          BY <4>2, <5>1 DEF v, nil
      <4> QED
        BY <4>1, <4>2
    <3>5. u = nil
      <4>1. CASE quiet
        BY <4>1 DEF u
      <4>2. CASE ~quiet
        <5>1. Len(b) = 0
          BY <1>1, <1>5, <2>1, <4>2
        <5>2. Bytes(b) \in Stream /\ Len(Bytes(b)) = 0
          BY <1>1, <5>1, BytesType
        <5>3. Bytes(b) = <<>>
          BY <5>2, EmptySeq DEF Stream
        <5> QED
          BY <4>2, <5>3 DEF u, nil
      <4> QED
        BY <4>1, <4>2
    <3>6. Reads(e, u, e, methods)
      <4> DEFINE f == [k \in 0..0 |-> e]
      <4>1. f \in [0..0 -> PeerType] /\ f[0] = e
        BY <3>3
      <4>2. Len(u) = 0
        BY <3>5 DEF nil
      <4> HIDE DEF f
      <4> QED
        BY <4>1, <4>2 DEF Reads
    <3>7. e.messages = Append(r.messages, m)
      BY <3>3 DEF x, ms
    <3>8. Answered(r, e, st, v)
      BY <1>9, <3>3, <3>4, <3>7 DEF Answered
    <3> QED
      BY <3>6, <3>8
  <2>2. CASE ~none
    <3>1. ~quiet /\ n # 0
      BY <1>5, <2>2
    <3>2. u = Bytes(b) /\ v = b
      BY <3>1 DEF u, v
    <3>3. b # <<>>
      BY <1>1, <3>1
    <3>4. e = Within("body", Message(st, Len(b), <<>>), ms)
      BY <1>1, <1>2, <1>4, <2>2 DEF m
    <3>5. PICK q : Reads(e, Bytes(b), q, methods) /\ Answered(e, q, st, b)
      BY <1>1, <1>2, <3>3, <3>4, ReadsBody
    <3>6. e.messages = ms
      <4>1. e = Within("body", m, ms)
        BY <1>4, <2>2
      <4> QED
        BY <4>1 DEF Within
    <3>7. Answered(r, q, st, b)
      BY <3>5, <3>6 DEF Answered, ms
    <3> QED
      BY <3>2, <3>5, <3>7
  <2> QED
    BY <2>1, <2>2
<1>11. PICK q : Reads(e, u, q, methods) /\ Answered(r, q, st, v)
  BY <1>10
<1>12. Reads(r, t \o u, q, methods) /\ t \o u \in Stream
  BY <1>3, <1>7, <1>8, <1>11, ReadsOn
<1> QED
  BY <1>6, <1>11, <1>12 DEF st, v, b, nil

\* The buffers of a response hold its text.
LEMMA ResponseBuffers ==
    ASSUME NEW h, Regular(h), FormatHeaders(h) \in Stream, NEW a \in Stream
    PROVE  /\ WriteResponse(h) \in Seq(Stream)
           /\ Along(WriteResponse(h), a, a \o Spoken(h))
<1> DEFINE t == FormatHeaders(h)
           b == Content(h).body
           y == Bytes(b)
           c == a \o t
<1>1. y \in Stream /\ y = [i \in DOMAIN Content(h).body |-> Byte(Content(h).body[i])]
  BY BytesType DEF Regular, Bytes
<1>2. c \in Stream
  BY DEF Stream
<1>3. Portions(t) \in Seq(Stream) /\ Along(Portions(t), a, c)
  BY PortionsLead
<1>4. Portions(y) \in Seq(Stream) /\ Along(Portions(y), c, c \o y)
  <2> HIDE DEF y, c
  <2> QED
    BY <1>1, <1>2, PortionsLead
<1>5. CASE h.method = "HEAD"
  <2>1. WriteResponse(h) = Portions(t) \o <<>> /\ Spoken(h) = t \o <<>>
    BY <1>5 DEF WriteResponse, Spoken
  <2>2. t \o <<>> = t
    <3>1. t \in Seq(Symbol)
      BY DEF Stream
    <3> QED
      BY <3>1, ConcatEmptySeq
  <2>3. Portions(t) \o <<>> = Portions(t)
    <3> HIDE DEF t
    <3> QED
      BY <1>3, ConcatEmptySeq
  <2> QED
    BY <1>3, <2>1, <2>2, <2>3
<1>6. CASE h.method # "HEAD"
  <2>1. WriteResponse(h) = Portions(t) \o Portions(y) /\ Spoken(h) = t \o y
    BY <1>1, <1>6 DEF WriteResponse, Spoken
  <2>2. a \o (t \o y) = c \o y
    <3>1. a \in Seq(Symbol) /\ t \in Seq(Symbol) /\ y \in Seq(Symbol)
      BY <1>1 DEF Stream
    <3> HIDE DEF y, t
    <3> QED
      BY <3>1, ConcatAssociative
  <2> HIDE DEF y, t, c
  <2>3. Along(Portions(t) \o Portions(y), a, c \o y)
    BY <1>3, <1>4, AlongOn
  <2>4. Portions(t) \o Portions(y) \in Seq(Stream)
    BY <1>3, <1>4
  <2> QED
    BY <2>1, <2>2, <2>3, <2>4
<1> QED
  BY <1>5, <1>6

-----------------------------------------------------------------------------
(***************************************************************************)
(* From the hints to the response.                                         *)
(***************************************************************************)
\* The file an upload has left empty.
NothingIn(h) == h.path \notin {"none", "output"} /\ Len(h.file) = 0 /\ ~h.dir

\* A response that can be generated from h: of a script's output, index is behind
\* the header lines; of any other file it is 0.
Prepared(h) ==
    /\ h \in HintsType
    /\ ~(h.status \in 100..199)
    /\ h.status = 204 => NothingIn(h)
    /\ h.path # "none" =>
          /\ h.index <= Len(h.file)
          /\ h.dir => h.status = 200
          /\ h.path # "output" => h.index = 0
          /\ h.path = "output" /\ HeadFits(h.file) =>
                Blanks(h.file) # {} /\ Min(Blanks(h.file)) = h.index
    /\ h.status \in 401..417 => h.index = 0 /\ ~h.dir

\* The fields of the hints.
LEMMA HintsFields ==
    ASSUME NEW h \in HintsType
    PROVE  /\ h.status \in Nat /\ h.path \in Word /\ h.file \in Text /\ h.gone \in BOOLEAN
           /\ h.index \in Nat /\ h.location \in BOOLEAN /\ h.cookies \in Nat
           /\ h.dir \in BOOLEAN /\ h.cgiRedir \in BOOLEAN /\ h.method \in Word
BY DEF HintsType

\* What is behind index.
LEMMA TextFrom ==
    ASSUME NEW o \in Text, NEW k \in Nat, k <= Len(o)
    PROVE  /\ SubSeq(o, k + 1, Len(o)) \in Text
           /\ Len(SubSeq(o, k + 1, Len(o))) = Len(o) - k
           /\ k = 0 => SubSeq(o, k + 1, Len(o)) = o
<1> DEFINE l == Len(o)
<1>1. l \in Nat /\ o \in Seq(Word)
  BY DEF Text
<1>2. \A i \in (k + 1)..l : o[i] \in Word
  BY <1>1
<1> DEFINE s == SubSeq(o, k + 1, l)
<1>3. Len(s) = l - k /\ s \in Seq(Word)
  BY <1>1, <1>2, SubSeqProperties
<1>4. k = 0 => s = o
  BY TextUpto
<1> QED
  BY <1>3, <1>4 DEF Text

\* What generateBody makes is a text.
LEMMA TextsGenerated ==
    ASSUME NEW h
    PROVE  GenerateBody(h) \in Text
<1>1. "html" \in Word /\ "moved" \in Word /\ "list" \in Word
  BY DEF Word, Names
<1>2. \A x, y, z \in Word : <<x>> \in Text /\ <<x, y>> \in Text /\ <<x, y, z>> \in Text
  BY DEF Text
<1>3. <<"html">> \in Text /\ <<"moved", "html">> \in Text /\ <<"list", "html", "html">> \in Text
  BY <1>1, <1>2
<1> QED
  BY <1>3 DEF GenerateBody

\* Its head tells the length of its body, which is the one meant.
LEMMA PreparedRegular ==
    ASSUME NEW h, Prepared(h)
    PROVE  /\ Regular(h)
           /\ MeantBody(h) \in Text
           /\ h.path # "output" \/ HeadFits(h.file) =>
                 (IF h.method = "HEAD" THEN <<>> ELSE Content(h).body) = MeantBody(h)
<1> DEFINE o == h.file
           k == h.index
           b == Content(h).body
           m == MeantBody(h)
           s == SubSeq(o, k + 1, Len(o))
<1>1. h \in HintsType /\ o \in Text /\ k \in Nat /\ h.dir \in BOOLEAN /\ Len(o) \in Nat
  BY HintsFields DEF Prepared, Text
<1>2. /\ ~(h.status \in 100..199)
      /\ h.status = 204 => h.path \notin {"none", "output"} /\ Len(o) = 0 /\ ~h.dir
  BY DEF Prepared, NothingIn
<1>3. <<>> \in Text
  BY DEF Text
<1>4. CASE Dynamic(h)
  <2> DEFINE g == GenerateBody(h)
  <2>1. Content(h).body = g /\ Content(h).length = Len(g)
    BY <1>4 DEF Content
  <2>2. m = IF h.method = "HEAD" THEN <<>> ELSE g
    BY <1>4 DEF MeantBody
  <2>3. g \in Text
    BY TextsGenerated
  <2>5. h.status # 204
    BY <1>2, <1>4 DEF Dynamic
  <2>4. Regular(h)
    BY <1>1, <1>2, <2>1, <2>3, <2>5 DEF Regular
  <2> QED
    BY <1>3, <2>1, <2>2, <2>3, <2>4
<1>5. CASE ~Dynamic(h)
  <2>1. h.path # "none" /\ ~(h.status = 200 /\ h.dir)
    BY <1>5 DEF Dynamic
  <2>2. k <= Len(o) /\ ~h.dir /\ (h.path # "output" => k = 0)
        /\ (h.path = "output" /\ HeadFits(o) => Blanks(o) # {} /\ Min(Blanks(o)) = k)
    BY <1>1, <2>1 DEF Prepared
  <2>3. Content(h).body = s /\ Content(h).length = Len(o) - k
    BY <1>5, <2>2 DEF Content, InspectFile
  <2>4. s \in Text /\ Len(s) = Len(o) - k /\ (k = 0 => s = o)
    BY <1>1, <2>2, TextFrom
  <2>9. h.status = 204 => Len(o) - k = 0
    BY <1>1, <1>2, <2>2
  <2>5. Regular(h)
    BY <1>1, <1>2, <2>3, <2>4, <2>9 DEF Regular
  <2>6. m = IF h.method = "HEAD" THEN <<>>
            ELSE IF h.path # "output" THEN o
            ELSE IF Blanks(o) = {} THEN <<>>
            ELSE SubSeq(o, Min(Blanks(o)) + 1, Len(o))
    BY <1>5 DEF MeantBody, Blanks
  <2>7. h.path # "output" \/ HeadFits(o) => (IF h.method = "HEAD" THEN <<>> ELSE s) = m
    BY <2>2, <2>4, <2>6
  <2>8. m \in Text
    <3>1. CASE Blanks(o) # {}
      <4>1. Min(Blanks(o)) \in Nat /\ Min(Blanks(o)) <= Len(o)
        <5> DEFINE S == Blanks(o)
                   x == Min(S)
        <5>1. S \subseteq Nat /\ \A i \in S : i <= Len(o)
          BY <1>1 DEF Blanks, Text
        <5> HIDE DEF S
        <5>2. \E i \in S : \A j \in S : i <= j
          BY <3>1, <5>1, Least DEF S
        <5>3. x \in S
          BY <5>2 DEF Min
        <5> QED
          BY <5>1, <5>3 DEF S
      <4> DEFINE x == Min(Blanks(o))
      <4> HIDE DEF x
      <4>2. SubSeq(o, x + 1, Len(o)) \in Text
        BY <1>1, <4>1, TextFrom DEF x
      <4> QED
        BY <1>1, <1>3, <2>6, <4>2 DEF x
    <3>2. CASE Blanks(o) = {}
      BY <1>1, <1>3, <2>6, <3>2
    <3> QED
      BY <3>1, <3>2
  <2> QED
    BY <2>3, <2>5, <2>7, <2>8
<1> QED
  BY <1>4, <1>5

\* fillResponse keeps that.
LEMMA FillKeeps ==
    ASSUME NEW h, Prepared(h)
    PROVE  Prepared(FillResponse(h)) /\ FillResponse(h).method = h.method
<1> DEFINE q == FillResponse(h)
           two == <<"html", "html">>
           nil == <<>>
<1>1. h \in HintsType /\ ~(h.status \in 100..199) /\ h.status \in Nat
  BY HintsFields DEF Prepared
<1>2. two \in Text /\ nil \in Text /\ Len(two) \in Nat /\ "page" \in Word /\ "none" \in Word
  <2>1. "html" \in Word /\ "page" \in Word /\ "none" \in Word
    BY DEF Word, Names
  <2>2. \A x, y \in Word : <<x, y>> \in Text
    BY DEF Text
  <2>3. two \in Text
    BY <2>1, <2>2
  <2> HIDE DEF two
  <2> QED
    BY <2>1, <2>3 DEF Text
<1>3. CASE h.status \in 401..417
  <2>1. q = [h EXCEPT !.path = "page", !.file = two]
    BY <1>3 DEF FillResponse
  <2>2. h.index = 0 /\ ~h.dir
    BY <1>3 DEF Prepared
  <2> HIDE DEF q, two
  <2>3. /\ q \in HintsType /\ q.status = h.status /\ q.path = "page" /\ q.file = two
        /\ q.index = h.index /\ q.dir = h.dir /\ q.method = h.method
    BY <1>1, <1>2, <2>1 DEF HintsType
  <2>5. q.index = 0 /\ ~q.dir /\ q.index <= Len(q.file)
    BY <1>2, <2>2, <2>3
  <2>6. ~(q.status \in 100..199) /\ q.status # 204
    BY <1>1, <1>3, <2>3
  <2>4. Prepared(q)
    BY <2>3, <2>5, <2>6 DEF Prepared
  <2> QED
    BY <2>3, <2>4 DEF q
<1>4. CASE ~(h.status \in 401..417) /\ h.status \in {400, 500, 503}
  <2>1. q = [h EXCEPT !.path = "none", !.file = nil]
    BY <1>4 DEF FillResponse
  <2> HIDE DEF q, nil
  <2>3. /\ q \in HintsType /\ q.status = h.status /\ q.path = "none"
        /\ q.method = h.method
    BY <1>1, <1>2, <2>1 DEF HintsType
  <2>6. ~(q.status \in 100..199) /\ q.status # 204 /\ ~(q.status \in 401..417)
    BY <1>1, <1>4, <2>3
  <2>4. Prepared(q)
    BY <2>3, <2>6 DEF Prepared
  <2> QED
    BY <2>3, <2>4 DEF q
<1>5. CASE ~(h.status \in 401..417) /\ ~(h.status \in {400, 500, 503})
  BY <1>5 DEF FillResponse
<1> QED
  BY <1>3, <1>4, <1>5

\* generateResponse too.
LEMMA GenerateKeeps ==
    ASSUME NEW h0, Prepared(h0)
    PROVE  Prepared(GenerateResponse(h0)) /\ GenerateResponse(h0).method = h0.method
<1> DEFINE h == FillResponse(h0)
           e == [h EXCEPT !.status = 500]
<1>1. Prepared(h) /\ h.method = h0.method
  BY FillKeeps
<1> HIDE DEF h
<1>2. CASE h.gone /\ h.path # "none"
  <2>1. GenerateResponse(h0) = FillResponse(e)
    BY <1>2 DEF GenerateResponse, h
  <2>2. h \in HintsType
    BY <1>1 DEF Prepared
  <2>3. e \in HintsType /\ e.status = 500
    BY <2>2 DEF HintsType
  <2> DEFINE nil == <<>>
             q == FillResponse(e)
  <2>4. nil \in Text /\ "none" \in Word
    BY DEF Text, Word, Names
  <2>5. e.method = h.method
    BY <2>2 DEF HintsType
  <2> HIDE DEF e
  <2>6. q = [e EXCEPT !.path = "none", !.file = nil]
    BY <2>3 DEF FillResponse
  <2> HIDE DEF q, nil
  <2>7. q \in HintsType /\ q.status = 500 /\ q.path = "none" /\ q.method = e.method
    BY <2>3, <2>4, <2>6 DEF HintsType
  <2>8. Prepared(q)
    BY <2>7 DEF Prepared
  <2> QED
    BY <1>1, <2>1, <2>5, <2>7, <2>8 DEF q
<1>3. CASE ~(h.gone /\ h.path # "none")
  <2>1. GenerateResponse(h0) = h
    BY <1>3 DEF GenerateResponse, h
  <2> QED
    BY <1>1, <2>1
<1> QED
  BY <1>2, <1>3

\* The hints of a request nothing has been found out about, but perhaps that a
\* script led here and which cookies it set.  The path may be the output of that
\* script, of which nothing can be read.
Fresh(h) ==
    /\ h \in HintsType
    /\ h.status = 0 /\ h.file = <<>> /\ h.index = 0 /\ ~h.dir

\* No peer asks for a 100, nothing is deleted, no file refuses an upload without
\* a body, and no script redirects to a folder.  In each of these cases the code
\* sends what a peer cannot take apart: a 100 without its blank line, a 204 with
\* a body, another one, a length with nothing behind it.
Conforming ==
    /\ Expects \subseteq {FALSE}
    /\ "DELETE" \notin Methods
    /\ "denied" \notin Targets
    /\ "folder" \notin RedirTargets

\* No header lines are within nothing.
LEMMA NothingFits ==
    ASSUME NEW o \in Text, Len(o) = 0
    PROVE  ~HeadFits(o)
<1>1. Min({Len(o), BufferSize}) = 0
  BY FramingAssumption, MinOfTwo
<1> QED
  BY <1>1 DEF HeadFits

\* A response can be generated from it, but for a folder behind a redirection,
\* for DELETE and for an upload that is denied.
LEMMA ServedPrepared ==
    ASSUME NEW hs, Fresh(hs), NEW t \in Targets, NEW f \in Text, NEW gone \in BOOLEAN,
           hs.method # "DELETE", t # "denied", ~(t = "folder" /\ hs.cgiRedir),
           NEW q, q = Served(hs, t, f, gone)
    PROVE  Prepared(q) /\ q.method = hs.method
<1> DEFINE done == IF hs.cgiRedir THEN 0 ELSE 200
           upload == hs.method \in {"POST", "PUT"}
<1>1. hs \in HintsType /\ hs.status = 0 /\ hs.index = 0 /\ ~hs.dir
  BY DEF Fresh
<1>2. Len(hs.file) = 0 /\ ~HeadFits(hs.file)
  <2>1. hs.file \in Text /\ Len(hs.file) = 0
    BY HintsFields DEF Fresh
  <2> QED
    BY <2>1, NothingFits
<1>3. done \in {0, 200} /\ (~hs.cgiRedir => done = 200) /\ hs.gone \in BOOLEAN
  BY <1>1, HintsFields
<1>4. t \in {"static", "created", "empty", "folder", "moved", "refused", "bad"}
  BY FramingAssumption
<1>5. t \in {"static", "created", "empty", "folder"} => t \in Word
  BY DEF Word, Names
\* Whether a response can be generated from q does not depend on the status then.
<1>6. ASSUME NEW st \in {0, 200, 201, 301, 400, 404}, q.status = st, q \in HintsType,
             q.index = 0, ~q.dir, \/ q.path = hs.path /\ q.file = hs.file
                                  \/ q.path \in {"static", "created"}
      PROVE  Prepared(q)
  <2>1. ~(q.status \in 100..199) /\ q.status # 204
    BY <1>6
  <2>2. q.index <= Len(q.file)
    <3>1. q.file \in Text
      BY <1>6, HintsFields
    <3> QED
      BY <1>6, <3>1 DEF Text
  <2>3. q.path = "output" => ~HeadFits(q.file)
    BY <1>2, <1>6
  <2> QED
    BY <1>6, <2>1, <2>2, <2>3 DEF Prepared
<1>7. ASSUME NEW st \in Nat, q = [hs EXCEPT !.status = st]
      PROVE  /\ q \in HintsType /\ q.status = st /\ q.path = hs.path /\ q.file = hs.file
             /\ ~q.dir /\ q.index = 0 /\ q.method = hs.method
  <2>1. ~q.dir
    BY <1>1, <1>7 DEF HintsType
  <2> QED
    BY <1>1, <1>7, <2>1 DEF HintsType
<1>8. ASSUME NEW st \in Nat, NEW p \in Word, q = [hs EXCEPT !.path = p, !.gone = gone, !.status = st]
      PROVE  /\ q \in HintsType /\ q.status = st /\ q.path = p /\ q.file = hs.file
             /\ ~q.dir /\ q.index = 0 /\ q.method = hs.method
  <2>1. ~q.dir
    BY <1>1, <1>8 DEF HintsType
  <2> QED
    BY <1>1, <1>8, <2>1 DEF HintsType
<1>18. ASSUME NEW st \in Nat, NEW p \in Word,
              q = [hs EXCEPT !.path = p, !.gone = gone, !.status = st, !.file = f]
       PROVE  /\ q \in HintsType /\ q.status = st /\ q.path = p
              /\ ~q.dir /\ q.index = 0 /\ q.method = hs.method
  <2>1. q \in HintsType
    BY <1>1, <1>18 DEF HintsType
  <2>2. ~q.dir
    BY <1>1, <1>18 DEF HintsType
  <2>3. q.status = st /\ q.path = p /\ q.index = 0 /\ q.method = hs.method
    BY <1>1, <1>18 DEF HintsType
  <2> QED
    BY <2>1, <2>2, <2>3
<1>9. ASSUME NEW st \in Nat, st \in {0, 200, 201}, NEW p \in Word, p \in {"static", "created"},
             q = [hs EXCEPT !.path = p, !.gone = gone, !.status = st, !.file = f]
      PROVE  Prepared(q) /\ q.method = hs.method
  <2>1. /\ q \in HintsType /\ q.status = st /\ q.path = p
        /\ ~q.dir /\ q.index = 0 /\ q.method = hs.method
    BY <1>9, <1>18
  <2> QED
    BY <1>6, <1>9, <2>1
<1>10. CASE t = "static" /\ upload /\ hs.cgiRedir
  <2>1. q = hs
    BY <1>10 DEF Served
  <2> QED
    BY <1>1, <1>6, <2>1
<1>11. CASE t = "static" /\ ~(upload /\ hs.cgiRedir)
  <2>1. q = [[hs EXCEPT !.path = t, !.gone = gone] EXCEPT !.status = done, !.file = f]
    BY <1>11 DEF Served
  <2>2. q = [hs EXCEPT !.path = t, !.gone = gone, !.status = done, !.file = f]
    BY <2>1
  <2> HIDE DEF done
  <2>3. t \in Word /\ t \in {"static", "created"} /\ done \in {0, 200, 201} /\ done \in Nat
    BY <1>3, <1>5, <1>11
  <2> QED
    BY <1>9, <2>2, <2>3
<1>12. CASE t = "created"
  <2>1. q = [hs EXCEPT !.path = t, !.gone = gone, !.status = 201, !.file = f]
    BY <1>12 DEF Served
  <2> QED
    BY <1>5, <1>9, <1>12, <2>1
<1>13. CASE t = "empty"
  <2>1. q = [hs EXCEPT !.path = t, !.gone = gone, !.status = 204]
    BY <1>13 DEF Served
  <2>2. /\ q \in HintsType /\ q.status = 204 /\ q.path = t /\ q.file = hs.file
        /\ ~q.dir /\ q.index = 0 /\ q.method = hs.method
    <3>1. t \in Word
      BY <1>5, <1>13
    <3> QED
      BY <1>8, <2>1, <3>1
  <2>3. NothingIn(q)
    BY <1>2, <1>13, <2>2 DEF NothingIn
  <2>4. ~(q.status \in 100..199) /\ q.index <= Len(q.file)
    BY <1>2, <2>2
  <2>5. q.path # "output"
    BY <1>13, <2>2
  <2> QED
    BY <2>2, <2>3, <2>4, <2>5 DEF Prepared
<1>14. CASE t = "folder"
  <2> DEFINE y == gone \/ upload
             z == [hs EXCEPT !.path = t, !.gone = gone]
  <2>1. q = [z EXCEPT !.status = 200, !.dir = TRUE, !.gone = z.gone \/ upload]
    BY <1>3, <1>14 DEF Served
  <2>2. z.gone = gone
    BY <1>1 DEF HintsType
  <2>3. q = [hs EXCEPT !.path = t, !.gone = y, !.status = 200, !.dir = TRUE]
    BY <2>1, <2>2
  <2>4. y \in BOOLEAN
    OBVIOUS
  <2> HIDE DEF y
  <2>5. /\ q \in HintsType /\ q.status = 200 /\ q.path = t /\ q.file = hs.file
        /\ q.index = 0 /\ q.method = hs.method
    <3> DEFINE s == 200
               d == TRUE
    <3>1. q = [hs EXCEPT !.path = t, !.gone = y, !.status = s, !.dir = d]
          /\ t \in Word /\ s \in Nat /\ d \in BOOLEAN
      BY <1>5, <1>14, <2>3
    <3> HIDE DEF s, d
    <3>2. q \in HintsType
      BY <1>1, <2>4, <3>1 DEF HintsType
    <3>3. q.status = s /\ q.path = t /\ q.file = hs.file /\ q.index = hs.index
          /\ q.method = hs.method
      BY <1>1, <2>4, <3>1 DEF HintsType
    <3> QED
      BY <1>1, <3>2, <3>3 DEF s
  <2>6. ~(q.status \in 100..199) /\ q.status # 204 /\ ~(q.status \in 401..417)
        /\ q.index <= Len(q.file)
    BY <1>2, <2>5
  <2>7. q.path # "output"
    BY <1>14, <2>5
  <2> QED
    BY <2>5, <2>6, <2>7 DEF Prepared
<1>15. CASE t = "moved"
  <2>1. q = [hs EXCEPT !.status = 301]
    BY <1>15 DEF Served
  <2>2. /\ q \in HintsType /\ q.status = 301 /\ q.path = hs.path /\ q.file = hs.file
        /\ ~q.dir /\ q.index = 0 /\ q.method = hs.method
    BY <1>7, <2>1
  <2> QED
    BY <1>6, <2>2
<1>16. CASE t = "refused"
  <2> DEFINE st == 404
  <2>1. q = [hs EXCEPT !.status = st, !.gone = gone] /\ st \in Nat
    BY <1>16 DEF Served
  <2> HIDE DEF st
  <2>2. /\ q \in HintsType /\ q.status = st /\ q.path = hs.path /\ q.file = hs.file
        /\ q.index = 0 /\ q.method = hs.method
    BY <1>1, <2>1 DEF HintsType
  <2>3. ~q.dir
    BY <1>1, <2>1 DEF HintsType
  <2> QED
    BY <1>6, <2>2, <2>3 DEF st
<1>17. CASE t = "bad"
  <2>1. q = [hs EXCEPT !.status = 400]
    BY <1>17 DEF Served
  <2>2. /\ q \in HintsType /\ q.status = 400 /\ q.path = hs.path /\ q.file = hs.file
        /\ ~q.dir /\ q.index = 0 /\ q.method = hs.method
    BY <1>7, <2>1
  <2> QED
    BY <1>6, <2>2
<1> QED
  BY <1>4, <1>10, <1>11, <1>12, <1>13, <1>14, <1>15, <1>16, <1>17

\* The hints handleCGIProcess goes on with.
Parsed(hs, o) == ParseHeaders([hs EXCEPT !.file = o], o)
Failed(h) == [h EXCEPT !.status = 503]
Redirected(h) == [h EXCEPT !.file = <<>>, !.gone = TRUE, !.cgiRedir = TRUE]

\* What a script's output leads to.
LEMMA ScriptParsed ==
    ASSUME NEW hs, Fresh(hs), hs.path = "output", NEW o \in Text, NEW r, r = Parsed(hs, o)
    PROVE  /\ r.h \in HintsType
           /\ r.res \in {"doc", "redirect"} => Prepared(r.h) /\ r.h.method = hs.method
           /\ r.res = "error" => Prepared(Failed(r.h)) /\ Failed(r.h).method = hs.method
           /\ r.res = "local" => Fresh(Redirected(r.h)) /\ Redirected(r.h).method = hs.method
<1> DEFINE out == "output"
           h1 == [hs EXCEPT !.file = o]
           s == ReadLines(o)
           keys == Keys(s.lines)
           c == Cookies(s.lines)
           i == s.index
           n == h1.cookies + c
           d == [h1 EXCEPT !.cookies = n]
           g == [d EXCEPT !.index = i]
           nil == <<>>
<1>1. /\ hs \in HintsType /\ hs.status = 0 /\ ~hs.dir /\ hs.index = 0 /\ hs.path = out
      /\ hs.cookies \in Nat
  BY HintsFields DEF Fresh
<1>2. /\ i \in Nat /\ i <= Len(o) /\ c \in Nat
      /\ keys \subseteq Fields /\ HeadFits(o) => Blanks(o) # {} /\ Min(Blanks(o)) = i
  <2>1. i \in 0..Len(o) /\ c \in Nat
    BY ScriptHead
  <2>2. Len(o) \in Nat
    BY DEF Text
  <2>3. keys \subseteq Fields /\ HeadFits(o) => Blanks(o) # {} /\ Min(Blanks(o)) = i
    BY ScriptHead
  <2> HIDE DEF i, c, keys
  <2> QED
    BY <2>1, <2>2, <2>3
<1>3. out \in Word /\ nil \in Text
  BY DEF Word, Names, Text
<1>4. r = IF ~(keys \subseteq Fields)
          THEN [res |-> "none", h |-> [d EXCEPT !.status = 500]]
          ELSE InspectHeaders(g, keys)
  BY DEF Parsed, ParseHeaders
<1>14. out = "output"
  OBVIOUS
<1> HIDE DEF out, i, c, keys, s
<1>5. /\ h1 \in HintsType /\ h1.status = 0 /\ h1.path = out /\ h1.file = o /\ h1.index = 0
      /\ h1.method = hs.method /\ h1.cookies = hs.cookies
  BY <1>1, <1>3 DEF HintsType
<1>6. ~h1.dir
  BY <1>1, <1>3 DEF HintsType
<1>7. n \in Nat
  BY <1>1, <1>2, <1>5
<1> HIDE DEF h1, n
<1>8. /\ d \in HintsType /\ d.status = 0 /\ d.path = out /\ d.file = o /\ d.index = 0
      /\ d.method = hs.method
  BY <1>5, <1>7 DEF HintsType
<1>9. ~d.dir
  BY <1>5, <1>6, <1>7 DEF HintsType
<1> HIDE DEF d
<1>10. /\ g \in HintsType /\ g.status = 0 /\ g.path = out /\ g.file = o /\ g.index = i
       /\ g.method = hs.method
  BY <1>2, <1>8 DEF HintsType
<1>11. ~g.dir
  BY <1>2, <1>8, <1>9 DEF HintsType
<1> HIDE DEF g
<1>12. CASE ~(keys \subseteq Fields)
  <2> DEFINE e == [d EXCEPT !.status = 500]
  <2>1. r = [res |-> "none", h |-> e]
    BY <1>4, <1>12
  <2>2. e \in HintsType
    BY <1>8 DEF HintsType
  <2> HIDE DEF e
  <2>3. r.res = "none" /\ r.h = e
    BY <2>1
  <2> QED
    BY <2>2, <2>3
<1>13. CASE keys \subseteq Fields
  <2>1. r = InspectHeaders(g, keys)
    BY <1>4, <1>13
  <2>2. ASSUME NEW e, e \in HintsType, e.path = out, e.file = o, e.index = i, ~e.dir,
               e.status \in {200, 302, 500}
        PROVE  Prepared(e)
    <3>1. ~(e.status \in 100..199) /\ e.status # 204 /\ ~(e.status \in 401..417)
      BY <2>2
    <3>2. e.index <= Len(e.file) /\ e.path = "output"
      BY <1>2, <1>14, <2>2
    <3>3. HeadFits(e.file) => Blanks(e.file) # {} /\ Min(Blanks(e.file)) = e.index
      BY <1>2, <1>13, <2>2
    <3> QED
      BY <2>2, <3>1, <3>2, <3>3 DEF Prepared
  <2>3. CASE r = [res |-> "error", h |-> g]
    <3> DEFINE e == [g EXCEPT !.status = 503]
    <3>1. r.res = "error" /\ r.h = g
      BY <2>3
    <3>2. /\ e \in HintsType /\ e.status = 503 /\ e.path = out /\ e.file = o /\ e.index = i
          /\ e.method = hs.method
      BY <1>10 DEF HintsType
    <3>3. ~e.dir
      BY <1>10, <1>11 DEF HintsType
    <3> HIDE DEF e
    <3>4. Prepared(e)
      BY <1>2, <1>13, <1>14, <3>2, <3>3 DEF Prepared
    <3>5. e.method = hs.method
      BY <3>2
    <3> QED
      BY <1>10, <3>1, <3>4, <3>5 DEF e, Failed
  <2>4. CASE r = [res |-> "redirect", h |-> [g EXCEPT !.status = 302, !.location = TRUE]]
    <3> DEFINE st == 302
               yes == TRUE
               e == [g EXCEPT !.status = st, !.location = yes]
    <3>1. r.res = "redirect" /\ r.h = e
      BY <2>4
    <3>2. st \in Nat /\ yes \in BOOLEAN /\ st \in {200, 302}
      OBVIOUS
    <3> HIDE DEF st, yes
    <3>3. /\ e \in HintsType /\ e.status = st /\ e.path = out /\ e.file = o /\ e.index = i
          /\ e.method = hs.method
      <4>4. g \in HintsType
        BY <1>10
      <4>1. e \in HintsType
        BY <3>2, <4>4 DEF HintsType
      <4>2. e.status = st /\ e.path = out /\ e.file = o
        BY <1>10, <3>2 DEF HintsType
      <4>3. e.index = i /\ e.method = hs.method
        BY <1>10, <3>2 DEF HintsType
      <4> QED
        BY <4>1, <4>2, <4>3
    <3>4. ~e.dir
      BY <1>10, <1>11, <3>2 DEF HintsType
    <3> HIDE DEF e
    <3>5. Prepared(e)
      BY <2>2, <3>2, <3>3, <3>4
    <3> QED
      BY <3>1, <3>3, <3>5
  <2>5. CASE r = [res |-> "local", h |-> [g EXCEPT !.index = 0]]
    <3> DEFINE e == [g EXCEPT !.index = 0]
               yes == TRUE
               l == [e EXCEPT !.file = nil, !.gone = yes, !.cgiRedir = yes]
    <3>1. r.res = "local" /\ r.h = e
      BY <2>5
    <3>2. e \in HintsType /\ e.status = 0 /\ e.index = 0 /\ e.method = hs.method
      BY <1>10 DEF HintsType
    <3>3. ~e.dir
      BY <1>10, <1>11 DEF HintsType
    <3>4. yes \in BOOLEAN /\ nil = <<>>
      BY <1>3
    <3>5. l = Redirected(r.h)
      BY <3>1 DEF Redirected
    <3> HIDE DEF e, yes, nil
    <3>6. /\ l \in HintsType /\ l.status = 0 /\ l.file = nil /\ l.index = 0
          /\ l.method = hs.method
      BY <1>3, <3>2, <3>4 DEF HintsType
    <3>7. ~l.dir
      BY <1>3, <3>2, <3>3, <3>4 DEF HintsType
    <3> HIDE DEF l
    <3>8. Fresh(l)
      BY <3>4, <3>6, <3>7 DEF Fresh
    <3>9. r.h \in HintsType
      BY <3>1, <3>2
    <3>10. Fresh(l) /\ l.method = hs.method
      BY <3>6, <3>8
    <3> QED
      BY <3>1, <3>5, <3>9, <3>10
  <2>6. CASE \E st \in {200, 500} : r = [res |-> "doc", h |-> [g EXCEPT !.status = st]]
    <3>1. PICK st \in {200, 500} : r = [res |-> "doc", h |-> [g EXCEPT !.status = st]]
      BY <2>6
    <3> DEFINE e == [g EXCEPT !.status = st]
    <3>2. r.res = "doc" /\ r.h = e
      BY <3>1
    <3>3. /\ e \in HintsType /\ e.status = st /\ e.path = out /\ e.file = o /\ e.index = i
          /\ e.method = hs.method
      BY <1>10 DEF HintsType
    <3>4. ~e.dir
      BY <1>10, <1>11 DEF HintsType
    <3> HIDE DEF e
    <3>5. Prepared(e)
      BY <2>2, <3>3, <3>4
    <3> QED
      BY <3>2, <3>3, <3>5
  <2> QED
    BY <2>1, <2>3, <2>4, <2>5, <2>6 DEF InspectHeaders
<1> QED
  BY <1>12, <1>13

-----------------------------------------------------------------------------
(***************************************************************************)
(* The connection.                                                         *)
(***************************************************************************)
MeantType == [status : Nat, body : Text, fits : BOOLEAN]

\* The peer has taken apart the responses that were meant, and waits for the
\* next one.
InStep(d, ms) ==
    /\ d.at = "start"
    /\ Len(d.messages) = Len(ms)
    /\ \A i \in 1..Len(ms) :
          /\ d.messages[i].status = ms[i].status
          /\ ms[i].fits => d.messages[i].body = ms[i].body

\* So does each peer that has asked what was asked, and may ask more.
Told(total, reqs, ms) ==
    \A methods :
        (\A i \in 1..Len(reqs) : methods[i] = reqs[i]) => InStep(Decode(total, methods), ms)

\* A response more.
LEMMA ToldMore ==
    ASSUME NEW total \in Stream, NEW reqs \in Seq(Word), NEW ms \in Seq(MeantType),
           Len(reqs) = Len(ms) + 1, Told(total, reqs, ms),
           NEW h, Prepared(h), h.method = reqs[Len(reqs)],
           NEW e \in MeantType, e.status = h.status, e.body = MeantBody(h),
           e.fits <=> (h.path # "output" \/ HeadFits(h.file))
    PROVE  /\ FormatHeaders(h) \in Stream /\ Spoken(h) \in Stream
           /\ Told(total \o Spoken(h), reqs, Append(ms, e))
<1> DEFINE n == Len(ms)
           b == IF h.method = "HEAD" THEN <<>> ELSE Content(h).body
           ns == Append(ms, e)
<1>1. Regular(h) /\ (e.fits => b = e.body)
  BY PreparedRegular
<1>2. n \in Nat /\ Len(reqs) \in 1..Len(reqs) /\ Len(ns) = n + 1 /\ ns[n + 1] = e
      /\ \A i \in 1..n : ns[i] = ms[i]
  OBVIOUS
<1>3. FormatHeaders(h) \in Stream /\ Spoken(h) \in Stream
  <2> DEFINE methods == [i \in {1} |-> h.method]
  <2>1. NewPeer \in PeerType /\ NewPeer.at = "start" /\ NewPeer.messages = <<>>
    BY NewPeerType DEF NewPeer
  <2>2. methods[Len(NewPeer.messages) + 1] = h.method
    BY <2>1
  <2>3. FormatHeaders(h) \in Stream
    BY <1>1, <2>1, HeadersRead
  <2> HIDE DEF methods
  <2>4. Spoken(h) \in Stream
    BY <1>1, <2>1, <2>2, ResponseRead
  <2> QED
    BY <2>3, <2>4
<1> HIDE DEF ns
<1>4. ASSUME NEW methods, \A i \in 1..Len(reqs) : methods[i] = reqs[i]
      PROVE  InStep(Decode(total \o Spoken(h), methods), ns)
  <2> DEFINE r == Decode(total, methods)
  <2>1. InStep(r, ms)
    BY <1>4 DEF Told
  <2>2. r \in PeerType
    BY DecodeReads
  <2> HIDE DEF r, b
  <2>3. r.at = "start" /\ Len(r.messages) = n
    BY <2>1 DEF InStep
  <2>4. methods[Len(r.messages) + 1] = h.method
    BY <1>2, <1>4, <2>3
  <2>5. PICK q : Reads(r, Spoken(h), q, methods) /\ Answered(r, q, h.status, b)
    BY <1>1, <2>2, <2>3, <2>4, ResponseRead DEF b
  <2>6. Decode(total \o Spoken(h), methods) = q
    BY <1>3, <2>5, DecodeOn DEF r
  <2>7. PICK d \in MessageType :
           q.messages = Append(r.messages, d) /\ d.status = h.status /\ d.body = b
    BY <2>5 DEF Answered
  <2>8. r.messages \in Seq(MessageType)
    BY <2>2, PeerFields
  <2> DEFINE x == r.messages
             y == q.messages
  <2>9. Len(y) = n + 1 /\ y[n + 1] = d /\ \A i \in 1..n : y[i] = x[i]
    <3>1. y = Append(x, d) /\ x \in Seq(MessageType) /\ Len(x) = n
      BY <2>3, <2>7, <2>8
    <3> HIDE DEF x, y
    <3> QED
      BY <3>1
  <2>10. q.at = "start"
    BY <2>5 DEF Answered
  <2>11. ASSUME NEW i \in 1..Len(ns)
         PROVE  y[i].status = ns[i].status /\ (ns[i].fits => y[i].body = ns[i].body)
    <3>1. CASE i \in 1..n
      <4>1. y[i] = x[i] /\ ns[i] = ms[i]
        BY <1>2, <2>9, <3>1
      <4>2. x[i].status = ms[i].status /\ (ms[i].fits => x[i].body = ms[i].body)
        BY <2>1, <3>1 DEF InStep
      <4> QED
        BY <4>1, <4>2
    <3>2. CASE i = n + 1
      <4>1. y[i] = d /\ ns[i] = e
        BY <1>2, <2>9, <3>2
      <4> QED
        BY <1>1, <2>7, <4>1
    <3> QED
      BY <1>2, <3>1, <3>2
  <2>12. Len(y) = Len(ns)
    BY <1>2, <2>9
  <2>13. InStep(q, ns)
    BY <2>10, <2>11, <2>12 DEF InStep
  <2> QED
    BY <2>6, <2>13
<1> QED
  BY <1>3, <1>4 DEF Told, ns

\* A request more.
LEMMA ToldAsked ==
    ASSUME NEW total, NEW reqs \in Seq(Word), NEW ms, Told(total, reqs, ms), NEW m \in Word
    PROVE  Told(total, Append(reqs, m), ms)
<1> DEFINE bs == Append(reqs, m)
           n == Len(reqs)
<1>1. n \in Nat /\ Len(bs) = n + 1
  <2>1. n \in Nat
    BY LenProperties
  <2>2. Len(bs) = n + 1
    BY AppendProperties
  <2> QED
    BY <2>1, <2>2
<1>4. \A i \in 1..n : bs[i] = reqs[i]
  BY AppendProperties
<1> HIDE DEF bs, n
<1>2. \A i \in 1..n : i \in 1..(n + 1)
  BY <1>1
<1>3. Told(total, bs, ms)
  BY <1>1, <1>2, <1>4 DEF Told, n
<1> QED
  BY <1>3 DEF bs

Waiting == {"targeted", "running"}
Asking == {"targeted", "running", "stuck"}
Stages == {"idle", "targeted", "running", "answered", "closed", "stuck"}

\* Behind the queued buffers the peer is in step, and only a final response is
\* ever queued; a request not yet answered has no hints that a response made of
\* another file could inherit, but for the path of an output that is gone.
FramingInv ==
    /\ stage \in Stages /\ hints \in HintsType /\ script \in Text
    /\ outBuffers \in Seq(Stream) /\ got \in Stream
    /\ asked \in Seq(Word) /\ meant \in Seq(MeantType)
    /\ stage \in Waiting =>
          Fresh(hints) /\ hints.method = asked[Len(asked)] /\ hints.method # "DELETE"
    /\ stage = "running" => hints.path = "output"
    /\ Len(asked) = IF stage \in Asking THEN Len(meant) + 1 ELSE Len(meant)
    /\ outBuffers # <<>> => stage = "answered"
    /\ \E total \in Stream : Along(outBuffers, got, total) /\ Told(total, asked, meant)

\* The peer is in step with what it has received.
LEMMA InStepNow ==
    ASSUME FramingInv
    PROVE  PeerInStep /\ BodiesIntact
<1> DEFINE d == Decode(got, asked)
<1>1. PICK total \in Stream : Along(outBuffers, got, total) /\ Told(total, asked, meant)
  BY DEF FramingInv
<1>2. /\ got \in Stream /\ outBuffers \in Seq(Stream) /\ asked \in Seq(Word)
      /\ meant \in Seq(MeantType)
  BY DEF FramingInv
<1>3. PICK t \in Stream : total = got \o t
  <2>1. Along(outBuffers, got, total)
    BY <1>1
  <2>2. got \in Stream /\ outBuffers \in Seq(Stream)
    BY <1>2
  <2>3. \E t \in Stream : total = got \o t
    BY <2>1, <2>2, AlongRest
  <2> QED
    BY <2>3
<1>4. d \in PeerType
  BY <1>2, DecodeReads
<1>5. PICK q \in PeerType : Reads(d, t, q, asked)
  BY <1>4, ReadsSome
<1>6. Follows(d, q)
  BY <1>4, <1>5, ReadsFollows
<1>7. Decode(total, asked) = q
  BY <1>2, <1>3, <1>5, DecodeOn
<1>8. InStep(q, meant)
  BY <1>1, <1>7 DEF Told
<1> HIDE DEF d
<1>9. d.messages \in Seq(MessageType) /\ Len(d.messages) \in Nat /\ Len(meant) \in Nat
  BY <1>2, <1>4, PeerFields
<1>10. /\ Len(d.messages) <= Len(meant)
       /\ \A i \in 1..Len(d.messages) : i \in 1..Len(meant) /\ d.messages[i] = q.messages[i]
  <2>1. Len(d.messages) <= Len(q.messages) /\ \A i \in 1..Len(d.messages) : q.messages[i] = d.messages[i]
    BY <1>6 DEF Follows, Grows
  <2>2. Len(q.messages) = Len(meant)
    BY <1>8 DEF InStep
  <2>3. Len(d.messages) <= Len(meant)
    BY <2>1, <2>2
  <2>4. \A i \in 1..Len(d.messages) : i \in 1..Len(meant)
    BY <1>9, <2>3
  <2> QED
    BY <2>1, <2>3, <2>4
<1>11. \A i \in 1..Len(d.messages) :
          /\ d.messages[i].status = meant[i].status
          /\ meant[i].fits => d.messages[i].body = meant[i].body
  BY <1>8, <1>10 DEF InStep
<1>12. d.at # "lost"
  BY <1>6, <1>8 DEF Follows, InStep
<1>13. DOMAIN d.messages = 1..Len(d.messages)
  BY <1>9
<1>14. outBuffers = <<>> => d.at = "start" /\ Len(d.messages) = Len(meant)
  <2> SUFFICES ASSUME outBuffers = <<>> PROVE d.at = "start" /\ Len(d.messages) = Len(meant)
    OBVIOUS
  <2>1. total = got
    BY <1>1, <1>2, AlongNone
  <2>2. d = q
    BY <1>7, <2>1 DEF d
  <2> QED
    BY <1>8, <2>2 DEF InStep
<1>15. PeerInStep
  BY <1>10, <1>11, <1>12, <1>13, <1>14 DEF PeerInStep, d
<1>16. BodiesIntact
  BY <1>11, <1>13 DEF BodiesIntact, d
<1> QED
  BY <1>15, <1>16

\* Nothing has been asked, sent or meant.
LEMMA InitInv == Init => FramingInv
<1> SUFFICES ASSUME Init PROVE FramingInv
  OBVIOUS
<1> DEFINE nil == <<>>
<1>1. stage = "idle" /\ hints = NoHints /\ script = nil /\ outBuffers = nil /\ got = nil
      /\ asked = nil /\ meant = nil
  BY DEF Init
<1>2. nil \in Text /\ nil \in Seq(Stream) /\ nil \in Stream /\ nil \in Seq(Word)
      /\ nil \in Seq(MeantType) /\ Len(nil) = 0
  BY DEF Text, Stream
<1>3. hints \in HintsType
  <2>1. "none" \in Word /\ "GET" \in Word
    BY DEF Word, Names
  <2>2. hints = [status |-> 0, path |-> "none", file |-> nil, gone |-> FALSE, index |-> 0,
                 location |-> FALSE, cookies |-> 0, dir |-> FALSE, cgiRedir |-> FALSE,
                 method |-> "GET"]
    BY <1>1 DEF NoHints
  <2> HIDE DEF nil
  <2> QED
    BY <1>2, <2>1, <2>2 DEF HintsType
<1>4. Along(nil, nil, nil)
  BY <1>2, AlongNone
<1>5. Told(nil, nil, nil)
  <2> SUFFICES ASSUME NEW methods PROVE InStep(Decode(nil, methods), nil)
    BY DEF Told
  <2>1. Reads(NewPeer, nil, Decode(nil, methods), methods)
    BY <1>2, DecodeReads
  <2>2. Decode(nil, methods) = NewPeer
    BY <1>2, <2>1 DEF Reads
  <2>3. NewPeer.at = "start" /\ NewPeer.messages = nil
    BY DEF NewPeer
  <2> HIDE DEF nil
  <2>4. \A i \in 1..0 : FALSE
    OBVIOUS
  <2> QED
    BY <1>2, <2>2, <2>3, <2>4 DEF InStep
<1>6. "idle" \in Stages /\ "idle" \notin Waiting /\ "idle" \notin Asking
  BY DEF Stages, Waiting, Asking
<1>7. outBuffers = <<>>
  BY <1>1
<1> HIDE DEF nil
<1> QED
  BY <1>1, <1>2, <1>3, <1>4, <1>5, <1>6, <1>7 DEF FramingInv

\* A response is made.
LEMMA AnswerInv ==
    ASSUME FramingInv, stage \in Waiting, NEW h0, Prepared(h0), h0.method = hints.method,
           Answer(h0), asked' = asked, got' = got, script' \in Text
    PROVE  FramingInv'
<1> DEFINE h == GenerateResponse(h0)
           w == WriteResponse(h)
           e == [status |-> h.status, body |-> MeantBody(h),
                 fits |-> h.path # "output" \/ HeadFits(h.file)]
<1>1. Prepared(h) /\ h.method = hints.method
  BY GenerateKeeps
<1>2. stage' = "answered" /\ hints' = h /\ outBuffers' = outBuffers \o w /\ meant' = Append(meant, e)
  BY DEF Answer
<1>3. /\ outBuffers \in Seq(Stream) /\ got \in Stream /\ asked \in Seq(Word)
      /\ meant \in Seq(MeantType) /\ hints.method = asked[Len(asked)]
  BY DEF FramingInv
<1>4. Len(asked) = Len(meant) + 1
  BY DEF FramingInv, Waiting, Asking
<1>5. PICK total \in Stream : Along(outBuffers, got, total) /\ Told(total, asked, meant)
  BY DEF FramingInv
<1>6. e \in MeantType /\ e.status = h.status /\ e.body = MeantBody(h)
      /\ (e.fits <=> (h.path # "output" \/ HeadFits(h.file)))
  <2> DEFINE st == h.status
             b == MeantBody(h)
             f == (h.path # "output" \/ HeadFits(h.file))
  <2>1. st \in Nat /\ b \in Text /\ f \in BOOLEAN
    BY <1>1, PreparedRegular, HintsFields DEF Prepared
  <2> HIDE DEF st, b, f
  <2>2. e = [status |-> st, body |-> b, fits |-> f]
    BY DEF st, b, f
  <2> HIDE DEF e
  <2>3. e \in MeantType /\ e.status = st /\ e.body = b /\ e.fits = f
    BY <2>1, <2>2 DEF MeantType
  <2> QED
    BY <2>3 DEF st, b, f
<1> HIDE DEF h, w, e
<1> DEFINE more == total \o Spoken(h)
<1>7. FormatHeaders(h) \in Stream /\ Spoken(h) \in Stream /\ Told(more, asked, Append(meant, e))
  BY <1>1, <1>3, <1>4, <1>5, <1>6, ToldMore
<1>8. more \in Stream
  BY <1>7 DEF Stream
<1>9. Regular(h)
  BY <1>1, PreparedRegular
<1>10. w \in Seq(Stream) /\ Along(w, total, more)
  BY <1>7, <1>9, ResponseBuffers DEF w
<1>11. Along(outBuffers \o w, got, more)
  BY <1>3, <1>5, <1>10, AlongOn
<1>12. outBuffers \o w \in Seq(Stream) /\ Append(meant, e) \in Seq(MeantType)
       /\ Len(Append(meant, e)) = Len(meant) + 1
  BY <1>3, <1>6, <1>10
<1>13. h \in HintsType
  BY <1>1 DEF Prepared
<1>14. "answered" \in Stages /\ "answered" \notin Waiting /\ "answered" \notin Asking
  BY DEF Stages, Waiting, Asking
<1> HIDE DEF more
<1>15. Along(outBuffers', got', more) /\ Told(more, asked', meant')
  BY <1>2, <1>7, <1>11
<1>16. /\ stage' \in Stages /\ hints' \in HintsType /\ script' \in Text
       /\ outBuffers' \in Seq(Stream) /\ got' \in Stream
       /\ asked' \in Seq(Word) /\ meant' \in Seq(MeantType)
  BY <1>2, <1>3, <1>12, <1>13, <1>14
<1>17. Len(asked') = Len(meant')
  BY <1>2, <1>4, <1>12
<1> QED
  BY <1>2, <1>8, <1>14, <1>15, <1>16, <1>17 DEF FramingInv

\* A request is taken: nothing is queued then, and the peers that asked this
\* too are among those that asked the rest.
LEMMA AskInv ==
    ASSUME Conforming, FramingInv, Ask
    PROVE  FramingInv'
<1>1. PICK m \in Methods : hints' = [NoHints EXCEPT !.method = m] /\ asked' = Append(asked, m)
  BY DEF Ask
<1>2. stage' = "targeted" /\ outBuffers' = <<>>
  <2>1. PICK x \in Expects : stage' = (IF x THEN "expecting" ELSE "targeted")
                             /\ outBuffers' = (IF x THEN <<<<StatusLine(100)>>>> ELSE <<>>)
    BY DEF Ask
  <2>2. x = FALSE
    BY DEF Conforming
  <2> QED
    BY <2>1, <2>2
<1>3. stage = "idle" /\ script' = script /\ got' = got /\ meant' = meant
  BY DEF Ask
<1>4. m \in Word /\ m # "DELETE"
  BY FramingAssumption DEF Conforming, Word
<1>5. outBuffers = <<>>
  BY <1>3 DEF FramingInv
<1>6. /\ got \in Stream /\ asked \in Seq(Word) /\ script \in Text
      /\ meant \in Seq(MeantType)
  BY DEF FramingInv
<1>7. Len(asked) = Len(meant)
  BY <1>3 DEF FramingInv, Asking
<1>8. PICK total \in Stream : Along(outBuffers, got, total) /\ Told(total, asked, meant)
  BY DEF FramingInv
<1>9. Told(total, asked', meant')
  BY <1>1, <1>3, <1>4, <1>6, <1>8, ToldAsked
<1>10. /\ asked' \in Seq(Word) /\ Len(asked') = Len(meant) + 1 /\ asked'[Len(asked')] = m
  <2> DEFINE n == Len(asked)
  <2>1. asked' \in Seq(Word) /\ Len(asked') = n + 1 /\ asked'[n + 1] = m
    BY <1>1, <1>4, <1>6, AppendProperties
  <2> QED
    BY <1>7, <2>1
<1>11. Fresh(hints') /\ hints'.method = m
  <2> DEFINE nil == <<>>
  <2>1. hints' = [status |-> 0, path |-> "none", file |-> nil, gone |-> FALSE, index |-> 0,
                  location |-> FALSE, cookies |-> 0, dir |-> FALSE, cgiRedir |-> FALSE,
                  method |-> m]
    BY <1>1 DEF NoHints
  <2>2. nil \in Text /\ nil = <<>> /\ "none" \in Word
    BY DEF Text, Word, Names
  <2> HIDE DEF nil
  <2>3. hints' \in HintsType
    BY <1>4, <2>1, <2>2 DEF HintsType
  <2>4. /\ hints'.status = 0 /\ hints'.path = "none" /\ hints'.file = nil /\ hints'.index = 0
        /\ hints'.method = m
    BY <2>1
  <2>5. ~hints'.gone /\ ~hints'.dir
    BY <2>1
  <2> QED
    BY <2>2, <2>3, <2>4, <2>5 DEF Fresh
<1>12. hints' \in HintsType
  BY <1>11 DEF Fresh
<1>13. "targeted" \in Stages /\ "targeted" \in Waiting /\ "targeted" \in Asking
  BY DEF Stages, Waiting, Asking
<1>14. outBuffers' \in Seq(Stream)
  BY <1>2
<1>15. Along(outBuffers', got', total)
  BY <1>2, <1>3, <1>5, <1>8
<1> QED
  BY <1>2, <1>3, <1>4, <1>6, <1>9, <1>10, <1>11, <1>12, <1>13, <1>14, <1>15 DEF FramingInv

\* Files and outputs are texts.
LEMMA StringsAreWords == \A s \in Seq(STRING) : s \in Text
<1> SUFFICES ASSUME NEW s \in Seq(STRING) PROVE s \in Seq(Word)
  BY DEF Text
<1>1. Len(s) \in Nat /\ s = [i \in 1..Len(s) |-> s[i]] /\ \A i \in 1..Len(s) : s[i] \in Word
  BY LenProperties, ElementOfSeq DEF Word
<1> QED
  BY <1>1

\* A target is found, and answered.
LEMMA ServeInv ==
    ASSUME Conforming, FramingInv, NEW t \in Targets, Serve(t)
    PROVE  FramingInv'
<1>1. stage \in Waiting
  BY DEF Serve, Waiting
<1>2. Fresh(hints) /\ hints.method # "DELETE"
  BY <1>1 DEF FramingInv
<1>3. PICK f \in Files, gone \in BOOLEAN : Answer(Served(hints, t, f, gone))
  BY DEF Serve
<1>4. f \in Text
  BY FramingAssumption, StringsAreWords
<1>5. ~(t = "folder" /\ hints.cgiRedir) /\ t # "denied"
  BY DEF Serve, Conforming
<1> DEFINE h == Served(hints, t, f, gone)
<1>6. Prepared(h) /\ h.method = hints.method
  BY <1>2, <1>4, <1>5, ServedPrepared
<1> HIDE DEF h
<1>7. asked' = asked /\ got' = got /\ script' = script /\ script \in Text
  BY DEF Serve, FramingInv
<1> QED
  BY <1>1, <1>3, <1>6, <1>7, AnswerInv DEF h

\* A script starts.
LEMMA LaunchInv ==
    ASSUME FramingInv, Launch
    PROVE  FramingInv'
<1>1. /\ stage = "targeted" /\ stage' = "running"
      /\ hints' = [hints EXCEPT !.path = "output", !.gone = FALSE]
      /\ outBuffers' = outBuffers /\ got' = got /\ asked' = asked /\ meant' = meant
  BY DEF Launch
<1>2. script' \in Text
  BY FramingAssumption, StringsAreWords DEF Launch
<1>3. /\ "running" \in Stages /\ "targeted" \in Waiting /\ "targeted" \in Asking
      /\ "running" \in Waiting /\ "running" \in Asking
  BY DEF Stages, Waiting, Asking
<1>4. outBuffers = <<>>
  BY <1>1 DEF FramingInv
<1>5. \E total \in Stream : Along(outBuffers', got', total) /\ Told(total, asked', meant')
  BY <1>1 DEF FramingInv
<1>6. /\ Fresh(hints') /\ hints'.method = asked'[Len(asked')] /\ hints'.method # "DELETE"
      /\ hints' \in HintsType /\ hints'.path = "output"
  <2> DEFINE p == "output"
             no == FALSE
             h == [hints EXCEPT !.path = p, !.gone = no]
  <2>1. p \in Word /\ no \in BOOLEAN
    BY DEF Word, Names
  <2>2. Fresh(hints) /\ hints.method = asked[Len(asked)] /\ hints.method # "DELETE"
    BY <1>1, <1>3 DEF FramingInv
  <2>3. hints' = h
    BY <1>1
  <2> HIDE DEF p, no
  <2>4. /\ h \in HintsType /\ h.status = hints.status /\ h.file = hints.file
        /\ h.index = hints.index /\ h.method = hints.method /\ h.path = p
    BY <2>1, <2>2 DEF HintsType, Fresh
  <2>5. h.dir = hints.dir
    BY <2>1, <2>2 DEF HintsType, Fresh
  <2> HIDE DEF h
  <2>6. Fresh(h)
    BY <2>2, <2>4, <2>5 DEF Fresh
  <2> QED
    BY <1>1, <2>2, <2>3, <2>4, <2>6 DEF p
<1>7. Len(asked') = Len(meant') + 1
  BY <1>1, <1>3 DEF FramingInv
<1>8. /\ outBuffers' \in Seq(Stream) /\ got' \in Stream
      /\ asked' \in Seq(Word) /\ meant' \in Seq(MeantType)
  BY <1>1 DEF FramingInv
<1> QED
  BY <1>1, <1>2, <1>3, <1>4, <1>5, <1>6, <1>7, <1>8 DEF FramingInv

\* A script ends: it is answered, it redirects, or the request is stuck.
LEMMA ScriptEndsInv ==
    ASSUME FramingInv, ScriptEnds
    PROVE  FramingInv'
<1> DEFINE r == Parsed(hints, script)
<1>1. stage = "running" /\ stage \in Waiting
  BY DEF ScriptEnds, Waiting
<1>2. Fresh(hints) /\ hints.path = "output" /\ script \in Text
  BY <1>1 DEF FramingInv
<1>3. /\ r.h \in HintsType
      /\ r.res \in {"doc", "redirect"} => Prepared(r.h) /\ r.h.method = hints.method
      /\ r.res = "error" => Prepared(Failed(r.h)) /\ Failed(r.h).method = hints.method
      /\ r.res = "local" => Fresh(Redirected(r.h)) /\ Redirected(r.h).method = hints.method
  BY <1>2, ScriptParsed
<1>4. script' \in Text /\ asked' = asked /\ got' = got
  BY DEF ScriptEnds, Text
<1>5. \/ r.res \in {"doc", "redirect"} /\ Answer(r.h)
      \/ r.res = "error" /\ Answer(Failed(r.h))
      \/ /\ r.res = "local"
         /\ stage' = "targeted"
         /\ hints' = Redirected(r.h)
         /\ UNCHANGED <<outBuffers, meant>>
      \/ /\ r.res = "none"
         /\ stage' = "stuck"
         /\ hints' = r.h
         /\ UNCHANGED <<outBuffers, meant>>
  BY DEF ScriptEnds, Parsed, Failed, Redirected
<1> HIDE DEF r
<1>6. CASE r.res \in {"doc", "redirect"} /\ Answer(r.h)
  BY <1>1, <1>3, <1>4, <1>6, AnswerInv
<1>7. CASE r.res = "error" /\ Answer(Failed(r.h))
  <2> DEFINE h == Failed(r.h)
  <2>1. Prepared(h) /\ h.method = hints.method /\ Answer(h)
    BY <1>3, <1>7
  <2> HIDE DEF h
  <2> QED
    BY <1>1, <1>4, <2>1, AnswerInv
<1>8. ASSUME stage' \in {"targeted", "stuck"}, outBuffers' = outBuffers, meant' = meant,
             hints' \in HintsType,
             stage' = "targeted" => Fresh(hints') /\ hints'.method = hints.method
      PROVE  FramingInv'
  <2>1. stage' \in Stages /\ stage' \in Asking /\ (stage' \in Waiting => stage' = "targeted")
        /\ "running" \in Asking
    BY <1>8 DEF Stages, Waiting, Asking
  <2>2. outBuffers' = <<>>
    BY <1>1, <1>8 DEF FramingInv
  <2>3. \E total \in Stream : Along(outBuffers', got', total) /\ Told(total, asked', meant')
    BY <1>4, <1>8 DEF FramingInv
  <2>4. stage' \in Waiting => Fresh(hints') /\ hints'.method = asked'[Len(asked')]
                              /\ hints'.method # "DELETE"
    BY <1>1, <1>4, <1>8, <2>1 DEF FramingInv
  <2>5. Len(asked') = Len(meant') + 1
    BY <1>1, <1>4, <1>8, <2>1 DEF FramingInv
  <2>6. /\ outBuffers' \in Seq(Stream) /\ got' \in Stream
        /\ asked' \in Seq(Word) /\ meant' \in Seq(MeantType)
    BY <1>4, <1>8 DEF FramingInv
  <2> QED
    BY <1>4, <1>8, <2>1, <2>2, <2>3, <2>4, <2>5, <2>6 DEF FramingInv
<1>9. CASE /\ r.res = "local"
           /\ stage' = "targeted"
           /\ hints' = Redirected(r.h)
           /\ UNCHANGED <<outBuffers, meant>>
  <2>1. Fresh(hints') /\ hints'.method = hints.method
    BY <1>3, <1>9
  <2>2. hints' \in HintsType
    BY <2>1 DEF Fresh
  <2>3. outBuffers' = outBuffers /\ meant' = meant /\ stage' = "targeted"
    BY <1>9
  <2> QED
    BY <1>8, <2>1, <2>2, <2>3
<1>10. CASE r.res = "none" /\ stage' = "stuck" /\ hints' = r.h /\ UNCHANGED <<outBuffers, meant>>
  <2>1. hints' \in HintsType /\ outBuffers' = outBuffers /\ meant' = meant /\ stage' = "stuck"
    BY <1>3, <1>10
  <2> QED
    BY <1>8, <2>1
<1> QED
  BY <1>5, <1>6, <1>7, <1>9, <1>10

\* A buffer leaves: what the buffers lead to stays the same.
LEMMA SendInv ==
    ASSUME FramingInv, Send
    PROVE  FramingInv'
<1>1. /\ outBuffers # <<>> /\ got' = got \o Head(outBuffers) /\ outBuffers' = Tail(outBuffers)
      /\ hints' = hints /\ script' = script /\ asked' = asked /\ meant' = meant
  BY DEF Send
<1>2. stage = "answered" /\ outBuffers \in Seq(Stream) /\ got \in Stream
  BY <1>1 DEF FramingInv
<1>3. /\ stage' \in {"answered", "idle", "closed"}
      /\ ~(Len(outBuffers) > 1) \/ stage' = "answered"
  BY <1>2 DEF Send
<1>4. /\ Tail(outBuffers) \in Seq(Stream) /\ Head(outBuffers) \in Stream
      /\ Len(outBuffers) \in Nat /\ Len(Tail(outBuffers)) = Len(outBuffers) - 1
  BY <1>1, <1>2
<1>5. outBuffers' # <<>> => stage' = "answered"
  <2> SUFFICES ASSUME outBuffers' # <<>> PROVE stage' = "answered"
    OBVIOUS
  <2>1. Len(outBuffers') # 0
    BY <1>1, <1>4, EmptySeq
  <2>2. Len(outBuffers) > 1
    BY <1>1, <1>4, <2>1
  <2> QED
    BY <1>3, <2>2
<1>6. got' \in Stream
  BY <1>1, <1>2, <1>4 DEF Stream
<1>7. PICK total \in Stream : Along(outBuffers, got, total) /\ Told(total, asked, meant)
  BY DEF FramingInv
<1>8. Along(outBuffers', got', total)
  BY <1>1, <1>2, <1>7, AlongTail
<1>9. Told(total, asked', meant')
  BY <1>1, <1>7
<1>10. stage' \in Stages /\ stage' \notin Waiting /\ stage' \notin Asking
  BY <1>3 DEF Stages, Waiting, Asking
<1>11. Len(asked') = Len(meant')
  BY <1>1, <1>2 DEF FramingInv, Asking
<1>12. /\ hints' \in HintsType /\ script' \in Text /\ outBuffers' \in Seq(Stream)
       /\ asked' \in Seq(Word) /\ meant' \in Seq(MeantType)
  BY <1>1, <1>4 DEF FramingInv
<1> QED
  BY <1>3, <1>5, <1>6, <1>7, <1>8, <1>9, <1>10, <1>11, <1>12 DEF FramingInv

\* Nothing happens.
LEMMA StutterInv ==
    ASSUME FramingInv, UNCHANGED vars
    PROVE  FramingInv'
<1>1. /\ stage' = stage /\ hints' = hints /\ script' = script /\ outBuffers' = outBuffers
      /\ got' = got /\ asked' = asked /\ meant' = meant
  BY DEF vars
<1> QED
  BY <1>1 DEF FramingInv

\* The invariant of the connection holds throughout, for every BUFFER_SIZE, every
\* set of files and script outputs, and any number of requests and cookies.
THEOREM FramingInvAlways ==
    ASSUME Conforming
    PROVE  Spec => []FramingInv
<1>1. Init => FramingInv
  BY InitInv
<1>2. FramingInv /\ [Next]_vars => FramingInv'
  <2> SUFFICES ASSUME FramingInv, [Next]_vars PROVE FramingInv'
    OBVIOUS
  <2>1. CASE Ask
    BY <2>1, AskInv
  <2>2. CASE Launch
    BY <2>2, LaunchInv
  <2>3. CASE ScriptEnds
    BY <2>3, ScriptEndsInv
  <2>4. CASE Send
    BY <2>4, SendInv
  <2>5. ASSUME NEW t \in Targets, Serve(t) PROVE FramingInv'
    BY <2>5, ServeInv
  <2>6. CASE UNCHANGED vars
    BY <2>6, StutterInv
  <2> QED
    BY <2>1, <2>2, <2>3, <2>4, <2>5, <2>6 DEF Next
<1> QED
  BY <1>1, <1>2, PTL DEF Spec

\* The peer never loses the boundaries of the responses on a kept-alive connection:
\* genResponse announces the length of what writeResponse sends, whatever the file,
\* the script and the chain of local redirections it comes from.
THEOREM PeerInStepAlways ==
    ASSUME Conforming
    PROVE  Spec => []PeerInStep
<1>1. FramingInv => PeerInStep
  BY InStepNow
<1> QED
  BY <1>1, FramingInvAlways, PTL

\* The peer gets the whole body and nothing else: a file from its first byte, a
\* script's output from behind the blank line parseHeaders has found.
THEOREM BodiesIntactAlways ==
    ASSUME Conforming
    PROVE  Spec => []BodiesIntact
<1>1. FramingInv => BodiesIntact
  BY InStepNow
<1> QED
  BY <1>1, FramingInvAlways, PTL
=============================================================================
