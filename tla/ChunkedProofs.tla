--------------------------- MODULE ChunkedProofs ----------------------------
(***************************************************************************)
(* A chunked body is read as it was sent, for every message whose data     *)
(* holds no CRLF, every cut of it into reads, every text that follows and  *)
(* every body_max_size.  OnlyClean names the condition on the data.        *)
(*                                                                         *)
(* Layout says what is where on the wire: At(m, n) bytes belong to the     *)
(* first n frames.  Inside is the invariant of the loop: n frames have     *)
(* been written, and the stash and the buffer together are the bytes from  *)
(* the next line up to the last byte read, so that no cut can matter.      *)
(* Outcome is what the loop leaves, and ChunkedInv, the invariant of the   *)
(* specification, is Outcome between two reads.  It needs the counter and  *)
(* the position as well as the file: a line that getLine stashes is known  *)
(* only as a piece of the wire.                                            *)
(***************************************************************************)
EXTENDS ChunkedBody, Recursion, SequenceTheorems

\* What may be on the wire.
Byte == STRING \union {CR, LF} \union Digits
Text == Seq(Byte)

-----------------------------------------------------------------------------
(***************************************************************************)
(* Pieces of a sequence.                                                   *)
(***************************************************************************)
\* w from behind a up to b.
Slice(w, a, b) == SubSeq(w, a + 1, b)

\* A piece is a text, with the bytes of the whole.
LEMMA SliceType ==
    ASSUME NEW w \in Text, NEW b \in 0..Len(w), NEW a \in 0..b
    PROVE  /\ Slice(w, a, b) \in Text
           /\ Len(Slice(w, a, b)) = b - a
           /\ \A i \in 1..(b - a) : Slice(w, a, b)[i] = w[a + i]
<1>1. Len(w) \in Nat /\ w \in Seq(Byte)
  BY DEF Text
<1>2. \A i \in (a + 1)..b : w[i] \in Byte
  BY <1>1
<1> QED
  BY <1>1, <1>2, SubSeqProperties DEF Slice, Text

\* Two texts with the same length and the same bytes.
LEMMA SameText ==
    ASSUME NEW s \in Text, NEW t \in Text, Len(s) = Len(t),
           \A i \in 1..Len(s) : s[i] = t[i]
    PROVE  s = t
BY DEF Text

\* Two pieces that meet make one.
LEMMA SliceJoin ==
    ASSUME NEW w \in Text, NEW c \in 0..Len(w), NEW b \in 0..c, NEW a \in 0..b
    PROVE  Slice(w, a, b) \o Slice(w, b, c) = Slice(w, a, c)
<1> DEFINE s == Slice(w, a, b)
           t == Slice(w, b, c)
           u == Slice(w, a, c)
<1>1. Len(w) \in Nat /\ b \in 0..Len(w) /\ a \in 0..c
  BY DEF Text
<1>2. /\ s \in Text /\ Len(s) = b - a /\ \A i \in 1..(b - a) : s[i] = w[a + i]
      /\ t \in Text /\ Len(t) = c - b /\ \A i \in 1..(c - b) : t[i] = w[b + i]
      /\ u \in Text /\ Len(u) = c - a /\ \A i \in 1..(c - a) : u[i] = w[a + i]
  BY <1>1, SliceType
<1> HIDE DEF s, t, u
<1>3. /\ s \o t \in Text /\ Len(s \o t) = c - a
      /\ \A i \in 1..(c - a) : (s \o t)[i] = IF i <= b - a THEN s[i] ELSE t[i - (b - a)]
  <2>1. /\ s \o t \in Text /\ Len(s \o t) = Len(s) + Len(t)
        /\ \A i \in 1..(Len(s) + Len(t)) :
               (s \o t)[i] = IF i <= Len(s) THEN s[i] ELSE t[i - Len(s)]
    BY <1>2, ConcatProperties DEF Text
  <2>2. (b - a) + (c - b) = c - a
    BY <1>1
  <2>3. Len(s) = b - a /\ Len(t) = c - b
    BY <1>2
  <2> DEFINE j == s \o t
  <2> HIDE DEF j
  <2>4. /\ j \in Text /\ Len(j) = (b - a) + (c - b)
        /\ \A i \in 1..((b - a) + (c - b)) :
               j[i] = IF i <= b - a THEN s[i] ELSE t[i - (b - a)]
    BY <2>1, <2>3, Zenon DEF j
  <2>5. /\ j \in Text /\ Len(j) = c - a
        /\ \A i \in 1..(c - a) : j[i] = IF i <= b - a THEN s[i] ELSE t[i - (b - a)]
    BY <2>2, <2>4, Zenon
  <2> QED
    BY <2>5, Zenon DEF j
<1>4. \A i \in 1..(c - a) : (s \o t)[i] = u[i]
  <2> SUFFICES ASSUME NEW i \in 1..(c - a) PROVE (s \o t)[i] = u[i]
    OBVIOUS
  <2>3. (s \o t)[i] = IF i <= b - a THEN s[i] ELSE t[i - (b - a)]
    BY <1>3, Zenon
  <2>4. u[i] = w[a + i]
    BY <1>2, Zenon
  <2>1. CASE i <= b - a
    <3>1. i \in 1..(b - a)
      BY <1>1, <2>1
    <3>2. s[i] = w[a + i]
      BY <1>2, <3>1, Zenon
    <3> QED
      BY <2>1, <2>3, <2>4, <3>2, Zenon
  <2>2. CASE ~(i <= b - a)
    <3>1. i - (b - a) \in 1..(c - b) /\ b + (i - (b - a)) = a + i
      BY <1>1, <2>2
    <3>2. t[i - (b - a)] = w[b + (i - (b - a))]
      BY <1>2, <3>1, Zenon
    <3> QED
      BY <2>2, <2>3, <2>4, <3>1, <3>2, Zenon
  <2> QED
    BY <2>1, <2>2
<1>5. s \o t = u
  BY <1>2, <1>3, <1>4, SameText
<1> QED
  BY <1>5 DEF s, t, u

\* A piece of a piece.
LEMMA SliceSlice ==
    ASSUME NEW w \in Text, NEW b \in 0..Len(w), NEW a \in 0..b,
           NEW d \in 0..(b - a), NEW c \in 0..d
    PROVE  Slice(Slice(w, a, b), c, d) = Slice(w, a + c, a + d)
<1> DEFINE s == Slice(w, a, b)
           t == Slice(s, c, d)
           u == Slice(w, a + c, a + d)
<1>1. Len(w) \in Nat /\ a + d \in 0..Len(w) /\ a + c \in 0..(a + d)
  BY DEF Text
<1>2. s \in Text /\ Len(s) = b - a /\ \A i \in 1..(b - a) : s[i] = w[a + i]
  BY <1>1, SliceType
<1> HIDE DEF s
<1>0. d \in 0..Len(s)
  BY <1>2
<1>3. t \in Text /\ Len(t) = d - c /\ \A i \in 1..(d - c) : t[i] = s[c + i]
  BY <1>0, <1>2, SliceType
<1>4. /\ u \in Text /\ Len(u) = (a + d) - (a + c)
      /\ \A i \in 1..((a + d) - (a + c)) : u[i] = w[(a + c) + i]
  BY <1>1, SliceType
<1>5. Len(u) = d - c /\ \A i \in 1..(d - c) : u[i] = w[a + (c + i)]
  BY <1>1, <1>4
<1>6. \A i \in 1..(d - c) : c + i \in 1..(b - a)
  BY <1>1
<1> HIDE DEF t, u
<1>7. \A i \in 1..(d - c) : t[i] = u[i]
  BY <1>2, <1>3, <1>5, <1>6
<1>8. t \in Text /\ u \in Text /\ Len(t) = Len(u) /\ Len(t) = d - c
  BY <1>3, <1>4, <1>5
<1>9. t = u
  BY <1>7, <1>8, SameText
<1> QED
  BY <1>9 DEF t, u, s

-----------------------------------------------------------------------------
(***************************************************************************)
(* The bytes of a message.                                                 *)
(***************************************************************************)
\* FlattenSeq, text after text.
LEMMA FlattenStep ==
    ASSUME NEW n \in Nat \ {0}, NEW c \in [1..n -> Text], NEW f \in [0..n -> Text],
           f[0] = <<>>, \A i \in 1..n : f[i] = f[i - 1] \o c[i]
    PROVE  FlattenSeq(c) = f[n]
<1> DEFINE F(r) == [i \in 1..n |-> IF i = 1 THEN c[i] ELSE r[i - 1] \o c[i]]
           R == CHOOSE r : r = F(r)
           h == [i \in 1..n |-> f[i]]
<1>1. Len(c) = n
  OBVIOUS
<1>2. FlattenSeq(c) = R[n]
  BY <1>1 DEF FlattenSeq
<1>3. f[1] = c[1]
  <2>0. 1 \in 1..n /\ 1 - 1 = 0
    OBVIOUS
  <2>1. f[1] = f[0] \o c[1]
    BY <2>0
  <2>2. c[1] \in Seq(Byte)
    BY <2>0 DEF Text
  <2> QED
    BY <2>1, <2>2, ConcatEmptySeq
<1>4. h = F(h)
  <2>0. \A i \in 1..n : i # 1 => i - 1 \in 1..n
    OBVIOUS
  <2>1. \A i \in 1..n : i # 1 => i - 1 \in 1..n /\ f[i] = f[i - 1] \o c[i]
    BY <2>0, Zenon
  <2>2. \A i \in 1..n : f[i] = IF i = 1 THEN c[i] ELSE h[i - 1] \o c[i]
    BY <1>3, <2>1
  <2> QED
    BY <2>2
<1>5. R = F(R)
  <2>1. \E r : r = F(r)
    BY <1>4
  <2> QED
    BY <2>1
<1> HIDE DEF R, h
<1>6. R[1] = c[1] /\ \A i \in 2..n : R[i] = R[i - 1] \o c[i]
  <2>1. \A i \in 2..n : i \in 1..n /\ i # 1
    OBVIOUS
  <2>2. 1 \in 1..n
    OBVIOUS
  <2>3. \A i \in 1..n : R[i] = IF i = 1 THEN c[i] ELSE R[i - 1] \o c[i]
    BY <1>5
  <2> QED
    BY <2>1, <2>2, <2>3
<1> DEFINE e == [i \in 0..n |-> IF i = 0 THEN f[0] ELSE R[i]]
<1>7. e[0] = f[0]
  OBVIOUS
<1>8. \A i \in 1..n : e[i - 1] = f[i - 1] => e[i] = f[i]
  <2> SUFFICES ASSUME NEW i \in 1..n, e[i - 1] = f[i - 1] PROVE e[i] = f[i]
    OBVIOUS
  <2>1. CASE i = 1
    BY <1>3, <1>6, <2>1
  <2>2. CASE i # 1
    <3>1. i \in 2..n /\ e[i] = R[i] /\ e[i - 1] = R[i - 1]
      BY <2>2
    <3> QED
      BY <1>6, <3>1
  <2> QED
    BY <2>1, <2>2
<1>9. \A i \in 0..n : e[i] = f[i]
  <2> HIDE DEF e
  <2> DEFINE Bad == {i \in 0..n : e[i] # f[i]}
  <2>1. n \in Nat /\ Bad \in SUBSET (0..n) /\ 0 \notin Bad
    BY <1>7
  <2>2. \A i \in 1..n : i \in Bad => i - 1 \in Bad
    <3>1. \A i \in 1..n : i - 1 \in 0..n
      OBVIOUS
    <3> QED
      BY <1>8, <3>1
  <2> HIDE DEF Bad
  <2>3. Bad = {}
    BY <2>1, <2>2, NoFirst
  <2> QED
    BY <2>3 DEF Bad
<1>10. n \in 0..n /\ e[n] = R[n]
  OBVIOUS
<1> QED
  BY <1>2, <1>9, <1>10

\* FlattenSeq of each prefix, as one function.
LEMMA FlattenRun ==
    ASSUME NEW N \in Nat, NEW c \in [1..N -> Text]
    PROVE  \E f \in [0..N -> Text] :
               /\ f[0] = <<>>
               /\ \A n \in 1..N : f[n] = f[n - 1] \o c[n]
               /\ \A n \in 0..N : FlattenSeq([i \in 1..n |-> c[i]]) = f[n]
<1> DEFINE g == [x \in Text \X (1..N) |-> x[1] \o c[x[2]]]
<1>1. \A t \in Text, n \in 1..N : t \o c[n] \in Text
  BY ConcatProperties DEF Text
<1>2. g \in [Text \X (1..N) -> Text]
  BY <1>1
<1>3. <<>> \in Text
  BY DEF Text
<1>4. PICK f : Iteration(f, Text, N, <<>>, g)
  <2> HIDE DEF g
  <2> QED
    BY <1>2, <1>3, Iterates
<1>5. f \in [0..N -> Text] /\ f[0] = <<>>
  BY <1>4 DEF Iteration
<1>6. \A n \in 1..N : f[n] = f[n - 1] \o c[n]
  <2> SUFFICES ASSUME NEW n \in 1..N PROVE f[n] = f[n - 1] \o c[n]
    OBVIOUS
  <2>1. f[n] = g[<<f[n - 1], n>>]
    BY <1>4 DEF Iteration
  <2>2. f[n - 1] \in Text
    BY <1>5
  <2> QED
    BY <2>1, <2>2
<1>7. \A n \in 0..N : FlattenSeq([i \in 1..n |-> c[i]]) = f[n]
  <2> SUFFICES ASSUME NEW n \in 0..N PROVE FlattenSeq([i \in 1..n |-> c[i]]) = f[n]
    OBVIOUS
  <2> DEFINE d == [i \in 1..n |-> c[i]]
             e == [i \in 0..n |-> f[i]]
  <2>1. CASE n = 0
    <3>1. d = <<>> /\ Len(d) = 0
      BY <2>1
    <3> QED
      BY <1>5, <2>1, <3>1 DEF FlattenSeq
  <2>2. CASE n # 0
    <3>1. n \in Nat \ {0} /\ d \in [1..n -> Text]
      BY <2>2
    <3>2. e \in [0..n -> Text] /\ e[0] = <<>>
      BY <1>5
    <3>3. \A i \in 1..n : e[i] = e[i - 1] \o d[i]
      <4> SUFFICES ASSUME NEW i \in 1..n PROVE e[i] = e[i - 1] \o d[i]
        OBVIOUS
      <4>1. i \in 1..N /\ i \in 0..n /\ i - 1 \in 0..n
        OBVIOUS
      <4> QED
        BY <1>6, <4>1
    <3>4. e[n] = f[n]
      OBVIOUS
    <3> HIDE DEF d, e
    <3>5. FlattenSeq(d) = e[n]
      BY <3>1, <3>2, <3>3, FlattenStep
    <3> QED
      BY <3>4, <3>5 DEF d
  <2> QED
    BY <2>1, <2>2
<1> QED
  BY <1>5, <1>6, <1>7

\* w starts with s.
Starts(s, w) == Len(s) <= Len(w) /\ \A k \in 1..Len(s) : w[k] = s[k]

\* A concatenation starts with its first part.
LEMMA StartsConcat ==
    ASSUME NEW s \in Text, NEW t \in Text, NEW w \in Text, Starts(s \o t, w)
    PROVE  /\ Starts(s, w)
           /\ Len(s) + Len(t) <= Len(w)
           /\ \A k \in 1..Len(t) : w[Len(s) + k] = t[k]
<1>1. Len(s) \in Nat /\ Len(t) \in Nat /\ Len(w) \in Nat
  BY DEF Text
<1>2. /\ Len(s \o t) = Len(s) + Len(t)
      /\ \A k \in 1..(Len(s) + Len(t)) :
             (s \o t)[k] = IF k <= Len(s) THEN s[k] ELSE t[k - Len(s)]
  BY ConcatProperties DEF Text
<1>3. \A k \in 1..Len(s) : w[k] = s[k]
  BY <1>1, <1>2 DEF Starts
<1>4. \A k \in 1..Len(t) : w[Len(s) + k] = t[k]
  <2> SUFFICES ASSUME NEW k \in 1..Len(t) PROVE w[Len(s) + k] = t[k]
    OBVIOUS
  <2>1. /\ Len(s) + k \in 1..(Len(s) + Len(t)) /\ ~(Len(s) + k <= Len(s))
        /\ (Len(s) + k) - Len(s) = k
    BY <1>1
  <2>2. w[Len(s) + k] = (s \o t)[Len(s) + k]
    BY <1>2, <2>1 DEF Starts
  <2> QED
    BY <1>2, <2>1, <2>2
<1> QED
  BY <1>1, <1>2, <1>3, <1>4 DEF Starts

\* A text starts with what it is put together from.
LEMMA PrefixRun ==
    ASSUME NEW N \in Nat, NEW c \in [1..N -> Text], NEW f \in [0..N -> Text],
           \A n \in 1..N : f[n] = f[n - 1] \o c[n],
           NEW w \in Text, Starts(f[N], w)
    PROVE  \A n \in 0..N : Starts(f[n], w)
<1> DEFINE Bad == {k \in 0..N : ~Starts(f[N - k], w)}
<1>1. Bad \in SUBSET (0..N) /\ 0 \notin Bad
  <2>1. N - 0 = N
    OBVIOUS
  <2> QED
    BY <2>1
<1>2. \A k \in 1..N : k \in Bad => k - 1 \in Bad
  <2> SUFFICES ASSUME NEW k \in 1..N, k - 1 \notin Bad PROVE k \notin Bad
    OBVIOUS
  <2> DEFINE n == N - (k - 1)
  <2>1. n \in 1..N /\ n - 1 = N - k /\ n - 1 \in 0..N /\ k - 1 \in 0..N
    OBVIOUS
  <2>2. Starts(f[n], w)
    BY <2>1
  <2> HIDE DEF n
  <2>3. f[n - 1] \in Text /\ c[n] \in Text /\ f[n] = f[n - 1] \o c[n]
    BY <2>1
  <2>4. Starts(f[n - 1], w)
    BY <2>2, <2>3, StartsConcat
  <2> QED
    BY <2>1, <2>4
<1>3. Bad = {}
  <2> HIDE DEF Bad
  <2> QED
    BY <1>1, <1>2, NoFirst
<1> SUFFICES ASSUME NEW n \in 0..N PROVE Starts(f[n], w)
  OBVIOUS
<1>4. N - n \in 0..N /\ N - (N - n) = n
  OBVIOUS
<1> QED
  BY <1>3, <1>4

\* What \o puts where.
LEMMA Joined ==
    ASSUME NEW s \in Text, NEW t \in Text
    PROVE  /\ s \o t \in Text
           /\ Len(s \o t) = Len(s) + Len(t)
           /\ Len(s) \in Nat /\ Len(t) \in Nat
           /\ \A k \in 1..Len(s) : (s \o t)[k] = s[k]
           /\ \A k \in 1..Len(t) : (s \o t)[Len(s) + k] = t[k]
<1>1. s \o t \in Text
  BY ConcatProperties DEF Text
<1>2. Starts(s \o t, s \o t)
  BY <1>1 DEF Starts, Text
<1>3. Len(s \o t) = Len(s) + Len(t)
  BY ConcatProperties DEF Text
<1>4. Len(s) \in Nat /\ Len(t) \in Nat
  BY DEF Text
<1> QED
  BY <1>1, <1>2, <1>3, <1>4, StartsConcat DEF Starts

\* A line with its CRLF.
LEMMA LineText ==
    ASSUME NEW x \in Byte
    PROVE  <<x>> \o CRLF = <<x, CR, LF>> /\ <<x, CR, LF>> \in Text
<1> DEFINE s == <<x>>
           t == <<x, CR, LF>>
<1>1. s \in Text /\ Len(s) = 1 /\ s[1] = x
  BY DEF Text
<1>2. t \in Text /\ Len(t) = 3 /\ t[1] = x /\ t[2] = CR /\ t[3] = LF
  <2>1. CR \in Byte /\ LF \in Byte
    BY DEF Byte
  <2> QED
    BY <2>1 DEF Text
<1>3. CRLF \in Text /\ Len(CRLF) = 2 /\ CRLF[1] = CR /\ CRLF[2] = LF
  BY DEF CRLF, Text, Byte
<1> HIDE DEF s, t
<1>4. /\ s \o CRLF \in Text /\ Len(s \o CRLF) = 3
      /\ (s \o CRLF)[1] = x /\ (s \o CRLF)[2] = CR /\ (s \o CRLF)[3] = LF
  <2>1. /\ s \o CRLF \in Text
        /\ Len(s \o CRLF) = Len(s) + Len(CRLF)
        /\ \A k \in 1..Len(s) : (s \o CRLF)[k] = s[k]
        /\ \A k \in 1..Len(CRLF) : (s \o CRLF)[Len(s) + k] = CRLF[k]
    BY <1>1, <1>3, Joined
  <2>2. 1 \in 1..1 /\ 1 \in 1..2 /\ 2 \in 1..2 /\ 1 + 1 = 2 /\ 1 + 2 = 3
    OBVIOUS
  <2> QED
    BY <1>1, <1>3, <2>1, <2>2
<1>5. \A i \in 1..3 : (s \o CRLF)[i] = t[i]
  <2>1. \A i \in 1..3 : i = 1 \/ i = 2 \/ i = 3
    OBVIOUS
  <2> QED
    BY <1>2, <1>4, <2>1
<1>6. s \o CRLF = t
  BY <1>2, <1>4, <1>5, SameText
<1> QED
  BY <1>2, <1>6 DEF s, t

\* A frame.
Frames == [size : STRING, data : Seq(STRING)]

\* What the peer sends is text.
LEMMA Texts ==
    /\ Seq(STRING) \subseteq Text
    /\ CRLF \in Text /\ Len(CRLF) = 2 /\ CRLF[1] = CR /\ CRLF[2] = LF
    /\ LastChunk \in Text /\ Len(LastChunk) = 3
    /\ LastChunk[1] = "0" /\ LastChunk[2] = CR /\ LastChunk[3] = LF
<1>1. ASSUME NEW s \in Seq(STRING) PROVE s \in Text
  BY DEF Text, Byte
<1>2. CRLF \in Text /\ Len(CRLF) = 2 /\ CRLF[1] = CR /\ CRLF[2] = LF
  BY DEF CRLF, Text, Byte
<1>3. LastChunk = <<"0", CR, LF>>
  BY LineText DEF LastChunk, Byte, Digits
<1>4. <<"0", CR, LF>> \in Text
  BY LineText DEF Byte, Digits
<1> QED
  BY <1>1, <1>2, <1>3, <1>4

\* The bytes of a frame: a size, CRLF, data, CRLF.
LEMMA BytesType ==
    ASSUME NEW frame \in Frames
    PROVE  LET b == Bytes(frame)
               L == Len(frame.data)
           IN /\ b \in Text /\ frame.data \in Text /\ L \in Nat
              /\ Len(b) = L + 5
              /\ b[1] = frame.size /\ b[2] = CR /\ b[3] = LF
              /\ \A j \in 1..L : b[3 + j] = frame.data[j]
              /\ b[L + 4] = CR /\ b[L + 5] = LF
<1> DEFINE d == frame.data
           L == Len(d)
           h == <<frame.size, CR, LF>>
           e == <<CR, LF>>
           b == Bytes(frame)
<1>1. d \in Text /\ L \in Nat /\ frame.size \in Byte
  <2>1. d \in Seq(STRING) /\ frame.size \in STRING
    BY DEF Frames
  <2> QED
    BY <2>1, Texts DEF Byte, Text
<1>2. h \in Text /\ Len(h) = 3 /\ h[1] = frame.size /\ h[2] = CR /\ h[3] = LF
  BY <1>1 DEF Text, Byte
<1>3. e \in Text /\ Len(e) = 2 /\ e[1] = CR /\ e[2] = LF
  BY DEF Text, Byte
<1>4. b = (h \o d) \o e
  <2>1. <<frame.size>> \o CRLF = h
    BY <1>1, LineText
  <2> QED
    BY <2>1 DEF Bytes, CRLF
<1> HIDE DEF h, e, d
<1>5. /\ h \o d \in Text /\ Len(h \o d) = 3 + L
      /\ \A k \in 1..3 : (h \o d)[k] = h[k]
      /\ \A k \in 1..L : (h \o d)[3 + k] = d[k]
  <2>1. /\ h \o d \in Text /\ Len(h \o d) = Len(h) + Len(d)
        /\ \A k \in 1..Len(h) : (h \o d)[k] = h[k]
        /\ \A k \in 1..Len(d) : (h \o d)[Len(h) + k] = d[k]
    BY <1>1, <1>2, Joined
  <2> QED
    BY <1>2, <2>1
<1> DEFINE x == h \o d
<1> HIDE DEF x
<1>6. /\ b \in Text /\ Len(b) = (3 + L) + 2
      /\ \A k \in 1..(3 + L) : b[k] = x[k]
      /\ \A k \in 1..2 : b[(3 + L) + k] = e[k]
  <2>1. x \in Text /\ Len(x) = 3 + L /\ b = x \o e
    BY <1>4, <1>5 DEF x
  <2>2. /\ x \o e \in Text /\ Len(x \o e) = Len(x) + Len(e)
        /\ \A k \in 1..Len(x) : (x \o e)[k] = x[k]
        /\ \A k \in 1..Len(e) : (x \o e)[Len(x) + k] = e[k]
    BY <1>3, <2>1, Joined
  <2> HIDE DEF b
  <2> QED
    BY <1>3, <2>1, <2>2
<1> HIDE DEF b
<1>7. b[1] = frame.size /\ b[2] = CR /\ b[3] = LF
  <2>1. \A k \in 1..3 : k \in 1..(3 + L)
    BY <1>1
  <2>2. \A k \in 1..3 : b[k] = h[k]
    BY <1>5, <1>6, <2>1 DEF x
  <2> QED
    BY <1>2, <2>2
<1>8. \A j \in 1..L : b[3 + j] = d[j]
  <2>1. \A j \in 1..L : 3 + j \in 1..(3 + L)
    BY <1>1
  <2> QED
    BY <1>5, <1>6, <2>1 DEF x
<1>9. b[L + 4] = CR /\ b[L + 5] = LF
  <2>1. L + 4 = (3 + L) + 1 /\ L + 5 = (3 + L) + 2
    BY <1>1
  <2> QED
    BY <1>3, <1>6, <2>1
<1>10. Len(b) = L + 5
  BY <1>1, <1>6
<1> QED
  BY <1>1, <1>6, <1>7, <1>8, <1>9, <1>10 DEF b, d

\* Bytes and data of the first n frames.
At(m, n) == Len(FlattenSeq([i \in 1..n |-> Bytes(m[i])]))
Written(m, n) == FlattenSeq([i \in 1..n |-> m[i].data])

\* What is where on the wire.
Layout(m, w) ==
    /\ m \in Seq(Frames) /\ w \in Text
    /\ \A n \in 0..Len(m) :
           /\ At(m, n) \in Nat
           /\ At(m, n) + 3 <= Len(w)
           /\ w[At(m, n) + 1] = IF n < Len(m) THEN m[n + 1].size ELSE "0"
           /\ w[At(m, n) + 2] = CR
           /\ w[At(m, n) + 3] = LF
           /\ Written(m, n) \in Text
    /\ \A n \in 1..Len(m) :
           LET L == Len(m[n].data)
           IN /\ L \in Nat
              /\ At(m, n) = At(m, n - 1) + (L + 5)
              /\ \A j \in 1..L : w[(At(m, n - 1) + 3) + j] = m[n].data[j]
              /\ w[(At(m, n - 1) + 3) + (L + 1)] = CR
              /\ w[(At(m, n - 1) + 3) + (L + 2)] = LF
              /\ Written(m, n) = Written(m, n - 1) \o m[n].data
    /\ At(m, 0) = 0 /\ Written(m, 0) = <<>>

\* What the peer sends has the layout.
LEMMA WireLayout ==
    ASSUME NEW m \in Messages, NEW e \in Followers, NEW w,
           w = (Encode(m) \o LastChunk) \o e
    PROVE  /\ Layout(m, w)
           /\ Len(Encode(m)) = At(m, Len(m))
           /\ FlattenSeq([i \in DOMAIN m |-> m[i].data]) = Written(m, Len(m))
<1> DEFINE N == Len(m)
           c == [i \in 1..N |-> Bytes(m[i])]
           d == [i \in 1..N |-> m[i].data]
<1>1. m \in Seq(Frames) /\ N \in Nat /\ DOMAIN m = 1..N /\ \A i \in 1..N : m[i] \in Frames
  <2>1. m \in Seq(Frames)
    BY ChunkedAssumption DEF Frames
  <2> QED
    BY <2>1
<1>2. e \in Text
  BY ChunkedAssumption, Texts
<1>3. /\ c \in [1..N -> Text] /\ d \in [1..N -> Text]
  BY <1>1, BytesType
<1>4. PICK f \in [0..N -> Text] :
          /\ f[0] = <<>>
          /\ \A n \in 1..N : f[n] = f[n - 1] \o c[n]
          /\ \A n \in 0..N : FlattenSeq([i \in 1..n |-> c[i]]) = f[n]
  <2> HIDE DEF c, N
  <2> QED
    BY <1>1, <1>3, FlattenRun
<1>5. PICK g \in [0..N -> Text] :
          /\ g[0] = <<>>
          /\ \A n \in 1..N : g[n] = g[n - 1] \o d[n]
          /\ \A n \in 0..N : FlattenSeq([i \in 1..n |-> d[i]]) = g[n]
  <2> HIDE DEF d, N
  <2> QED
    BY <1>1, <1>3, FlattenRun
<1>6. \A n \in 0..N : /\ [i \in 1..n |-> c[i]] = [i \in 1..n |-> Bytes(m[i])]
                      /\ [i \in 1..n |-> d[i]] = [i \in 1..n |-> m[i].data]
  <2> SUFFICES ASSUME NEW n \in 0..N
               PROVE  /\ [i \in 1..n |-> c[i]] = [i \in 1..n |-> Bytes(m[i])]
                      /\ [i \in 1..n |-> d[i]] = [i \in 1..n |-> m[i].data]
    OBVIOUS
  <2>1. \A i \in 1..n : i \in 1..N
    BY <1>1
  <2> QED
    BY <2>1
<1>7. \A n \in 0..N : At(m, n) = Len(f[n]) /\ Written(m, n) = g[n]
  BY <1>4, <1>5, <1>6 DEF At, Written
<1>8. N \in 0..N
  BY <1>1
<1>9. Encode(m) = f[N] /\ FlattenSeq([i \in DOMAIN m |-> m[i].data]) = g[N]
  <2>1. /\ FlattenSeq([i \in 1..N |-> Bytes(m[i])]) = f[N]
        /\ FlattenSeq([i \in 1..N |-> m[i].data]) = g[N]
    BY <1>4, <1>5, <1>6, <1>8
  <2> HIDE DEF N
  <2> QED
    BY <1>1, <2>1 DEF Encode
<1>10. f[N] \in Text /\ f[N] \o LastChunk \in Text /\ w = (f[N] \o LastChunk) \o e
  BY <1>8, <1>9, Joined, Texts
<1>11. w \in Text /\ Starts(w, w)
  <2>1. w \in Text
    BY <1>2, <1>10, Joined
  <2> QED
    BY <2>1 DEF Starts, Text
<1>12. Starts(f[N] \o LastChunk, w)
  BY <1>2, <1>10, <1>11, StartsConcat
<1>13. /\ Starts(f[N], w)
       /\ Len(f[N]) + 3 <= Len(w)
       /\ w[Len(f[N]) + 1] = "0" /\ w[Len(f[N]) + 2] = CR /\ w[Len(f[N]) + 3] = LF
  <2>1. /\ Starts(f[N], w)
        /\ Len(f[N]) + Len(LastChunk) <= Len(w)
        /\ \A k \in 1..Len(LastChunk) : w[Len(f[N]) + k] = LastChunk[k]
    BY <1>10, <1>11, <1>12, Texts, StartsConcat
  <2>2. 1 \in 1..3 /\ 2 \in 1..3 /\ 3 \in 1..3
    OBVIOUS
  <2> QED
    BY <2>1, <2>2, Texts
<1>14. \A n \in 0..N : Starts(f[n], w)
  <2> HIDE DEF c, N
  <2> QED
    BY <1>1, <1>3, <1>4, <1>11, <1>13, PrefixRun
<1>15. ASSUME NEW n \in 1..N
       PROVE  LET L == Len(m[n].data)
              IN /\ L \in Nat /\ At(m, n - 1) \in Nat
                 /\ At(m, n) = At(m, n - 1) + (L + 5)
                 /\ At(m, n) <= Len(w)
                 /\ \A j \in 1..(L + 5) : w[At(m, n - 1) + j] = Bytes(m[n])[j]
                 /\ Written(m, n) = Written(m, n - 1) \o m[n].data
  <2>1. n \in 0..N /\ n - 1 \in 0..N /\ m[n] \in Frames
    BY <1>1
  <2>2. f[n - 1] \in Text /\ c[n] = Bytes(m[n]) /\ f[n] = f[n - 1] \o Bytes(m[n])
    BY <1>4, <2>1
  <2>3. Bytes(m[n]) \in Text /\ Len(Bytes(m[n])) = Len(m[n].data) + 5
        /\ Len(m[n].data) \in Nat
    BY <2>1, BytesType
  <2>4. /\ Len(f[n - 1]) + Len(Bytes(m[n])) <= Len(w)
        /\ \A k \in 1..Len(Bytes(m[n])) : w[Len(f[n - 1]) + k] = Bytes(m[n])[k]
    <3>1. Starts(f[n - 1] \o Bytes(m[n]), w)
      BY <1>14, <2>1, <2>2
    <3> HIDE DEF N, c, d
    <3> QED
      BY <1>11, <2>2, <2>3, <3>1, StartsConcat
  <2>5. Len(f[n]) = Len(f[n - 1]) + Len(Bytes(m[n])) /\ Len(f[n - 1]) \in Nat
    <3> HIDE DEF N, c, d
    <3>1. Len(f[n - 1] \o Bytes(m[n])) = Len(f[n - 1]) + Len(Bytes(m[n]))
      BY <2>2, <2>3, Joined
    <3> QED
      BY <2>2, <3>1 DEF Text
  <2>6. d[n] = m[n].data /\ g[n] = g[n - 1] \o m[n].data
    BY <1>5
  <2>7. /\ At(m, n) = Len(f[n]) /\ At(m, n - 1) = Len(f[n - 1])
        /\ Written(m, n) = g[n] /\ Written(m, n - 1) = g[n - 1]
    BY <1>7, <2>1
  <2> HIDE DEF N, c, d
  <2> QED
    BY <2>3, <2>4, <2>5, <2>6, <2>7
<1>16. ASSUME NEW n \in 1..N
       PROVE  LET L == Len(m[n].data)
              IN /\ w[At(m, n - 1) + 1] = m[n].size
                 /\ w[At(m, n - 1) + 2] = CR
                 /\ w[At(m, n - 1) + 3] = LF
                 /\ At(m, n - 1) + 3 <= Len(w)
                 /\ \A j \in 1..L : w[(At(m, n - 1) + 3) + j] = m[n].data[j]
                 /\ w[(At(m, n - 1) + 3) + (L + 1)] = CR
                 /\ w[(At(m, n - 1) + 3) + (L + 2)] = LF
  <2> DEFINE L == Len(m[n].data)
             a == At(m, n - 1)
             b == Bytes(m[n])
  <2>1. /\ L \in Nat /\ a \in Nat /\ At(m, n) = a + (L + 5) /\ At(m, n) <= Len(w)
        /\ \A j \in 1..(L + 5) : w[a + j] = b[j]
    BY <1>15
  <2>2. /\ b[1] = m[n].size /\ b[2] = CR /\ b[3] = LF
        /\ \A j \in 1..L : b[3 + j] = m[n].data[j]
        /\ b[L + 4] = CR /\ b[L + 5] = LF
    BY <1>1, BytesType
  <2>3. Len(w) \in Nat
    BY <1>11 DEF Text
  <2> HIDE DEF L, a, b, N, c, d
  <2>4. /\ w[a + 1] = m[n].size /\ w[a + 2] = CR /\ w[a + 3] = LF
        /\ a + 3 <= Len(w)
    <3>1. /\ 1 \in 1..(L + 5) /\ 2 \in 1..(L + 5) /\ 3 \in 1..(L + 5)
          /\ a + 3 <= Len(w)
      BY <2>1, <2>3
    <3> QED
      BY <2>1, <2>2, <3>1
  <2>5. \A j \in 1..L : w[(a + 3) + j] = m[n].data[j]
    <3>1. \A j \in 1..L : 3 + j \in 1..(L + 5) /\ a + (3 + j) = (a + 3) + j
      BY <2>1
    <3> QED
      BY <2>1, <2>2, <3>1
  <2>6. w[(a + 3) + (L + 1)] = CR /\ w[(a + 3) + (L + 2)] = LF
    <3>1. /\ L + 4 \in 1..(L + 5) /\ a + (L + 4) = (a + 3) + (L + 1)
          /\ L + 5 \in 1..(L + 5) /\ a + (L + 5) = (a + 3) + (L + 2)
      BY <2>1
    <3> QED
      BY <2>1, <2>2, <3>1
  <2> QED
    BY <2>4, <2>5, <2>6 DEF L, a
<1>17. ASSUME NEW n \in 0..N
       PROVE  /\ At(m, n) \in Nat
              /\ At(m, n) + 3 <= Len(w)
              /\ w[At(m, n) + 1] = IF n < N THEN m[n + 1].size ELSE "0"
              /\ w[At(m, n) + 2] = CR
              /\ w[At(m, n) + 3] = LF
              /\ Written(m, n) \in Text
  <2>1. At(m, n) = Len(f[n]) /\ f[n] \in Text /\ Written(m, n) \in Text
    BY <1>5, <1>7
  <2>2. At(m, n) \in Nat
    BY <2>1 DEF Text
  <2>3. CASE n < N
    <3>1. n + 1 \in 1..N /\ (n + 1) - 1 = n
      BY <1>1, <2>3
    <3>2. /\ w[At(m, (n + 1) - 1) + 1] = m[n + 1].size
          /\ w[At(m, (n + 1) - 1) + 2] = CR
          /\ w[At(m, (n + 1) - 1) + 3] = LF
          /\ At(m, (n + 1) - 1) + 3 <= Len(w)
      BY <1>16, <3>1
    <3> QED
      BY <2>1, <2>2, <2>3, <3>1, <3>2
  <2>4. CASE ~(n < N)
    <3>1. n = N
      <4> HIDE DEF N
      <4> QED
        BY <1>1, <2>4
    <3> QED
      BY <1>13, <2>1, <2>2, <2>4, <3>1
  <2> QED
    BY <2>3, <2>4
<1>18. At(m, 0) = 0 /\ Written(m, 0) = <<>>
  <2>1. 0 \in 0..N /\ Len(<<>>) = 0
    BY <1>1
  <2> QED
    BY <1>4, <1>5, <1>7, <2>1
<1>19. Len(Encode(m)) = At(m, N) /\ g[N] = Written(m, N)
  BY <1>7, <1>8, <1>9
<1> HIDE DEF c, d
<1>20. Layout(m, w)
  BY <1>1, <1>11, <1>15, <1>16, <1>17, <1>18 DEF Layout
<1> QED
  BY <1>9, <1>19, <1>20

-----------------------------------------------------------------------------
(***************************************************************************)
(* The lines of the wire.                                                  *)
(***************************************************************************)
\* A message that is the only one with its bytes: data with a CRLF ends there for
\* the code, which takes it for a line, and a frame of size 0 ends the message.
Clean(m) ==
    \A i \in 1..Len(m) : m[i].size # "0" /\ Ends(m[i].data) = {}

\* What the theorems assume of the peer.  Without it a body with the right
\* sizes is refused with 400 at the first CRLF in its data.
OnlyClean == \A m \in Messages : Clean(m)

\* A CRLF is two different bytes.
LEMMA TwoBytes == CR # LF
BY DEF CR, LF

\* A size line ends behind one byte.
LEMMA SizeLine ==
    ASSUME NEW m, NEW w, Layout(m, w), NEW n \in 0..Len(m),
           NEW to \in At(m, n)..Len(w)
    PROVE  LET s == Slice(w, At(m, n), to)
           IN /\ to < At(m, n) + 3 => Ends(s) = {}
              /\ to >= At(m, n) + 3 => 2 \in Ends(s) /\ \A k \in Ends(s) : 2 <= k
<1> DEFINE a == At(m, n)
           s == Slice(w, a, to)
<1>1. /\ a \in Nat /\ a + 3 <= Len(w) /\ w \in Text /\ Len(w) \in Nat
      /\ w[a + 2] = CR /\ w[a + 3] = LF
  BY DEF Layout, Text
<1>2. to \in 0..Len(w) /\ a \in 0..to
  BY <1>1
<1>3. Len(s) = to - a /\ \A i \in 1..(to - a) : s[i] = w[a + i]
  BY <1>1, <1>2, SliceType
<1> HIDE DEF a, s
<1>4. 1 \notin Ends(s)
  <2> SUFFICES ASSUME 1 \in Ends(s) PROVE FALSE
    OBVIOUS
  <2>1. 1 \in 1..(Len(s) - 1) /\ s[1 + 1] = LF
    BY DEF Ends
  <2>2. 2 \in 1..(to - a) /\ 1 + 1 = 2
    BY <1>2, <1>3, <2>1
  <2> QED
    BY <1>1, <1>3, <2>1, <2>2, TwoBytes
<1>5. ASSUME to < a + 3 PROVE Ends(s) = {}
  <2>1. \A i \in 1..(Len(s) - 1) : i = 1
    BY <1>1, <1>2, <1>3, <1>5
  <2> QED
    BY <1>4, <2>1 DEF Ends
<1>6. ASSUME to >= a + 3 PROVE 2 \in Ends(s) /\ \A k \in Ends(s) : 2 <= k
  <2>1. 2 \in 1..(Len(s) - 1) /\ 2 \in 1..(to - a) /\ 3 \in 1..(to - a) /\ 2 + 1 = 3
    BY <1>1, <1>2, <1>3, <1>6
  <2>2. 2 \in Ends(s)
    BY <1>1, <1>3, <2>1 DEF Ends
  <2>3. \A k \in 1..(Len(s) - 1) : k = 1 \/ 2 <= k
    BY <1>2, <1>3
  <2> QED
    BY <1>4, <2>2, <2>3 DEF Ends
<1> QED
  BY <1>5, <1>6 DEF s, a

\* The line of a chunk is its data.
LEMMA DataLine ==
    ASSUME NEW m, NEW w, Layout(m, w), Clean(m), NEW n \in 1..Len(m),
           NEW to \in (At(m, n - 1) + 3)..Len(w)
    PROVE  LET s == Slice(w, At(m, n - 1) + 3, to)
               L == Len(m[n].data)
           IN /\ to < At(m, n) => Ends(s) = {}
              /\ to >= At(m, n) => L + 1 \in Ends(s) /\ \A k \in Ends(s) : L + 1 <= k
<1> DEFINE a == At(m, n - 1) + 3
           s == Slice(w, a, to)
           d == m[n].data
           L == Len(d)
<1>1. /\ a \in Nat /\ w \in Text /\ Len(w) \in Nat /\ L \in Nat
      /\ At(m, n) = a + (L + 2)
      /\ \A j \in 1..L : w[a + j] = d[j]
      /\ w[a + (L + 1)] = CR
      /\ w[a + (L + 2)] = LF
  <2>1. n - 1 \in 0..Len(m)
    BY DEF Layout
  <2>2. /\ At(m, n - 1) \in Nat /\ w \in Text /\ L \in Nat
        /\ At(m, n) = At(m, n - 1) + (L + 5)
        /\ \A j \in 1..L : w[a + j] = d[j]
        /\ w[a + (L + 1)] = CR /\ w[a + (L + 2)] = LF
    BY <2>1 DEF Layout
  <2>3. At(m, n - 1) + (L + 5) = a + (L + 2)
    <3>1. \A x, y \in Nat : x + (y + 5) = (x + 3) + (y + 2)
      OBVIOUS
    <3> HIDE DEF L
    <3> QED
      BY <2>2, <3>1
  <2> QED
    BY <2>2, <2>3 DEF Text
<1>2. to \in 0..Len(w) /\ a \in 0..to
  BY <1>1
<1>3. Len(s) = to - a /\ \A i \in 1..(to - a) : s[i] = w[a + i]
  BY <1>1, <1>2, SliceType
<1>4. Ends(d) = {}
  BY DEF Clean
<1> HIDE DEF a, s, d, L
<1>5. ASSUME NEW k \in Ends(s) PROVE L + 1 <= k
  <2>1. k \in 1..(Len(s) - 1) /\ s[k] = CR /\ s[k + 1] = LF
    BY DEF Ends
  <2>2. k \in 1..(to - a) /\ k + 1 \in 1..(to - a)
    BY <1>2, <1>3, <2>1
  <2>3. w[a + k] = CR /\ w[a + (k + 1)] = LF
    BY <1>3, <2>1, <2>2
  <2>4. k # L
    BY <1>1, <2>3, TwoBytes
  <2>5. ~(k < L)
    <3> SUFFICES ASSUME k < L PROVE FALSE
      OBVIOUS
    <3>1. k \in 1..L /\ k + 1 \in 1..L /\ k \in 1..(L - 1)
      BY <1>1, <2>2
    <3>2. d[k] = CR /\ d[k + 1] = LF
      BY <1>1, <2>3, <3>1
    <3>3. k \in Ends(d)
      BY <3>1, <3>2 DEF Ends, L
    <3> QED
      BY <1>4, <3>3
  <2> QED
    BY <1>1, <2>2, <2>4, <2>5
<1>6. ASSUME to < a + (L + 2) PROVE Ends(s) = {}
  <2>1. \A k \in 1..(Len(s) - 1) : ~(L + 1 <= k)
    BY <1>1, <1>2, <1>3, <1>6
  <2> QED
    BY <1>5, <2>1 DEF Ends
<1>7. ASSUME to >= a + (L + 2) PROVE L + 1 \in Ends(s)
  <2>1. /\ L + 1 \in 1..(Len(s) - 1) /\ L + 1 \in 1..(to - a)
        /\ L + 2 \in 1..(to - a) /\ (L + 1) + 1 = L + 2
    BY <1>1, <1>2, <1>3, <1>7
  <2> QED
    BY <1>1, <1>3, <2>1 DEF Ends
<1> QED
  BY <1>1, <1>5, <1>6, <1>7 DEF s, a, L, d

-----------------------------------------------------------------------------
(***************************************************************************)
(* A turn of the loop.                                                     *)
(***************************************************************************)
\* The fields of Request.
ParserType ==
    [line : Text, len : Int, inChunk : BOOLEAN, size : Int, done : BOOLEAN,
     error : Nat, written : Text]

\* The fields of a parser that is given another line.
LEMMA WithLine ==
    ASSUME NEW p \in ParserType, NEW x \in Text, NEW q, q = [p EXCEPT !.line = x]
    PROVE  /\ q \in ParserType
           /\ q.line = x /\ q.len = p.len /\ q.inChunk = p.inChunk
           /\ q.size = p.size /\ q.done = p.done /\ q.error = p.error
           /\ q.written = p.written
BY DEF ParserType

\* A refusal.
LEMMA Refused ==
    ASSUME NEW p \in ParserType, NEW st \in Nat, NEW q, q = FillError(p, st)
    PROVE  q \in ParserType /\ q.done = p.done /\ q.error = st
<1>1. <<>> \in Text
  BY DEF Text
<1>2. q = [p EXCEPT !.line = <<>>, !.error = st]
  BY DEF FillError
<1>3. \A x \in Text : [p EXCEPT !.line = x, !.error = st] \in ParserType
  BY DEF ParserType
<1>4. q \in ParserType
  BY <1>1, <1>2, <1>3
<1>5. q.done = p.done
  BY <1>2 DEF ParserType
<1>6. q.error = st
  BY <1>2 DEF ParserType
<1> QED
  BY <1>4, <1>5, <1>6

\* getLine, where e is the place of the first CRLF.
LEMMA LineFound ==
    ASSUME NEW p \in ParserType, NEW buf \in Text,
           NEW e \in Ends(p.line \o buf), \A k \in Ends(p.line \o buf) : e <= k
    PROVE  LET all == p.line \o buf
           IN /\ HasLine(p, buf)
              /\ GetLine(p, buf) = Step([p EXCEPT !.line = Slice(all, 0, e - 1)],
                                        Slice(all, e + 1, Len(all)))
<1> DEFINE all == p.line \o buf
           E == Ends(all)
<1>1. E \subseteq Int /\ e \in E /\ \A k \in E : e <= k
  <2>1. E \subseteq Int
    BY DEF Ends
  <2> QED
    BY <2>1
<1>2. \A i \in E : (\A k \in E : i <= k) => i = e
  <2> HIDE DEF E
  <2> QED
    BY <1>1
<1>3. FirstEnd(all) = e
  BY <1>1, <1>2 DEF FirstEnd
<1>4. 0 + 1 = 1 /\ (e + 1) + 1 = e + 2
  BY <1>1
<1> HIDE DEF all
<1>5. GetLine(p, buf) = Step([p EXCEPT !.line = SubSeq(all, 1, e - 1)],
                             SubSeq(all, e + 2, Len(all)))
  BY <1>3 DEF GetLine, all
<1> QED
  BY <1>4, <1>5 DEF HasLine, Slice, all

\* getLine without a CRLF: all of it is stashed.
LEMMA LineMissing ==
    ASSUME NEW p \in ParserType, NEW buf \in Text, Ends(p.line \o buf) = {}
    PROVE  /\ ~HasLine(p, buf)
           /\ GetLine(p, buf) = Step([p EXCEPT !.line = p.line \o buf], <<>>)
BY DEF HasLine, GetLine

\* After n frames: what is written, what is left of the text up to to, and
\* what the counter makes of it.
Inside(m, w, p, buf, to, n) ==
    /\ p \in ParserType /\ buf \in Text
    /\ p.error = 0 /\ p.done = FALSE
    /\ n \in 0..Len(m)
    /\ \A i \in 1..n : Exact(m[i])
    /\ p.written = Written(m, n)
    /\ p.size = Len(p.written) + 2 * n + Len(p.line) + Len(buf)
    /\ Ends(p.line) = {}
    /\ IF p.inChunk
       THEN /\ n < Len(m)
            /\ m[n + 1].size \in Digits
            /\ p.len = Value[m[n + 1].size]
            /\ At(m, n) + 3 <= to
            /\ p.line \o buf = Slice(w, At(m, n) + 3, to)
       ELSE /\ At(m, n) <= to
            /\ p.line \o buf = Slice(w, At(m, n), to)

\* What _parseChunked leaves.
Outcome(m, w, p, buf, to) ==
    /\ p \in ParserType /\ buf \in Text
    /\ \/ buf = <<>> /\ \E n \in 0..Len(m) : Inside(m, w, p, buf, to, n)
       \/ /\ p.done = TRUE /\ p.error = 0
          /\ \A i \in 1..Len(m) : Exact(m[i])
          /\ p.written = Written(m, Len(m))
          /\ At(m, Len(m)) + 3 <= to
          /\ buf = Slice(w, At(m, Len(m)) + 3, to)
       \/ p.done = FALSE /\ p.error = 413
       \/ /\ p.done = FALSE /\ p.error = 400
          /\ \E i \in 1..Len(m) : ~Exact(m[i])

\* A number is 0 only when it is written "0".
LEMMA Values ==
    \A d \in Digits : Value[d] \in Nat /\ (Value[d] = 0 => d = "0")
BY DEF Digits, Value

\* _checkSizes where the buffer is used up.
LEMMA CheckSizesOutcome ==
    ASSUME NEW m, NEW w, NEW p, NEW to, NEW n, Inside(m, w, p, <<>>, to, n)
    PROVE  Outcome(m, w, CheckSizes(p), <<>>, to)
<1>1. CASE p.size > BodyMaxSize
  <2>1. CheckSizes(p) = FillError(p, 413)
    BY <1>1 DEF CheckSizes
  <2>2. p \in ParserType /\ p.done = FALSE /\ <<>> \in Text /\ 413 \in Nat
    BY DEF Inside
  <2>3. /\ CheckSizes(p) \in ParserType
        /\ CheckSizes(p).done = FALSE /\ CheckSizes(p).error = 413
    BY <2>1, <2>2, Refused
  <2> QED
    BY <2>2, <2>3 DEF Outcome
<1>2. CASE ~(p.size > BodyMaxSize)
  <2>1. CheckSizes(p) = p
    BY <1>2 DEF CheckSizes
  <2>2. p \in ParserType /\ <<>> \in Text /\ n \in 0..Len(m)
    BY DEF Inside
  <2> QED
    BY <2>1, <2>2 DEF Outcome
<1> QED
  BY <1>1, <1>2

\* A chunk written.
LEMMA Wrote ==
    ASSUME NEW p \in ParserType, Len(p.line) = p.len
    PROVE  LET q == WriteChunk(p)
           IN /\ q \in ParserType
              /\ q.line = <<>> /\ q.inChunk = FALSE /\ q.written = p.written \o p.line
              /\ q.size = p.size /\ q.done = p.done /\ q.error = p.error
<1> DEFINE t == p.written \o p.line
           nil == <<>>
           neg == -1
           R(x, y, z) == [p EXCEPT !.written = x, !.line = y, !.len = z, !.inChunk = FALSE]
<1>1. p.written \in Text /\ p.line \in Text
  BY DEF ParserType
<1>2. t \in Text /\ nil \in Text /\ neg \in Int
  <2>1. t \in Text
    BY <1>1, Joined
  <2> QED
    BY <2>1 DEF Text
<1>3. WriteChunk(p) = R(t, nil, neg)
  BY DEF WriteChunk
<1>4. \A x, y \in Text, z \in Int :
          /\ R(x, y, z) \in ParserType
          /\ R(x, y, z).line = y /\ R(x, y, z).inChunk = FALSE /\ R(x, y, z).written = x
          /\ R(x, y, z).size = p.size /\ R(x, y, z).done = p.done
          /\ R(x, y, z).error = p.error
  <2>1. \A x, y \in Text, z \in Int : R(x, y, z) \in ParserType
    BY DEF ParserType
  <2>2. \A x, y \in Text, z \in Int :
            R(x, y, z).line = y /\ R(x, y, z).inChunk = FALSE /\ R(x, y, z).written = x
    BY DEF ParserType
  <2>3. \A x, y \in Text, z \in Int :
            /\ R(x, y, z).size = p.size /\ R(x, y, z).done = p.done
            /\ R(x, y, z).error = p.error
    BY DEF ParserType
  <2> HIDE DEF R
  <2> QED
    BY <2>1, <2>2, <2>3
<1> HIDE DEF R, t, nil, neg
<1>5. LET q == R(t, nil, neg)
      IN /\ q \in ParserType
         /\ q.line = nil /\ q.inChunk = FALSE /\ q.written = t
         /\ q.size = p.size /\ q.done = p.done /\ q.error = p.error
  BY <1>2, <1>4
<1> QED
  BY <1>3, <1>5 DEF t, nil

\* A chunk of another size than announced.
LEMMA Mismatch ==
    ASSUME NEW p \in ParserType, Len(p.line) # p.len
    PROVE  LET q == WriteChunk(p)
           IN q \in ParserType /\ q.done = p.done /\ q.error = 400
<1> DEFINE q == WriteChunk(p)
<1>1. q = FillError(p, 400)
  BY DEF WriteChunk
<1>2. 400 \in Nat
  OBVIOUS
<1> HIDE DEF q
<1>3. q \in ParserType /\ q.done = p.done /\ q.error = 400
  BY <1>1, <1>2, Refused
<1> QED
  BY <1>3 DEF q

\* A line that is stashed holds no CRLF: one that is found ends behind it.
LEMMA EndsBehind ==
    ASSUME NEW s \in Text, NEW t \in Text, Ends(s) = {}, NEW e \in Ends(s \o t)
    PROVE  Len(s) < e + 1
<1>1. /\ Len(s) \in Nat /\ Len(t) \in Nat /\ Len(s \o t) = Len(s) + Len(t)
      /\ \A k \in 1..Len(s) : (s \o t)[k] = s[k]
  BY Joined
<1>2. e \in 1..(Len(s \o t) - 1) /\ (s \o t)[e] = CR /\ (s \o t)[e + 1] = LF
  BY DEF Ends
<1> SUFFICES ASSUME ~(Len(s) < e + 1) PROVE FALSE
  OBVIOUS
<1>3. e \in 1..Len(s) /\ e + 1 \in 1..Len(s) /\ e \in 1..(Len(s) - 1)
  BY <1>1, <1>2
<1>4. e \in Ends(s)
  BY <1>1, <1>2, <1>3 DEF Ends
<1> QED
  BY <1>4

\* A frame whose size is not that of its data.
LEMMA NotExact ==
    ASSUME NEW f \in Frames, f.size \in Digits => Value[f.size] # Len(f.data)
    PROVE  ~Exact(f)
BY DEF Exact

\* The second getLine of a turn, in a chunk.
LEMMA DataStage ==
    ASSUME NEW m, NEW w, Layout(m, w), Clean(m), NEW to \in 0..Len(w), NEW n,
           NEW p, NEW buf, Inside(m, w, p, buf, to, n), p.inChunk = TRUE
    PROVE  LET l == GetLine(p, buf)
               x == WriteChunk(l.p)
           IN \/ ~HasLine(p, buf) /\ l.buf = <<>> /\ Inside(m, w, l.p, <<>>, to, n)
              \/ HasLine(p, buf) /\ x.error # 0 /\ Outcome(m, w, x, l.buf, to)
              \/ /\ HasLine(p, buf) /\ x.error = 0
                 /\ Inside(m, w, x, l.buf, to, n + 1)
                 /\ Len(l.buf) < Len(buf)
<1> DEFINE k == n + 1
           a == At(m, n) + 3
           d == m[k].data
           L == Len(d)
           all == p.line \o buf
           l == GetLine(p, buf)
           x == WriteChunk(l.p)
<1>1. /\ p \in ParserType /\ p.line \in Text /\ buf \in Text /\ p.written \in Text
      /\ p.len \in Int /\ p.size \in Int /\ p.error = 0 /\ p.done = FALSE
      /\ p.written = Written(m, n)
      /\ p.size = Len(p.written) + 2 * n + Len(p.line) + Len(buf)
      /\ Ends(p.line) = {} /\ \A i \in 1..n : Exact(m[i])
  BY DEF Inside, ParserType
<1>2. n \in 0..Len(m) /\ n < Len(m)
  BY DEF Inside
<1>3. /\ m[k].size \in Digits /\ p.len = Value[m[k].size]
      /\ a <= to /\ all = Slice(w, a, to)
  BY DEF Inside
<1>4. m \in Seq(Frames) /\ Len(m) \in Nat /\ w \in Text /\ Len(w) \in Nat
  BY DEF Layout, Text
<1>5. k \in 1..Len(m) /\ k \in 0..Len(m) /\ k - 1 = n /\ m[k] \in Frames
  BY <1>2, <1>4
<1>6. /\ At(m, n) \in Nat /\ At(m, k) \in Nat /\ L \in Nat
      /\ At(m, k) = At(m, n) + (L + 5)
      /\ \A j \in 1..L : w[a + j] = d[j]
      /\ Written(m, k) = Written(m, n) \o d
      /\ Written(m, k) \in Text
  <2>1. /\ L \in Nat
        /\ At(m, k) = At(m, k - 1) + (L + 5)
        /\ \A j \in 1..L : w[(At(m, k - 1) + 3) + j] = d[j]
        /\ Written(m, k) = Written(m, k - 1) \o d
    <3> HIDE DEF k
    <3> QED
      BY <1>5 DEF Layout
  <2>2. At(m, n) \in Nat /\ At(m, k) \in Nat /\ Written(m, k) \in Text
    <3> HIDE DEF k
    <3> QED
      BY <1>2, <1>5 DEF Layout
  <2> HIDE DEF k, d, L
  <2> QED
    BY <1>5, <2>1, <2>2
<1>7. a \in Nat /\ At(m, k) = a + (L + 2) /\ to \in a..Len(w) /\ a \in 0..to
  <2>1. \A y, z \in Nat : y + (z + 5) = (y + 3) + (z + 2) /\ y + 3 \in Nat
    OBVIOUS
  <2>2. a \in Nat /\ At(m, k) = a + (L + 2)
    <3> HIDE DEF L
    <3> QED
      BY <1>6, <2>1
  <2> QED
    BY <1>3, <2>2
<1>8. d \in Text
  BY <1>5, BytesType
<1>9. /\ to < At(m, k) => Ends(all) = {}
      /\ to >= At(m, k) => L + 1 \in Ends(all) /\ \A e \in Ends(all) : L + 1 <= e
  <2>1. to \in (At(m, k - 1) + 3)..Len(w) /\ all = Slice(w, At(m, k - 1) + 3, to)
    BY <1>3, <1>5, <1>7
  <2> HIDE DEF k, all
  <2> QED
    BY <1>5, <2>1, DataLine
<1>10. /\ all \in Text /\ Len(all) = to - a /\ Len(all) = Len(p.line) + Len(buf)
       /\ \A i \in 1..(to - a) : all[i] = w[a + i]
       /\ Len(p.line) \in Nat /\ Len(buf) \in Nat
  <2>1. /\ all \in Text /\ Len(all) = Len(p.line) + Len(buf)
        /\ Len(p.line) \in Nat /\ Len(buf) \in Nat
    BY <1>1, Joined
  <2>2. Len(all) = to - a /\ \A i \in 1..(to - a) : all[i] = w[a + i]
    BY <1>3, <1>4, <1>7, SliceType
  <2> QED
    BY <2>1, <2>2
<1> HIDE DEF k, a, d, L, all, l, x
<1>13. p \in ParserType
  BY <1>1
<1>14. all \in Text
  BY <1>10
<1>15. /\ to \in Nat /\ a \in Nat /\ L \in Nat /\ n \in Nat
       /\ Len(p.written) \in Nat /\ Len(p.line) \in Nat /\ Len(buf) \in Nat
       /\ Len(p.line) + Len(buf) = to - a
  <2>1. /\ Len(p.written) \in Nat /\ Len(p.line) \in Nat /\ Len(buf) \in Nat
        /\ Len(p.line) + Len(buf) = to - a
    <3>1. p.written \in Text
      BY <1>1
    <3>2. \A s \in Text : Len(s) \in Nat
      BY DEF Text
    <3> QED
      BY <1>10, <3>1, <3>2
  <2>2. to \in Nat /\ n \in Nat
    BY <1>2, <1>4
  <2> QED
    BY <1>6, <1>7, <2>1, <2>2
<1> DEFINE W == Len(p.written)
<1>16. p.size = W + 2 * n + (to - a)
  <2> DEFINE P == Len(p.line)
             B == Len(buf)
             Z == p.size
  <2>1. Z = W + 2 * n + P + B
    BY <1>1
  <2>2. W \in Nat /\ P \in Nat /\ B \in Nat /\ n \in Nat /\ P + B = to - a
    BY <1>15
  <2> HIDE DEF W, P, B, Z
  <2>3. Z = W + 2 * n + (P + B)
    BY <2>1, <2>2
  <2>4. Z = W + 2 * n + (to - a)
    BY <2>2, <2>3
  <2> QED
    BY <2>4 DEF Z
<1>11. CASE to < At(m, k)
  <2>1. Ends(all) = {}
    BY <1>9, <1>11
  <2>2. ~HasLine(p, buf) /\ l = Step([p EXCEPT !.line = all], <<>>)
    BY <1>1, <2>1, LineMissing DEF all, l
  <2>3. l.p = [p EXCEPT !.line = all] /\ l.buf = <<>>
    BY <2>2 DEF Step
  <2>4. /\ l.p \in ParserType /\ l.p.line = all /\ l.p.len = p.len
        /\ l.p.inChunk = p.inChunk /\ l.p.size = p.size /\ l.p.done = p.done
        /\ l.p.error = p.error /\ l.p.written = p.written
    BY <1>13, <1>14, <2>3, WithLine
  <2>5. all \o <<>> = all /\ <<>> \in Text /\ Len(<<>>) = 0
    <3>1. all \in Seq(Byte)
      BY <1>10 DEF Text
    <3> QED
      BY <3>1, ConcatEmptySeq DEF Text
  <2>6. p.size = Len(p.written) + 2 * n + Len(all) + Len(<<>>)
    <3>1. Len(all) = to - a /\ Len(<<>>) = 0
      BY <1>10, <2>5
    <3> QED
      BY <1>15, <1>16, <3>1
  <2>7. Inside(m, w, l.p, <<>>, to, n)
    BY <1>1, <1>2, <1>3, <2>1, <2>4, <2>5, <2>6 DEF Inside, k, a
  <2> QED
    BY <2>2, <2>3, <2>7 DEF l
<1>12. CASE ~(to < At(m, k))
  <2>1. /\ L + 1 \in Ends(all) /\ \A e \in Ends(all) : L + 1 <= e
        /\ a + (L + 2) <= to
    BY <1>6, <1>7, <1>9, <1>12
  <2>2. /\ HasLine(p, buf)
        /\ l = Step([p EXCEPT !.line = Slice(all, 0, (L + 1) - 1)],
                    Slice(all, (L + 1) + 1, Len(all)))
    BY <1>1, <2>1, LineFound DEF all, l
  <2>3. (L + 1) - 1 = L /\ (L + 1) + 1 = L + 2
    BY <1>6
  <2>4. Slice(all, 0, L) = d
    <3>1. L \in 0..Len(all) /\ 0 \in 0..L /\ L - 0 = L /\ \A i \in 1..L : 0 + i = i
      BY <1>6, <1>7, <1>10, <2>1
    <3>2. /\ Slice(all, 0, L) \in Text /\ Len(Slice(all, 0, L)) = L
          /\ \A i \in 1..L : Slice(all, 0, L)[i] = all[i]
      <4>1. /\ Slice(all, 0, L) \in Text /\ Len(Slice(all, 0, L)) = L - 0
            /\ \A i \in 1..(L - 0) : Slice(all, 0, L)[i] = all[0 + i]
        BY <1>10, <3>1, SliceType
      <4> QED
        BY <3>1, <4>1
    <3>3. \A i \in 1..L : i \in 1..(to - a)
      BY <1>6, <1>7, <2>1
    <3>4. \A i \in 1..L : Slice(all, 0, L)[i] = d[i]
      BY <1>6, <1>10, <3>2, <3>3
    <3>5. Len(d) = L
      BY DEF L
    <3> QED
      BY <1>8, <3>2, <3>4, <3>5, SameText
  <2>5. Slice(all, L + 2, Len(all)) = Slice(w, At(m, k), to)
    <3>1. /\ to - a \in 0..(to - a) /\ L + 2 \in 0..(to - a) /\ a + (to - a) = to
          /\ to \in 0..Len(w)
      BY <1>6, <1>7, <2>1
    <3>2. Slice(Slice(w, a, to), L + 2, to - a) = Slice(w, a + (L + 2), a + (to - a))
      BY <1>4, <1>7, <3>1, SliceSlice
    <3> QED
      BY <1>3, <1>7, <1>10, <3>1, <3>2
  <2>6. l.p = [p EXCEPT !.line = d] /\ l.buf = Slice(w, At(m, k), to)
    BY <2>2, <2>3, <2>4, <2>5 DEF Step
  <2>7. /\ l.p \in ParserType /\ l.p.line = d /\ l.p.len = p.len
        /\ l.p.inChunk = p.inChunk /\ l.p.size = p.size /\ l.p.done = p.done
        /\ l.p.error = p.error /\ l.p.written = p.written
    BY <1>8, <1>13, <2>6, WithLine
  <2>8. l.buf \in Text /\ Len(l.buf) = to - At(m, k) /\ At(m, k) <= to
    <3>1. At(m, k) \in 0..to /\ to \in 0..Len(w)
      BY <1>6, <1>7, <2>1
    <3> QED
      BY <1>4, <2>6, <3>1, SliceType
  <2>9. Len(l.buf) < Len(buf)
    <3>1. Len(p.line) < (L + 1) + 1
      BY <1>1, <2>1, EndsBehind DEF all
    <3> QED
      <4>1. Len(l.buf) = to - (a + (L + 2))
        BY <1>7, <2>8
      <4> QED
        BY <1>15, <3>1, <4>1
  <2>10. CASE L # p.len
    <3>1. Len(l.p.line) # l.p.len
      BY <2>7, <2>10 DEF L
    <3>2. x \in ParserType /\ x.done = FALSE /\ x.error = 400
      BY <1>1, <2>7, <3>1, Mismatch DEF x
    <3>3. ~Exact(m[k])
      BY <1>3, <1>5, <2>10, NotExact DEF L, d
    <3>4. Outcome(m, w, x, l.buf, to)
      BY <1>5, <2>8, <3>2, <3>3 DEF Outcome
    <3> QED
      BY <2>2, <3>2, <3>4 DEF x, l
  <2>11. CASE L = p.len
    <3>1. Len(l.p.line) = l.p.len
      BY <2>7, <2>11 DEF L
    <3>2. /\ x \in ParserType
          /\ x.line = <<>> /\ x.inChunk = FALSE /\ x.written = p.written \o d
          /\ x.size = p.size /\ x.done = FALSE /\ x.error = 0
      BY <1>1, <2>7, <3>1, Wrote DEF x
    <3>3. Exact(m[k])
      BY <1>3, <2>11 DEF Exact, L, d
    <3>4. \A i \in 1..k : Exact(m[i])
      <4>1. \A i \in 1..k : i \in 1..n \/ i = k
        BY <1>2 DEF k
      <4> QED
        BY <1>1, <3>3, <4>1
    <3>5. x.written = Written(m, k) /\ Len(x.written) = Len(p.written) + L
      <4>1. Len(p.written \o d) = Len(p.written) + L
        BY <1>1, <1>8, Joined DEF L
      <4> QED
        BY <1>1, <1>6, <3>2, <4>1
    <3>6. x.line \o l.buf = l.buf /\ Ends(x.line) = {} /\ Len(x.line) = 0
      <4>1. l.buf \in Seq(Byte)
        BY <2>8 DEF Text
      <4>2. <<>> \o l.buf = l.buf
        BY <4>1, ConcatEmptySeq
      <4>3. Ends(<<>>) = {} /\ Len(<<>>) = 0
        BY DEF Ends
      <4> QED
        BY <3>2, <4>2, <4>3
    <3>7. x.size = Len(x.written) + 2 * k + Len(x.line) + Len(l.buf)
      <4>1. Len(l.buf) = to - (a + (L + 2)) /\ 2 * k = 2 * n + 2
        BY <1>7, <1>15, <2>8 DEF k
      <4>2. x.size = p.size /\ Len(x.written) = Len(p.written) + L /\ Len(x.line) = 0
        BY <3>2, <3>5, <3>6
      <4>3. \A u, v, y, z, c \in Nat :
                u + 2 * v + (y - z) = (u + c) + (2 * v + 2) + 0 + (y - (z + (c + 2)))
        OBVIOUS
      <4>4. W + 2 * n + (to - a) = (W + L) + (2 * n + 2) + 0 + (to - (a + (L + 2)))
        <5>1. W \in Nat
          BY <1>15
        <5> HIDE DEF W
        <5> QED
          BY <1>15, <4>3, <5>1
      <4> QED
        BY <1>16, <4>1, <4>2, <4>4, Zenon
    <3>8. Inside(m, w, x, l.buf, to, k)
      BY <1>5, <2>6, <2>8, <3>2, <3>4, <3>5, <3>6, <3>7 DEF Inside
    <3> QED
      BY <2>2, <2>9, <3>2, <3>8 DEF x, l, k
  <2> QED
    BY <2>10, <2>11
<1> QED
  BY <1>11, <1>12

\* _chunked_status is set.
InChunk(p) == p.inChunk = TRUE

\* A line with a number.
Opened(p, z, v) == [p EXCEPT !.size = z, !.len = v, !.line = <<>>, !.inChunk = TRUE]

\* Its fields.
LEMMA SizeRead ==
    ASSUME NEW p \in ParserType, NEW z \in Int, NEW v \in Int, NEW q,
           q = Opened(p, z, v)
    PROVE  /\ q \in ParserType
           /\ q.line = <<>> /\ InChunk(q) /\ q.len = v /\ q.size = z
           /\ q.written = p.written /\ q.done = p.done /\ q.error = p.error
<1> DEFINE nil == <<>>
           R(x) == [p EXCEPT !.size = z, !.len = v, !.line = x, !.inChunk = TRUE]
<1>1. nil \in Text
  BY DEF Text
<1>2. \A x \in Text :
          /\ R(x) \in ParserType
          /\ R(x).line = x /\ R(x).inChunk = TRUE /\ R(x).len = v /\ R(x).size = z
          /\ R(x).written = p.written /\ R(x).done = p.done /\ R(x).error = p.error
  BY DEF ParserType
<1>3. q = R(nil)
  BY DEF Opened
<1> HIDE DEF R, nil
<1>4. /\ q \in ParserType
      /\ q.line = nil /\ q.inChunk = TRUE /\ q.len = v /\ q.size = z
      /\ q.written = p.written /\ q.done = p.done /\ q.error = p.error
  <2>1. /\ R(nil) \in ParserType
        /\ R(nil).line = nil /\ R(nil).inChunk = TRUE /\ R(nil).len = v
        /\ R(nil).size = z /\ R(nil).written = p.written /\ R(nil).done = p.done
        /\ R(nil).error = p.error
    BY <1>1, <1>2, Zenon
  <2> QED
    BY <1>3, <2>1, Zenon
<1> QED
  BY <1>4 DEF nil, InChunk

\* The terminating chunk.
LEMMA Ended ==
    ASSUME NEW p \in ParserType, NEW q, q = [p EXCEPT !.done = TRUE, !.line = <<>>]
    PROVE  /\ q \in ParserType
           /\ q.done = TRUE /\ q.error = p.error /\ q.written = p.written
<1> DEFINE nil == <<>>
           R(x) == [p EXCEPT !.done = TRUE, !.line = x]
<1>1. nil \in Text
  BY DEF Text
<1>2. \A x \in Text :
          /\ R(x) \in ParserType
          /\ R(x).done = TRUE /\ R(x).error = p.error /\ R(x).written = p.written
  BY DEF ParserType
<1>3. q = R(nil)
  OBVIOUS
<1> HIDE DEF R, nil
<1>4. /\ R(nil) \in ParserType
      /\ R(nil).done = TRUE /\ R(nil).error = p.error /\ R(nil).written = p.written
  BY <1>1, <1>2, Zenon
<1> QED
  BY <1>3, <1>4, Zenon

\* A refusal with 400.
LEMMA BadRequest ==
    ASSUME NEW p \in ParserType, NEW q, q = FillError(p, 400)
    PROVE  q \in ParserType /\ q.done = p.done /\ q.error = 400
<1>1. 400 \in Nat
  OBVIOUS
<1> QED
  BY <1>1, Refused

\* The line of a size holds one byte.
LEMMA OneByte ==
    ASSUME NEW x, NEW s \in Text, Len(s) = 1, s[1] = x
    PROVE  s = <<x>>
<1> DEFINE t == <<x>>
<1>1. x \in Byte
  BY DEF Text
<1>2. t \in Text /\ Len(t) = 1 /\ t[1] = x
  BY <1>1 DEF Text
<1>3. \A i \in 1..Len(s) : s[i] = t[i]
  BY <1>2
<1> HIDE DEF t
<1>4. s = t
  BY <1>2, <1>3, SameText
<1> QED
  BY <1>4 DEF t

\* getChunkedSize between two chunks.
LEMMA SizeStage ==
    ASSUME NEW m, NEW w, Layout(m, w), Clean(m), NEW to \in 0..Len(w), NEW n,
           NEW p, NEW buf, Inside(m, w, p, buf, to, n), ~InChunk(p)
    PROVE  LET q == GetChunkedSize(p, buf)
               l == GetLine(q.p, q.buf)
           IN \/ /\ q.p.error = 0 /\ q.p.inChunk = FALSE
                 /\ ~HasLine(q.p, q.buf) /\ l.buf = <<>>
                 /\ Inside(m, w, l.p, <<>>, to, n)
              \/ q.p.error # 0 /\ Outcome(m, w, q.p, q.buf, to)
              \/ /\ q.p.error = 0 /\ q.p.inChunk = TRUE /\ q.p.len = 0
                 /\ Outcome(m, w, [q.p EXCEPT !.done = TRUE, !.line = <<>>], q.buf, to)
              \/ /\ q.p.error = 0 /\ q.p.inChunk = TRUE /\ q.p.len # 0
                 /\ Inside(m, w, q.p, q.buf, to, n) /\ Len(q.buf) < Len(buf)
<1> DEFINE a == At(m, n)
           all == p.line \o buf
           g == GetLine(p, buf)
           q == GetChunkedSize(p, buf)
           l == GetLine(q.p, q.buf)
           W == Len(p.written)
<1>1. p \in ParserType /\ p.error = 0 /\ p.done = FALSE
  BY DEF Inside
<1>2. /\ p.line \in Text /\ buf \in Text /\ p.written \in Text /\ p.size \in Int
      /\ p.written = Written(m, n)
      /\ Ends(p.line) = {} /\ \A i \in 1..n : Exact(m[i])
  BY DEF Inside, ParserType
<1>3. n \in 0..Len(m) /\ a <= to /\ all = Slice(w, a, to)
  BY DEF Inside, InChunk, ParserType
<1>4. m \in Seq(Frames) /\ Len(m) \in Nat /\ w \in Text /\ Len(w) \in Nat
  BY DEF Layout, Text
<1>5. /\ a \in Nat /\ w[a + 1] = IF n < Len(m) THEN m[n + 1].size ELSE "0"
  BY <1>3 DEF Layout
<1>6. to \in a..Len(w) /\ a \in 0..to /\ to \in Nat /\ n \in Nat
  BY <1>3, <1>4, <1>5
<1>7. /\ to < a + 3 => Ends(all) = {}
      /\ to >= a + 3 => 2 \in Ends(all) /\ \A e \in Ends(all) : 2 <= e
  <2> HIDE DEF all
  <2> QED
    BY <1>3, <1>6, SizeLine
<1>8. /\ all \in Text /\ Len(all) = to - a /\ Len(all) = Len(p.line) + Len(buf)
      /\ \A i \in 1..(to - a) : all[i] = w[a + i]
      /\ Len(p.line) \in Nat /\ Len(buf) \in Nat /\ W \in Nat
  <2>1. /\ all \in Text /\ Len(all) = Len(p.line) + Len(buf)
        /\ Len(p.line) \in Nat /\ Len(buf) \in Nat
    BY <1>2, Joined
  <2>2. Len(all) = to - a /\ \A i \in 1..(to - a) : all[i] = w[a + i]
    BY <1>3, <1>4, <1>6, SliceType
  <2>3. W \in Nat
    BY <1>2 DEF Text
  <2> QED
    BY <2>1, <2>2, <2>3
<1>9. p.size = W + 2 * n + (to - a)
  <2> DEFINE P == Len(p.line)
             B == Len(buf)
             Z == p.size
  <2>1. Z = W + 2 * n + P + B
    BY DEF Inside
  <2>2. W \in Nat /\ P \in Nat /\ B \in Nat /\ n \in Nat /\ P + B = to - a
    BY <1>6, <1>8
  <2> HIDE DEF W, P, B, Z
  <2>3. Z = W + 2 * n + (P + B)
    BY <2>1, <2>2
  <2>4. Z = W + 2 * n + (to - a)
    BY <2>2, <2>3
  <2> QED
    BY <2>4 DEF Z
<1>10. all \in Text
  BY <1>8
<1> HIDE DEF a, all, g, q, l
<1>11. CASE to < a + 3
  <2>1. Ends(all) = {}
    BY <1>7, <1>11
  <2>2. ~HasLine(p, buf) /\ g = Step([p EXCEPT !.line = all], <<>>)
    BY <1>1, <1>2, <2>1, LineMissing DEF all, g
  <2>3. q = g
    BY <2>2 DEF q, g, GetChunkedSize, InChunk
  <2>4. q.p = [p EXCEPT !.line = all] /\ q.buf = <<>>
    BY <2>2, <2>3 DEF Step
  <2>5. /\ q.p \in ParserType /\ q.p.line = all /\ q.p.len = p.len
        /\ q.p.inChunk = p.inChunk /\ q.p.size = p.size /\ q.p.done = p.done
        /\ q.p.error = p.error /\ q.p.written = p.written
    BY <1>1, <1>10, <2>4, WithLine
  <2>6. all \o <<>> = all /\ <<>> \in Text /\ Len(<<>>) = 0
    <3>1. all \in Seq(Byte)
      BY <1>10 DEF Text
    <3> QED
      BY <3>1, ConcatEmptySeq DEF Text
  <2>7. /\ ~HasLine(q.p, q.buf)
        /\ l = Step([q.p EXCEPT !.line = q.p.line \o q.buf], <<>>)
    <3>1. Ends(q.p.line \o q.buf) = {} /\ q.buf \in Text /\ q.p \in ParserType
      BY <2>1, <2>4, <2>5, <2>6
    <3> QED
      BY <3>1, LineMissing DEF l
  <2>8. l.p = [q.p EXCEPT !.line = all] /\ l.buf = <<>>
    BY <2>4, <2>5, <2>6, <2>7 DEF Step
  <2>9. /\ l.p \in ParserType /\ l.p.line = all
        /\ l.p.inChunk = q.p.inChunk /\ l.p.size = q.p.size /\ l.p.done = q.p.done
        /\ l.p.error = q.p.error /\ l.p.written = q.p.written
    <3>1. q.p \in ParserType
      BY <2>5
    <3> QED
      BY <1>10, <2>8, <3>1, WithLine
  <2>10. /\ l.p.inChunk = FALSE /\ l.p.size = p.size /\ l.p.done = FALSE
         /\ l.p.error = 0 /\ l.p.written = p.written
    BY <1>1, <2>5, <2>9 DEF InChunk, ParserType
  <2>11. l.p.size = Len(l.p.written) + 2 * n + Len(all) + Len(<<>>)
    <3>1. l.p.size = W + 2 * n + (to - a) /\ Len(l.p.written) = W
          /\ Len(all) = to - a /\ Len(<<>>) = 0
      BY <1>8, <1>9, <2>6, <2>10
    <3>2. \A u, v, y, z \in Nat : u + 2 * v + (y - z) = u + 2 * v + (y - z) + 0
      OBVIOUS
    <3>3. W + 2 * n + (to - a) = W + 2 * n + (to - a) + 0
      <4> HIDE DEF W
      <4> QED
        BY <1>5, <1>6, <1>8, <3>2
    <3> QED
      BY <3>1, <3>3
  <2>12. Inside(m, w, l.p, <<>>, to, n)
    BY <1>2, <1>3, <2>1, <2>6, <2>9, <2>10, <2>11 DEF Inside, a
  <2>13. q.p.error = 0 /\ q.p.inChunk = FALSE
    BY <1>1, <2>5 DEF InChunk, ParserType
  <2> QED
    BY <2>7, <2>8, <2>12, <2>13 DEF q, l
<1>12. CASE ~(to < a + 3)
  <2> DEFINE c == w[a + 1]
             rest == Slice(w, a + 3, to)
  <2>1. a + 3 <= to /\ a + 3 \in Nat /\ 2 \in Ends(all) /\ \A e \in Ends(all) : 2 <= e
    BY <1>5, <1>6, <1>7, <1>12
  <2>2. /\ HasLine(p, buf)
        /\ g = Step([p EXCEPT !.line = Slice(all, 0, 2 - 1)],
                    Slice(all, 2 + 1, Len(all)))
    BY <1>1, <1>2, <2>1, LineFound DEF all, g
  <2>3. Slice(all, 0, 1) = <<c>>
    <3>1. 1 \in 0..Len(all) /\ 0 \in 0..1 /\ 1 \in 1..(to - a)
      BY <1>5, <1>6, <1>8, <2>1
    <3>2. /\ Slice(all, 0, 1) \in Text /\ Len(Slice(all, 0, 1)) = 1 - 0
          /\ \A i \in 1..(1 - 0) : Slice(all, 0, 1)[i] = all[0 + i]
      BY <1>10, <3>1, SliceType
    <3>3. 1 - 0 = 1 /\ 1 \in 1..1 /\ 0 + 1 = 1
      OBVIOUS
    <3>4. Slice(all, 0, 1)[1] = c /\ Len(Slice(all, 0, 1)) = 1
      BY <1>8, <3>1, <3>2, <3>3
    <3> HIDE DEF c
    <3> QED
      BY <3>2, <3>4, OneByte
  <2>4. Slice(all, 3, Len(all)) = rest
    <3>1. /\ to - a \in 0..(to - a) /\ 3 \in 0..(to - a) /\ a + (to - a) = to
          /\ to \in 0..Len(w)
      BY <1>5, <1>6, <2>1
    <3>2. Slice(Slice(w, a, to), 3, to - a) = Slice(w, a + 3, a + (to - a))
      BY <1>4, <1>6, <3>1, SliceSlice
    <3> QED
      BY <1>3, <1>8, <3>1, <3>2
  <2> HIDE DEF c, rest
  <2>5. g.p = [p EXCEPT !.line = <<c>>] /\ g.buf = rest
    <3>1. 2 - 1 = 1 /\ 2 + 1 = 3
      OBVIOUS
    <3> QED
      BY <2>2, <2>3, <2>4, <3>1 DEF Step
  <2>6. <<c>> \in Text /\ Len(<<c>>) = 1
    <3>1. c \in Byte
      BY <1>4, <1>5, <1>6, <2>1 DEF c, Text
    <3> QED
      BY <3>1 DEF Text
  <2>7. /\ g.p \in ParserType /\ g.p.line = <<c>>
        /\ g.p.size = p.size /\ g.p.done = p.done
        /\ g.p.error = p.error /\ g.p.written = p.written
    <3> DEFINE x == <<c>>
    <3> HIDE DEF x
    <3>1. x \in Text /\ g.p = [p EXCEPT !.line = x]
      BY <2>5, <2>6 DEF x
    <3>2. /\ g.p \in ParserType /\ g.p.line = x
          /\ g.p.size = p.size /\ g.p.done = p.done
          /\ g.p.error = p.error /\ g.p.written = p.written
      BY <1>1, <3>1, WithLine
    <3> QED
      BY <3>2 DEF x
  <2>8. /\ rest \in Text /\ Len(rest) = to - (a + 3)
    <3>1. a + 3 \in 0..to /\ to \in 0..Len(w)
      BY <1>6, <2>1
    <3> QED
      BY <1>4, <3>1, SliceType DEF rest
  <2>9. <<c>> \in {<<e>> : e \in Digits} <=> c \in Digits
    OBVIOUS
  <2>10. q = IF c \notin Digits THEN Step(FillError(g.p, 400), g.buf)
             ELSE Step([g.p EXCEPT !.size = @ - (Len(g.p.line) + Len(CRLF)),
                                   !.len = Value[g.p.line[1]],
                                   !.line = <<>>, !.inChunk = TRUE], g.buf)
    <3>1. ~p.inChunk /\ HasLine(p, buf)
      BY <1>1, <2>2 DEF InChunk, ParserType
    <3>2. g.p.line \notin {<<e>> : e \in Digits} <=> c \notin Digits
      BY <2>7, <2>9
    <3> QED
      BY <3>1, <3>2, Zenon DEF q, g, GetChunkedSize
  <2>11. CASE c \notin Digits
    <3>1. q.p = FillError(g.p, 400) /\ q.buf = rest
      BY <2>5, <2>10, <2>11 DEF Step
    <3>2. q.p \in ParserType /\ q.p.done = g.p.done /\ q.p.error = 400
      <4>1. g.p \in ParserType
        BY <2>7
      <4> QED
        BY <3>1, <4>1, BadRequest
    <3>3. n < Len(m)
      BY <1>5, <2>11 DEF c, Digits
    <3>4. n + 1 \in 1..Len(m) /\ ~Exact(m[n + 1])
      <4>1. n + 1 \in 1..Len(m) /\ m[n + 1].size = c
        BY <1>4, <1>5, <1>6, <3>3 DEF c
      <4> QED
        BY <2>11, <4>1 DEF Exact
    <3>5. q.p.done = FALSE
      BY <1>1, <2>7, <3>2
    <3>6. Outcome(m, w, q.p, q.buf, to)
      BY <2>8, <3>1, <3>2, <3>4, <3>5 DEF Outcome
    <3> QED
      BY <3>2, <3>6 DEF q
  <2>12. CASE c \in Digits
    <3> DEFINE z == p.size - 3
               v == Value[c]
    <3>1. q.p = Opened(g.p, z, v) /\ q.buf = rest
      <4>1. Len(g.p.line) + Len(CRLF) = 3 /\ g.p.line[1] = c /\ g.p.size = p.size
        BY <2>6, <2>7, Texts
      <4> QED
        BY <2>5, <2>10, <2>12, <4>1 DEF Step, Opened
    <3>2. z \in Int /\ v \in Nat /\ (v = 0 => c = "0")
      BY <1>2, <2>12, Values
    <3> HIDE DEF z, v
    <3>7. /\ q.p \in ParserType
          /\ q.p.line = <<>> /\ InChunk(q.p) /\ q.p.len = v /\ q.p.size = z
          /\ q.p.written = g.p.written /\ q.p.done = g.p.done /\ q.p.error = g.p.error
      <4>1. g.p \in ParserType
        BY <2>7
      <4>2. v \in Int
        BY <3>2
      <4>3. z \in Int
        BY <3>2
      <4>4. q.p = Opened(g.p, z, v)
        BY <3>1
      <4> QED
        BY <4>1, <4>2, <4>3, <4>4, SizeRead
    <3>3. /\ q.p \in ParserType
          /\ q.p.line = <<>> /\ q.p.inChunk = TRUE /\ q.p.len = v /\ q.p.size = z
          /\ q.p.written = g.p.written /\ q.p.done = g.p.done /\ q.p.error = g.p.error
      BY <3>7 DEF InChunk
    <3>4. q.p.written = p.written /\ q.p.done = FALSE /\ q.p.error = 0
      BY <1>1, <2>7, <3>3
    <3>5. CASE n < Len(m)
      <4>1. n + 1 \in 1..Len(m) /\ m[n + 1].size = c
        BY <1>4, <1>5, <1>6, <3>5 DEF c
      <4>2. v # 0
        BY <3>2, <4>1 DEF Clean
      <4>3. q.p.line \o q.buf = rest /\ Ends(q.p.line) = {} /\ Len(q.p.line) = 0
        <5>1. rest \in Seq(Byte)
          BY <2>8 DEF Text
        <5>2. <<>> \o rest = rest
          BY <5>1, ConcatEmptySeq
        <5>3. Ends(<<>>) = {} /\ Len(<<>>) = 0
          BY DEF Ends
        <5> QED
          BY <3>1, <3>3, <5>2, <5>3
      <4>4. q.p.size = Len(q.p.written) + 2 * n + Len(q.p.line) + Len(q.buf)
        <5>1. \A y, e, f, h \in Nat :
                  (y + 2 * e + (f - h)) - 3 = y + 2 * e + 0 + (f - (h + 3))
          OBVIOUS
        <5>2. (W + 2 * n + (to - a)) - 3 = W + 2 * n + 0 + (to - (a + 3))
          <6> HIDE DEF W
          <6> QED
            BY <1>5, <1>6, <1>8, <5>1
        <5>3. q.p.size = (W + 2 * n + (to - a)) - 3
          BY <1>9, <3>3 DEF z
        <5>4. Len(q.p.written) = W /\ Len(q.buf) = to - (a + 3)
          BY <2>8, <3>1, <3>4
        <5> QED
          BY <4>3, <5>2, <5>3, <5>4
      <4>5. Len(q.buf) < Len(buf)
        <5>1. Len(p.line) < 2 + 1
          BY <1>2, <2>1, EndsBehind DEF all
        <5>2. Len(q.buf) = to - (a + 3) /\ Len(p.line) + Len(buf) = to - a
          BY <1>8, <2>8, <3>1
        <5> QED
          BY <1>5, <1>6, <1>8, <5>1, <5>2
      <4>6. Inside(m, w, q.p, q.buf, to, n)
        <5>1. q.p.len = Value[m[n + 1].size] /\ m[n + 1].size \in Digits
          BY <2>12, <3>3, <4>1 DEF v
        <5>2. q.p.line \o q.buf = Slice(w, At(m, n) + 3, to) /\ At(m, n) + 3 <= to
          BY <2>1, <4>3 DEF rest, a
        <5>3. q.buf \in Text
          BY <2>8, <3>1
        <5> QED
          BY <1>2, <1>3, <3>3, <3>4, <3>5, <4>3, <4>4, <5>1, <5>2, <5>3 DEF Inside
      <4> QED
        BY <3>3, <3>4, <4>2, <4>5, <4>6 DEF q
    <3>6. CASE ~(n < Len(m))
      <4>1. n = Len(m) /\ c = "0"
        BY <1>3, <1>4, <1>5, <1>6, <3>6 DEF c
      <4>2. v = 0
        BY <4>1 DEF v, Value, Digits
      <4> DEFINE t == [q.p EXCEPT !.done = TRUE, !.line = <<>>]
      <4>3. q.p \in ParserType
        BY <3>3
      <4>4. /\ t \in ParserType
            /\ t.done = TRUE /\ t.error = q.p.error /\ t.written = q.p.written
        BY <4>3, Ended
      <4> HIDE DEF t
      <4>5. t.error = 0 /\ t.written = Written(m, Len(m))
        BY <1>2, <3>4, <4>1, <4>4
      <4>6. q.buf = Slice(w, At(m, Len(m)) + 3, to) /\ At(m, Len(m)) + 3 <= to
            /\ q.buf \in Text
        BY <2>1, <2>8, <3>1, <4>1 DEF rest, a
      <4>7. \A i \in 1..Len(m) : Exact(m[i])
        BY <1>2, <4>1
      <4>8. Outcome(m, w, t, q.buf, to)
        BY <4>4, <4>5, <4>6, <4>7 DEF Outcome
      <4>9. q.p.error = 0 /\ q.p.inChunk = TRUE /\ q.p.len = 0
        BY <3>3, <3>4, <4>2
      <4> QED
        BY <4>8, <4>9 DEF t, q
    <3> QED
      BY <3>5, <3>6
  <2> QED
    BY <2>11, <2>12
<1> QED
  BY <1>11, <1>12

-----------------------------------------------------------------------------
(***************************************************************************)
(* The turns of the loop.                                                  *)
(***************************************************************************)
\* What a turn returns.
TurnType == [p : ParserType, buf : Text, more : BOOLEAN]

\* Where the loop stands: it goes on behind some frame, or it has returned.
Standing(m, w, s, to) ==
    IF s.more THEN \E n : Inside(m, w, s.p, s.buf, to, n)
    ELSE Outcome(m, w, s.p, s.buf, to)

\* A turn that returns.
LEMMA ReturnStands ==
    ASSUME NEW m, NEW w, NEW p, NEW buf, NEW to, Outcome(m, w, p, buf, to)
    PROVE  LET t == Return(p, buf)
           IN t \in TurnType /\ Standing(m, w, t, to) /\ ~t.more
<1>1. p \in ParserType /\ buf \in Text
  BY DEF Outcome
<1> QED
  BY <1>1 DEF Return, TurnType, Standing

\* A turn that goes on.
LEMMA TurnGoesOn ==
    ASSUME NEW m, NEW w, NEW p, NEW buf, NEW to, NEW n, Inside(m, w, p, buf, to, n)
    PROVE  LET t == [p |-> p, buf |-> buf, more |-> TRUE]
           IN t \in TurnType /\ Standing(m, w, t, to) /\ t.buf = buf
<1>1. p \in ParserType /\ buf \in Text
  BY DEF Inside
<1> QED
  BY <1>1 DEF TurnType, Standing

\* A turn that goes on has taken bytes from the buffer.
LEMMA TurnEffect ==
    ASSUME NEW m, NEW w, Layout(m, w), Clean(m), NEW to \in 0..Len(w), NEW n,
           NEW p, NEW buf, Inside(m, w, p, buf, to, n)
    PROVE  LET t == Turn(p, buf)
           IN /\ t \in TurnType
              /\ Standing(m, w, t, to)
              /\ t.more => Len(t.buf) < Len(buf)
<1> DEFINE q == GetChunkedSize(p, buf)
           l == GetLine(q.p, q.buf)
           x == WriteChunk(l.p)
           t == Turn(p, buf)
           Goal == t \in TurnType /\ Standing(m, w, t, to) /\ (t.more => Len(t.buf) < Len(buf))
<1> SUFFICES Goal
  OBVIOUS
<1>1. ASSUME NEW e, NEW b, t = Return(e, b), Outcome(m, w, e, b, to)
      PROVE  Goal
  <2> HIDE DEF t
  <2> QED
    BY <1>1, ReturnStands
<1>2. ASSUME NEW k, Inside(m, w, q.p, q.buf, to, k), InChunk(q.p), q.p.len # 0,
             buf # <<>>, Len(q.buf) <= Len(buf)
      PROVE  Goal
  <2>1. q.p.error = 0 /\ q.p.inChunk = TRUE
    BY <1>2 DEF Inside, InChunk
  <2>2. \/ ~HasLine(q.p, q.buf) /\ l.buf = <<>> /\ Inside(m, w, l.p, <<>>, to, k)
        \/ HasLine(q.p, q.buf) /\ x.error # 0 /\ Outcome(m, w, x, l.buf, to)
        \/ /\ HasLine(q.p, q.buf) /\ x.error = 0
           /\ Inside(m, w, x, l.buf, to, k + 1)
           /\ Len(l.buf) < Len(q.buf)
    <3> HIDE DEF q
    <3> QED
      BY <1>2, <2>1, DataStage
  <2>3. t = IF ~HasLine(q.p, q.buf) THEN Return(CheckSizes(l.p), l.buf)
            ELSE IF x.error # 0 THEN Return(x, l.buf)
            ELSE [p |-> x, buf |-> l.buf, more |-> TRUE]
    BY <1>2, <2>1 DEF Turn
  <2> HIDE DEF q, l, x, t
  <2>4. CASE ~HasLine(q.p, q.buf)
    <3>1. t = Return(CheckSizes(l.p), <<>>) /\ Inside(m, w, l.p, <<>>, to, k)
      BY <2>2, <2>3, <2>4
    <3>2. Outcome(m, w, CheckSizes(l.p), <<>>, to)
      BY <3>1, CheckSizesOutcome
    <3> QED
      BY <1>1, <3>1, <3>2
  <2>5. CASE HasLine(q.p, q.buf) /\ x.error # 0
    BY <1>1, <2>2, <2>3, <2>5
  <2>6. CASE HasLine(q.p, q.buf) /\ x.error = 0
    <3>1. /\ t = [p |-> x, buf |-> l.buf, more |-> TRUE]
          /\ Inside(m, w, x, l.buf, to, k + 1) /\ Len(l.buf) < Len(q.buf)
      BY <2>2, <2>3, <2>6
    <3>2. t \in TurnType /\ Standing(m, w, t, to) /\ t.buf = l.buf
      BY <3>1, TurnGoesOn
    <3>3. Len(l.buf) \in Nat /\ Len(q.buf) \in Nat /\ Len(buf) \in Nat
      <4>1. l.buf \in Text /\ q.buf \in Text /\ buf \in Text
        BY <1>2, <3>1 DEF Inside
      <4> QED
        BY <4>1 DEF Text
    <3> QED
      BY <1>2, <3>1, <3>2, <3>3
  <2> QED
    BY <2>4, <2>5, <2>6
<1>3. CASE buf = <<>>
  <2>1. t = Return(CheckSizes(p), <<>>)
    BY <1>3 DEF Turn
  <2>2. Outcome(m, w, CheckSizes(p), <<>>, to)
    BY <1>3, CheckSizesOutcome
  <2> QED
    BY <1>1, <2>1, <2>2
<1>4. CASE buf # <<>> /\ InChunk(p)
  <2>1. q = Step(p, buf)
    BY <1>4 DEF GetChunkedSize, InChunk
  <2>2. q.p = p /\ q.buf = buf
    BY <2>1 DEF Step
  <2>3. p.len # 0
    <3>1. n + 1 \in 1..Len(m) /\ m[n + 1].size \in Digits /\ p.len = Value[m[n + 1].size]
      <4>1. Len(m) \in Nat
        BY DEF Layout
      <4> QED
        BY <1>4, <4>1 DEF Inside, InChunk
    <3> QED
      BY <3>1, Values DEF Clean
  <2>4. Len(q.buf) <= Len(buf)
    <3>1. buf \in Seq(Byte)
      BY DEF Inside, Text
    <3> QED
      BY <2>2, <3>1
  <2> QED
    <3> HIDE DEF q, l, x, t, Goal
    <3> QED
      BY <1>2, <1>4, <2>2, <2>3, <2>4
<1>5. CASE buf # <<>> /\ ~InChunk(p)
  <2>1. \/ /\ q.p.error = 0 /\ q.p.inChunk = FALSE
           /\ ~HasLine(q.p, q.buf) /\ l.buf = <<>>
           /\ Inside(m, w, l.p, <<>>, to, n)
        \/ q.p.error # 0 /\ Outcome(m, w, q.p, q.buf, to)
        \/ /\ q.p.error = 0 /\ q.p.inChunk = TRUE /\ q.p.len = 0
           /\ Outcome(m, w, [q.p EXCEPT !.done = TRUE, !.line = <<>>], q.buf, to)
        \/ /\ q.p.error = 0 /\ q.p.inChunk = TRUE /\ q.p.len # 0
           /\ Inside(m, w, q.p, q.buf, to, n) /\ Len(q.buf) < Len(buf)
    BY <1>5, SizeStage
  <2>2. CASE /\ q.p.error = 0 /\ q.p.inChunk = FALSE
             /\ ~HasLine(q.p, q.buf) /\ l.buf = <<>>
             /\ Inside(m, w, l.p, <<>>, to, n)
    <3>1. t = Return(CheckSizes(l.p), <<>>)
      BY <1>5, <2>2 DEF Turn
    <3>2. Outcome(m, w, CheckSizes(l.p), <<>>, to)
      <4> HIDE DEF l
      <4> QED
        BY <2>2, CheckSizesOutcome
    <3> QED
      <4> HIDE DEF q, l, x, t, Goal
      <4> QED
        BY <1>1, <3>1, <3>2
  <2>3. CASE q.p.error # 0 /\ Outcome(m, w, q.p, q.buf, to)
    <3>1. t = Return(q.p, q.buf)
      BY <1>5, <2>3 DEF Turn
    <3> QED
      <4> HIDE DEF q, l, x, t, Goal
      <4> QED
        BY <1>1, <2>3, <3>1
  <2>4. CASE /\ q.p.error = 0 /\ q.p.inChunk = TRUE /\ q.p.len = 0
             /\ Outcome(m, w, [q.p EXCEPT !.done = TRUE, !.line = <<>>], q.buf, to)
    <3> DEFINE e == [q.p EXCEPT !.done = TRUE, !.line = <<>>]
    <3>1. t = Return(e, q.buf) /\ Outcome(m, w, e, q.buf, to)
      BY <1>5, <2>4 DEF Turn
    <3> QED
      <4> HIDE DEF e, q, l, x, t, Goal
      <4> QED
        BY <1>1, <3>1
  <2>5. CASE /\ q.p.error = 0 /\ q.p.inChunk = TRUE /\ q.p.len # 0
             /\ Inside(m, w, q.p, q.buf, to, n) /\ Len(q.buf) < Len(buf)
    <3>1. InChunk(q.p)
      BY <2>5 DEF InChunk
    <3>2. Len(q.buf) <= Len(buf)
      <4>1. buf \in Seq(Byte) /\ q.buf \in Seq(Byte)
        BY <2>5 DEF Inside, Text
      <4> HIDE DEF q
      <4> QED
        BY <2>5, <4>1
    <3> QED
      <4> HIDE DEF q, l, x, t, Goal
      <4> QED
        BY <1>2, <1>5, <2>5, <3>1, <3>2
  <2> HIDE DEF q, l, Goal
  <2> QED
    BY <2>1, <2>2, <2>3, <2>4, <2>5
<1> QED
  BY <1>3, <1>4, <1>5

\* The loop ends: each turn that goes on leaves less in the buffer.
LEMMA ParseChunksOutcome ==
    ASSUME NEW m, NEW w, Layout(m, w), Clean(m), NEW to \in 0..Len(w), NEW n,
           NEW p, NEW buf, Inside(m, w, p, buf, to, n)
    PROVE  LET r == ParseChunks(p, buf) IN Outcome(m, w, r.p, r.buf, to)
<1> DEFINE N == (Len(buf) + 1)
           b == [p |-> p, buf |-> buf, more |-> TRUE]
           T == {s \in TurnType : Standing(m, w, s, to)}
           Go(s) == IF s.more THEN Turn(s.p, s.buf) ELSE s
           F(f) == [k \in 0..N |-> IF k = 0 THEN b ELSE Go(f[k - 1])]
           R == CHOOSE f : f = F(f)
           g == [v \in T \X (1..N) |-> Go(v[1])]
<1>1. \A s \in T : /\ Go(s) \in T
                   /\ Go(s).more => s.more /\ Len(Go(s).buf) < Len(s.buf)
  <2> SUFFICES ASSUME NEW s \in T
               PROVE  /\ Go(s) \in T
                      /\ Go(s).more => s.more /\ Len(Go(s).buf) < Len(s.buf)
    OBVIOUS
  <2>1. CASE s.more
    <3>1. PICK k : Inside(m, w, s.p, s.buf, to, k)
      BY <2>1 DEF Standing
    <3>2. /\ Turn(s.p, s.buf) \in TurnType
          /\ Standing(m, w, Turn(s.p, s.buf), to)
          /\ Turn(s.p, s.buf).more => Len(Turn(s.p, s.buf).buf) < Len(s.buf)
      BY <3>1, TurnEffect
    <3> QED
      BY <2>1, <3>2
  <2>2. CASE ~s.more
    BY <2>2
  <2> QED
    BY <2>1, <2>2
<1>2. b \in T /\ b.buf = buf
  <2>1. b \in TurnType /\ Standing(m, w, b, to) /\ b.buf = buf
    BY TurnGoesOn
  <2> HIDE DEF b
  <2> QED
    BY <2>1
<1>3. Len(buf) \in Nat /\ N \in Nat /\ N \in 0..N /\ N = Len(buf) + 1
  <2>1. Len(buf) \in Nat
    BY DEF Inside, Text
  <2> QED
    BY <2>1
<1>4. \A s \in T : Len(s.buf) \in Nat
  BY DEF TurnType, Text
<1>5. \A s \in T : s.more \/ Outcome(m, w, s.p, s.buf, to)
  BY DEF Standing
<1> HIDE DEF Go, N, b, T
<1>6. \E f : f = F(f)
  <2>1. g \in [T \X (1..N) -> T]
    BY <1>1
  <2>2. PICK f : Iteration(f, T, N, b, g)
    <3> HIDE DEF g
    <3> QED
      BY <1>2, <1>3, <2>1, Iterates
  <2>3. \A k \in 1..N : g[<<f[k - 1], k>>] = Go(f[k - 1])
    BY <1>3, <2>2 DEF Iteration
  <2> HIDE DEF g
  <2>4. \A k \in 0..N : f[k] = IF k = 0 THEN b ELSE Go(f[k - 1])
    <3>1. \A k \in 0..N : k = 0 \/ k \in 1..N
      BY <1>3
    <3> QED
      BY <2>2, <2>3, <3>1 DEF Iteration
  <2>5. f = F(f)
    BY <2>2, <2>4 DEF Iteration
  <2> QED
    BY <2>5
<1>7. R = F(R)
  BY <1>6
<1>8. ParseChunks(p, buf) = R[N]
  BY DEF ParseChunks, Go, N, b
<1>9. R[0] = b /\ \A k \in 1..N : R[k] = Go(R[k - 1])
  <2> HIDE DEF R
  <2> QED
    BY <1>3, <1>7
<1> HIDE DEF R
<1>10. \A k \in 0..N : R[k] \in T
  <2>1. R[0] \in T /\ \A k \in 1..N : R[k - 1] \in T => R[k] \in T
    BY <1>1, <1>2, <1>9
  <2> QED
    BY <1>3, <2>1, Stays
<1> DEFINE Bad == {k \in 0..N : R[k].more /\ ~(Len(R[k].buf) <= Len(buf) - k)}
<1>11. Bad = {}
  <2>1. Bad \in SUBSET (0..N) /\ 0 \notin Bad
    BY <1>2, <1>3, <1>9
  <2>2. ASSUME NEW k \in 1..N, k \in Bad
        PROVE  k - 1 \in Bad
    <3>1. k - 1 \in 0..N /\ k \in 0..N /\ k \in Nat
      BY <1>3
    <3>2. /\ R[k - 1] \in T /\ R[k] \in T /\ R[k] = Go(R[k - 1])
          /\ R[k].more /\ ~(Len(R[k].buf) <= Len(buf) - k)
      BY <1>9, <1>10, <2>2, <3>1
    <3>3. R[k - 1].more /\ Len(R[k].buf) < Len(R[k - 1].buf)
      BY <1>1, <3>2
    <3>4. Len(R[k].buf) \in Nat /\ Len(R[k - 1].buf) \in Nat
      BY <1>4, <3>2
    <3>5. \A u, v, y, z \in Nat : ~(u <= y - z) /\ u < v => ~(v <= y - (z - 1))
      OBVIOUS
    <3>6. ~(Len(R[k - 1].buf) <= Len(buf) - (k - 1))
      BY <1>3, <3>1, <3>2, <3>3, <3>4, <3>5
    <3> QED
      BY <3>1, <3>3, <3>6
  <2>3. \A k \in 1..N : k \in Bad => k - 1 \in Bad
    BY <2>2
  <2> HIDE DEF Bad
  <2> QED
    BY <1>3, <2>1, <2>3, NoFirst
<1>12. ~R[N].more
  <2> SUFFICES ASSUME R[N].more PROVE FALSE
    OBVIOUS
  <2>1. Len(R[N].buf) <= Len(buf) - N /\ Len(R[N].buf) \in Nat
    BY <1>3, <1>4, <1>10, <1>11
  <2> QED
    BY <1>3, <2>1
<1> QED
  BY <1>3, <1>5, <1>8, <1>10, <1>12

-----------------------------------------------------------------------------
(***************************************************************************)
(* A read.                                                                 *)
(***************************************************************************)
\* The fields of a parser whose counter is raised.
LEMMA Counted ==
    ASSUME NEW p \in ParserType, NEW z \in Int, NEW q, q = [p EXCEPT !.size = z]
    PROVE  /\ q \in ParserType
           /\ q.line = p.line /\ q.len = p.len /\ q.inChunk = p.inChunk
           /\ q.size = z /\ q.done = p.done /\ q.error = p.error
           /\ q.written = p.written
BY DEF ParserType

\* The bytes of a read go on where the line that is stashed ends.
LEMMA ReadMore ==
    ASSUME NEW m, NEW w, Layout(m, w), NEW to \in 0..Len(w), NEW more \in to..Len(w),
           NEW n, NEW p, Inside(m, w, p, <<>>, to, n),
           NEW c, c = Slice(w, to, more),
           NEW z, z = p.size + Len(c), NEW q, q = [p EXCEPT !.size = z]
    PROVE  Inside(m, w, q, c, more, n)
<1>1. /\ p \in ParserType /\ p.line \in Text /\ p.size \in Int /\ p.written \in Text
      /\ p.error = 0 /\ p.done = FALSE /\ n \in 0..Len(m) /\ Ends(p.line) = {}
      /\ p.written = Written(m, n)
      /\ \A i \in 1..n : Exact(m[i])
  BY DEF Inside, ParserType
<1>2. w \in Text /\ Len(w) \in Nat /\ Len(m) \in Nat /\ At(m, n) \in Nat
  BY <1>1 DEF Layout, Text
<1>3. to \in 0..more /\ more \in 0..Len(w) /\ to \in Nat /\ more \in Nat
  BY <1>2
<1>4. c \in Text /\ Len(c) = more - to /\ Len(c) \in Nat
  BY <1>2, <1>3, SliceType
<1>5. p.line \o <<>> = p.line /\ Len(<<>>) = 0
  <2>1. p.line \in Seq(Byte)
    BY <1>1 DEF Text
  <2> QED
    BY <2>1, ConcatEmptySeq
<1>6. \A a \in Nat : a <= to /\ p.line = Slice(w, a, to) =>
          a <= more /\ p.line \o c = Slice(w, a, more)
  <2> SUFFICES ASSUME NEW a \in Nat, a <= to, p.line = Slice(w, a, to)
               PROVE  a <= more /\ p.line \o c = Slice(w, a, more)
    OBVIOUS
  <2>1. a \in 0..to /\ a <= more
    BY <1>3
  <2>2. Slice(w, a, to) \o Slice(w, to, more) = Slice(w, a, more)
    BY <1>2, <1>3, <2>1, SliceJoin
  <2> QED
    BY <2>1, <2>2
<1>7. z \in Int
  BY <1>1, <1>4
<1>8. z = Len(p.written) + 2 * n + Len(p.line) + Len(c)
  <2> DEFINE P == Len(p.line)
             W == Len(p.written)
             C == Len(c)
             S == p.size
  <2>1. S = W + 2 * n + P + Len(<<>>)
    BY DEF Inside
  <2>2. P \in Nat /\ W \in Nat /\ C \in Nat /\ n \in Nat
    BY <1>1, <1>2, <1>4 DEF Text
  <2>3. S = W + 2 * n + P + 0
    BY <1>5, <2>1
  <2> HIDE DEF P, W, C, S
  <2>4. S + C = W + 2 * n + P + C
    BY <2>2, <2>3
  <2> QED
    BY <2>4 DEF P, W, C, S
<1>9. /\ q \in ParserType
      /\ q.line = p.line /\ q.len = p.len /\ q.inChunk = p.inChunk
      /\ q.size = z /\ q.done = p.done /\ q.error = p.error
      /\ q.written = p.written
  <2>1. p \in ParserType
    BY <1>1
  <2> QED
    BY <1>7, <2>1, Counted
<1>10. q.size = Len(q.written) + 2 * n + Len(q.line) + Len(c)
  BY <1>8, <1>9
<1>11. CASE InChunk(p)
  <2>1. /\ n < Len(m) /\ m[n + 1].size \in Digits /\ p.len = Value[m[n + 1].size]
        /\ At(m, n) + 3 <= to /\ p.line \o <<>> = Slice(w, At(m, n) + 3, to)
    BY <1>11 DEF Inside, InChunk
  <2>2. At(m, n) + 3 \in Nat
    BY <1>2
  <2>3. At(m, n) + 3 <= more /\ q.line \o c = Slice(w, At(m, n) + 3, more)
    BY <1>5, <1>6, <1>9, <2>1, <2>2
  <2>4. q.inChunk = TRUE /\ q.len = Value[m[n + 1].size]
    BY <1>9, <1>11, <2>1 DEF InChunk
  <2> QED
    BY <1>1, <1>4, <1>9, <1>10, <2>1, <2>3, <2>4 DEF Inside
<1>12. CASE ~InChunk(p)
  <2>1. At(m, n) <= to /\ p.line \o <<>> = Slice(w, At(m, n), to)
    BY <1>1, <1>12 DEF Inside, InChunk, ParserType
  <2>2. At(m, n) <= more /\ q.line \o c = Slice(w, At(m, n), more)
    BY <1>2, <1>5, <1>6, <1>9, <2>1
  <2>3. q.inChunk = FALSE
    BY <1>1, <1>9, <1>12 DEF InChunk, ParserType
  <2> QED
    BY <1>1, <1>4, <1>9, <1>10, <2>2, <2>3 DEF Inside
<1> QED
  BY <1>11, <1>12

\* The bytes sent so far have been taken as the message has them.
ChunkedInv ==
    /\ message \in Messages
    /\ \E f \in Followers : wire = (Encode(message) \o LastChunk) \o f
    /\ sent \in 0..Len(wire)
    /\ Outcome(message, wire, parser, buffer, sent)

\* What the wire of a message is.
LEMMA WireFacts ==
    ASSUME OnlyClean, message \in Messages,
           \E f \in Followers : wire = (Encode(message) \o LastChunk) \o f
    PROVE  /\ Layout(message, wire)
           /\ Clean(message)
           /\ Len(Encode(message)) = At(message, Len(message))
           /\ Data = Written(message, Len(message))
           /\ DOMAIN message = 1..Len(message)
<1>1. PICK f \in Followers : wire = (Encode(message) \o LastChunk) \o f
  OBVIOUS
<1>2. /\ Layout(message, wire)
      /\ Len(Encode(message)) = At(message, Len(message))
      /\ FlattenSeq([i \in DOMAIN message |-> message[i].data])
         = Written(message, Len(message))
  BY <1>1, WireLayout
<1>3. DOMAIN message = 1..Len(message)
  BY <1>2 DEF Layout
<1>4. Clean(message)
  BY DEF OnlyClean
<1> QED
  BY <1>2, <1>3, <1>4 DEF Data

\* Before the first read.
LEMMA InitInside ==
    ASSUME NEW m, NEW w, Layout(m, w)
    PROVE  Inside(m, w, NewParser, <<>>, 0, 0)
<1> DEFINE nil == <<>>
           new(x) == [line |-> x, len |-> 0, inChunk |-> FALSE, size |-> 0,
                      done |-> FALSE, error |-> 0, written |-> x]
<1>1. nil \in Text /\ Ends(nil) = {} /\ Len(nil) = 0 /\ nil \o nil = nil
  <2>1. nil \in Seq(Byte)
    OBVIOUS
  <2> QED
    BY <2>1, ConcatEmptySeq DEF Text, Ends
<1>2. w \in Text /\ Len(w) \in Nat /\ 0 \in 0..Len(w) /\ 0 \in 0..0 /\ Len(m) \in Nat
  BY DEF Layout, Text
<1>3. Slice(w, 0, 0) = nil
  <2>1. Slice(w, 0, 0) \in Text /\ Len(Slice(w, 0, 0)) = 0 - 0
    BY <1>2, SliceType
  <2>2. Len(Slice(w, 0, 0)) = Len(nil) /\ \A i \in 1..Len(Slice(w, 0, 0)) : FALSE
    BY <1>1, <2>1
  <2> HIDE DEF nil
  <2> QED
    BY <1>1, <2>1, <2>2, SameText
<1>4. At(m, 0) = 0 /\ Written(m, 0) = nil
  BY DEF Layout
<1>5. \A x \in Text :
          /\ new(x) \in ParserType
          /\ new(x).line = x /\ new(x).inChunk = FALSE /\ new(x).size = 0
          /\ new(x).done = FALSE /\ new(x).error = 0 /\ new(x).written = x
  BY DEF ParserType
<1>6. NewParser = new(nil)
  BY DEF NewParser
<1> HIDE DEF nil, new
<1>7. Inside(m, w, new(nil), nil, 0, 0)
  <2>1. 0 \in 0..Len(m) /\ 0 = 0 + 2 * 0 + 0 + 0 /\ 0 <= 0 /\ 1..0 = {}
    BY <1>2
  <2> QED
    BY <1>1, <1>3, <1>4, <1>5, <2>1 DEF Inside
<1> QED
  BY <1>6, <1>7 DEF nil

\* The invariant holds, and each read keeps it.
THEOREM ChunkedInvAlways ==
    ASSUME OnlyClean
    PROVE  Spec => []ChunkedInv
<1>1. Init => ChunkedInv
  <2> SUFFICES ASSUME Init PROVE ChunkedInv
    OBVIOUS
  <2>1. /\ message \in Messages /\ sent = 0 /\ parser = NewParser /\ buffer = <<>>
        /\ \E f \in Followers : wire = (Encode(message) \o LastChunk) \o f
    BY DEF Init
  <2>2. Layout(message, wire)
    BY <2>1, WireFacts
  <2>3. Inside(message, wire, NewParser, <<>>, 0, 0)
    BY <2>2, InitInside
  <2>4. Outcome(message, wire, parser, buffer, sent)
    <3>1. /\ NewParser \in ParserType /\ <<>> \in Text /\ 0 \in 0..Len(message)
      BY <2>3 DEF Inside
    <3> QED
      BY <2>1, <2>3, <3>1 DEF Outcome
  <2>5. sent \in 0..Len(wire)
    BY <2>1, <2>2 DEF Layout, Text
  <2> QED
    BY <2>1, <2>4, <2>5 DEF ChunkedInv
<1>2. ChunkedInv /\ [Next]_vars => ChunkedInv'
  <2> SUFFICES ASSUME ChunkedInv, [Next]_vars PROVE ChunkedInv'
    OBVIOUS
  <2>1. CASE Read
    <3>1. /\ message \in Messages /\ sent \in 0..Len(wire)
          /\ \E f \in Followers : wire = (Encode(message) \o LastChunk) \o f
          /\ Outcome(message, wire, parser, buffer, sent)
          /\ message' = message /\ wire' = wire
      BY <2>1 DEF ChunkedInv, Read
    <3>2. Layout(message, wire) /\ Clean(message)
      BY <3>1, WireFacts
    <3>3. Len(wire) \in Nat /\ wire \in Text
      BY <3>2 DEF Layout, Text
    <3>4. buffer = <<>>
      BY <2>1, <3>1 DEF Read, Outcome
    <3>5. PICK n \in 0..Len(message) : Inside(message, wire, parser, <<>>, sent, n)
      BY <2>1, <3>1 DEF Read, Outcome
    <3>6. PICK k \in 1..(Len(wire) - sent) :
              LET r == ParseChunked(parser, buffer \o SubSeq(wire, sent + 1, sent + k))
              IN sent' = sent + k /\ parser' = r.p /\ buffer' = r.buf
      BY <2>1 DEF Read
    <3> DEFINE to == sent + k
               c == Slice(wire, sent, to)
               q == [parser EXCEPT !.size = @ + Len(c)]
               r == ParseChunks(q, c)
    <3>7. to \in sent..Len(wire) /\ to \in 0..Len(wire) /\ sent \in 0..to
      BY <3>1, <3>3
    <3>8. buffer \o SubSeq(wire, sent + 1, sent + k) = c
      <4>1. c \in Text
        BY <3>3, <3>7, SliceType
      <4>2. c \in Seq(Byte)
        BY <4>1 DEF Text
      <4>3. <<>> \o c = c
        BY <4>2, ConcatEmptySeq
      <4> QED
        BY <3>4, <4>3 DEF Slice
    <3>9. sent' = to /\ parser' = r.p /\ buffer' = r.buf
      BY <3>6, <3>8 DEF ParseChunked
    <3> HIDE DEF to, c, r
    <3>10. Inside(message, wire, q, c, to, n)
      <4> HIDE DEF q
      <4> DEFINE z == parser.size + Len(c)
      <4>1. c = Slice(wire, sent, to) /\ z = parser.size + Len(c)
            /\ q = [parser EXCEPT !.size = z]
        BY DEF c, q
      <4> HIDE DEF z
      <4> QED
        BY <3>1, <3>2, <3>5, <3>7, <4>1, ReadMore
    <3>11. Outcome(message, wire, r.p, r.buf, to)
      <4> HIDE DEF q
      <4> QED
        BY <3>2, <3>7, <3>10, ParseChunksOutcome DEF r
    <3> QED
      BY <3>1, <3>7, <3>9, <3>11 DEF ChunkedInv
  <2>2. CASE UNCHANGED vars
    BY <2>2 DEF vars, ChunkedInv
  <2> QED
    BY <2>1, <2>2 DEF Next
<1> QED
  BY <1>1, <1>2, PTL DEF Spec

-----------------------------------------------------------------------------
(***************************************************************************)
(* The properties.                                                         *)
(***************************************************************************)
\* No frame begins behind the terminating chunk.
LEMMA AtGrows ==
    ASSUME NEW m, NEW w, Layout(m, w), NEW n \in 0..Len(m)
    PROVE  At(m, n) <= At(m, Len(m))
<1> DEFINE N == Len(m)
           Bad == {k \in 0..N : ~(At(m, N - k) <= At(m, N))}
<1>1. N \in Nat /\ N - 0 = N /\ \A k \in 0..N : At(m, k) \in Nat
  BY DEF Layout
<1>2. Bad \in SUBSET (0..N) /\ 0 \notin Bad
  <2>1. At(m, N) <= At(m, N)
    <3>1. At(m, N) \in Nat
      BY <1>1
    <3> QED
      BY <3>1
  <2> QED
    BY <1>1, <2>1
<1>3. ASSUME NEW k \in 1..N, k \in Bad
      PROVE  k - 1 \in Bad
  <2> DEFINE i == N - k
             j == N - (k - 1)
  <2>1. j \in 1..N /\ i \in 0..N /\ j \in 0..N /\ j - 1 = i /\ k - 1 \in 0..N
    BY <1>1
  <2>2. /\ Len(m[j].data) \in Nat /\ At(m, j) = At(m, i) + (Len(m[j].data) + 5)
        /\ At(m, i) \in Nat /\ At(m, j) \in Nat /\ At(m, N) \in Nat
    <3>1. Len(m[j].data) \in Nat /\ At(m, j) = At(m, j - 1) + (Len(m[j].data) + 5)
      <4> HIDE DEF j
      <4> QED
        BY <2>1 DEF Layout
    <3> HIDE DEF i, j
    <3> QED
      BY <1>1, <2>1, <3>1
  <2>3. ~(At(m, i) <= At(m, N))
    BY <1>3
  <2>4. ~(At(m, j) <= At(m, N))
    <3>1. \A u, v, y, z \in Nat : v = u + (z + 5) /\ ~(u <= y) => ~(v <= y)
      OBVIOUS
    <3> HIDE DEF i, j, N
    <3> QED
      BY <2>2, <2>3, <3>1, Zenon
  <2> QED
    BY <2>1, <2>4
<1>4. Bad = {}
  <2>1. \A k \in 1..N : k \in Bad => k - 1 \in Bad
    BY <1>3
  <2> HIDE DEF Bad, N
  <2> QED
    BY <1>1, <1>2, <2>1, NoFirst
<1>5. N - n \in 0..N /\ N - (N - n) = n
  BY <1>1
<1> QED
  BY <1>4, <1>5

\* A body that is taken for complete is the one that was sent, byte for byte,
\* and what the peer sent behind it is left (Request::_parseChunked,
\* Request::parseInput): for all messages, wherever the reads cut them.
THEOREM AcceptedIsExactAlways ==
    ASSUME OnlyClean
    PROVE  Spec => []AcceptedIsExact
<1>1. ChunkedInv => AcceptedIsExact
  <2> SUFFICES ASSUME ChunkedInv, parser.done
               PROVE  /\ \A i \in DOMAIN message : Exact(message[i])
                      /\ parser.written = Data
                      /\ buffer = SubSeq(wire, BodyEnd + 1, sent)
    BY DEF AcceptedIsExact
  <2>1. /\ Len(Encode(message)) = At(message, Len(message))
        /\ Data = Written(message, Len(message))
        /\ DOMAIN message = 1..Len(message)
    BY WireFacts DEF ChunkedInv
  <2>2. /\ \A i \in 1..Len(message) : Exact(message[i])
        /\ parser.written = Written(message, Len(message))
        /\ buffer = Slice(wire, At(message, Len(message)) + 3, sent)
    BY DEF ChunkedInv, Outcome, Inside
  <2>3. BodyEnd = At(message, Len(message)) + 3
    BY <2>1, Texts DEF BodyEnd
  <2> QED
    BY <2>1, <2>2, <2>3 DEF Slice
<1> QED
  BY <1>1, ChunkedInvAlways, PTL

\* A body with the right sizes that has arrived is complete, or refused as too
\* large: no cut between two reads makes getLine lose or join a line.
THEOREM WellFormedAcceptedAlways ==
    ASSUME OnlyClean
    PROVE  Spec => []WellFormedAccepted
<1>1. ChunkedInv => WellFormedAccepted
  <2> DEFINE N == Len(message)
  <2> SUFFICES ASSUME ChunkedInv, \A i \in DOMAIN message : Exact(message[i]),
                      sent >= BodyEnd, ~parser.done, parser.error # 413
               PROVE  FALSE
    BY DEF WellFormedAccepted
  <2>1. /\ Layout(message, wire) /\ Clean(message)
        /\ Len(Encode(message)) = At(message, N)
        /\ DOMAIN message = 1..N
    BY WireFacts DEF ChunkedInv
  <2>2. sent >= At(message, N) + 3
    <3>1. BodyEnd = At(message, N) + 3
      BY <2>1, Texts DEF BodyEnd
    <3> QED
      BY <3>1
  <2>3. PICK n \in 0..N : Inside(message, wire, parser, <<>>, sent, n)
    <3>1. Outcome(message, wire, parser, buffer, sent)
      BY DEF ChunkedInv
    <3>2. \A i \in 1..N : Exact(message[i])
      BY <2>1
    <3> HIDE DEF N
    <3> QED
      BY <3>1, <3>2 DEF Outcome, N
  <2>4. /\ Len(wire) \in Nat /\ wire \in Text /\ N \in Nat /\ sent \in 0..Len(wire)
        /\ At(message, n) \in Nat /\ At(message, N) \in Nat
    <3>1. wire \in Text /\ message \in Seq(Frames)
      BY <2>1 DEF Layout
    <3>2. Len(wire) \in Nat /\ N \in Nat /\ sent \in 0..Len(wire)
      BY <3>1 DEF Text, ChunkedInv
    <3> QED
      BY <2>1, <3>1, <3>2 DEF Layout
  <2>5. parser.line \o <<>> = parser.line /\ Ends(parser.line) = {}
    <3>1. parser.line \in Seq(Byte) /\ Ends(parser.line) = {}
      BY <2>3 DEF Inside, ParserType, Text
    <3> QED
      BY <3>1, ConcatEmptySeq
  <2>6. CASE InChunk(parser)
    <3>1. /\ n < N /\ At(message, n) + 3 <= sent
          /\ parser.line = Slice(wire, At(message, n) + 3, sent)
      BY <2>3, <2>5, <2>6 DEF Inside, InChunk
    <3> DEFINE k == n + 1
    <3>2. k \in 1..N /\ k \in 0..N /\ k - 1 = n
      BY <2>4, <3>1
    <3>3. At(message, k) <= At(message, N) /\ At(message, k) \in Nat
      <4> HIDE DEF k
      <4>1. At(message, k) <= At(message, N)
        BY <2>1, <3>2, AtGrows
      <4>2. At(message, k) \in Nat
        BY <2>1, <3>2 DEF Layout
      <4> QED
        BY <4>1, <4>2
    <3>4. sent >= At(message, k) /\ sent \in (At(message, k - 1) + 3)..Len(wire)
      BY <2>2, <2>4, <3>1, <3>2, <3>3
    <3>5. Len(message[k].data) + 1 \in Ends(Slice(wire, At(message, k - 1) + 3, sent))
      <4> HIDE DEF k
      <4> QED
        BY <2>1, <3>2, <3>4, DataLine
    <3> QED
      BY <2>5, <3>1, <3>2, <3>5
  <2>7. CASE ~InChunk(parser)
    <3>1. At(message, n) <= sent /\ parser.line = Slice(wire, At(message, n), sent)
      <4>1. parser.inChunk = FALSE
        BY <2>3, <2>7 DEF Inside, InChunk, ParserType
      <4> QED
        BY <2>3, <2>5, <4>1 DEF Inside
    <3>2. At(message, n) <= At(message, N)
      BY <2>1, AtGrows
    <3>3. sent >= At(message, n) + 3 /\ sent \in At(message, n)..Len(wire)
      BY <2>2, <2>4, <3>1, <3>2
    <3>4. 2 \in Ends(Slice(wire, At(message, n), sent))
      BY <2>1, <3>3, SizeLine
    <3> QED
      BY <2>5, <3>1, <3>4
  <2> QED
    BY <2>6, <2>7
<1> QED
  BY <1>1, ChunkedInvAlways, PTL

\* Between two reads _chunked_body_size holds the file, a CRLF for each chunk
\* and the line that is stashed, so that it is compared with body_max_size as
\* if the size lines had never been counted.
THEOREM CounterMatchesFileAlways ==
    ASSUME OnlyClean
    PROVE  Spec => []CounterMatchesFile
<1>1. ChunkedInv => CounterMatchesFile
  <2> SUFFICES ASSUME ChunkedInv, ~parser.done, parser.error = 0
               PROVE  \E n \in 0..Len(message) :
                          /\ parser.written = FlattenSeq([i \in 1..n |-> message[i].data])
                          /\ parser.size = Len(parser.written) + n * Len(CRLF)
                                           + Len(parser.line)
    BY DEF CounterMatchesFile
  <2>1. PICK n \in 0..Len(message) : Inside(message, wire, parser, <<>>, sent, n)
    BY DEF ChunkedInv, Outcome
  <2>2. parser.written = FlattenSeq([i \in 1..n |-> message[i].data])
    BY <2>1 DEF Inside, Written
  <2> DEFINE W == Len(parser.written)
             P == Len(parser.line)
             S == parser.size
  <2>3. W \in Nat /\ P \in Nat /\ n \in Nat
    <3>1. parser.written \in Text /\ parser.line \in Text
      BY <2>1 DEF Inside, ParserType
    <3>2. Len(message) \in Nat
      BY WireFacts DEF ChunkedInv, Layout
    <3> QED
      BY <3>1, <3>2 DEF Text
  <2>4. S = W + 2 * n + P + 0
    <3>1. S = W + 2 * n + P + Len(<<>>) /\ Len(<<>>) = 0
      BY <2>1 DEF Inside
    <3> QED
      BY <3>1
  <2>5. Len(CRLF) = 2
    BY Texts
  <2>6. S = W + n * Len(CRLF) + P
    <3> HIDE DEF W, P, S
    <3>1. S = W + n * 2 + P
      BY <2>3, <2>4
    <3> QED
      BY <2>5, <3>1
  <2> QED
    BY <2>2, <2>6
<1> QED
  BY <1>1, ChunkedInvAlways, PTL
=============================================================================
