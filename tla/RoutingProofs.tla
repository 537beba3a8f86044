---------------------------- MODULE RoutingProofs ----------------------------
(***************************************************************************)
(* Theorems about Routing, for every host, every URI and any number of     *)
(* local redirections.                                                     *)
(*                                                                         *)
(* Five arguments carry them. "*" matches every path and every host has    *)
(* it, so a request always has a location, and each step of checkRequest   *)
(* adds what it has checked to the invariant RoutingInv: accepted requests *)
(* keep to the rules of the place they end at. Each of the passes of       *)
(* checkPath (the "./" in front, the empty pieces and the ".", the "..")   *)
(* keeps where the pieces lead, while cutting undoes joining, and each     *)
(* does with escaped pieces what it does with decoded ones as long as no   *)
(* dot or slash is escaped: the path leads where the URI does. The         *)
(* comparison of two names ranks them, so the search for the best one ends *)
(* with it in any order. The tokens of a name are the name cut into        *)
(* pieces, each of which stands for what isMatch takes it to match. And a  *)
(* file appended to the URI of a folder goes through all passes of         *)
(* parseURI as a file.                                                     *)
(*                                                                         *)
(* What a recursive definition computes is stated by its Run lemma: the    *)
(* values it goes through, one for each element of its argument.           *)
(***************************************************************************)
EXTENDS Routing, Recursion, SequenceTheorems

\* A symbol is a string; the provers have to be told that these are.
Symbol == STRING \union {"/", ".", "..", "a"}

\* A URI, a path or a name: any symbols.
Path == Seq(Symbol)

\* Strings are symbols.
LEMMA StringsArePaths == Seq(STRING) \subseteq Path
BY DEF Path, Symbol

\* The name "*" is one token,
LEMMA StarToken == Tokenize(Star) = <<Star>>
<1> DEFINE Step(ts, n) == AddToken(ts, Star[n])
           F(f) == [n \in 0..Len(Star) |-> IF n = 0 THEN <<>> ELSE Step(f[n - 1], n)]
           T == CHOOSE f : f = F(f)
           G == [n \in 0..1 |-> IF n = 0 THEN <<>> ELSE <<Star>>]
<1>1. Len(Star) = 1 /\ Step(<<>>, 1) = <<Star>>
  BY DEF Star, AddToken
<1> HIDE DEF Step
<1>2. G = F(G)
  BY <1>1
<1>3. T = F(T)
  <2> HIDE DEF F, G
  <2> QED
    BY <1>2
<1>4. T[0] = <<>> /\ T[1] = Step(T[0], 1)
  <2>1. \A n \in 0..1 : T[n] = IF n = 0 THEN <<>> ELSE Step(T[n - 1], n)
    <3> HIDE DEF T
    <3> QED
      BY <1>1, <1>3
  <2> HIDE DEF T
  <2> QED
    BY <2>1
<1>5. T[Len(Star)] = <<Star>>
  <2> HIDE DEF T
  <2> QED
    BY <1>1, <1>4
<1> QED
  BY <1>5 DEF Tokenize, Step

\* and the empty name has none.
LEMMA NoToken == Tokenize(<<>>) = <<>>
<1> DEFINE Step(ts, n) == AddToken(ts, <<>>[n])
           F(f) == [n \in 0..Len(<<>>) |-> IF n = 0 THEN <<>> ELSE Step(f[n - 1], n)]
           T == CHOOSE f : f = F(f)
           G == [n \in 0..0 |-> <<>>]
<1>1. Len(<<>>) = 0
  OBVIOUS
<1> HIDE DEF Step
<1>2. G = F(G)
  BY <1>1
<1>3. T = F(T)
  <2> HIDE DEF F, G
  <2> QED
    BY <1>2
<1>4. T[Len(<<>>)] = <<>>
  <2> HIDE DEF T
  <2> QED
    BY <1>1, <1>3
<1> QED
  BY <1>4 DEF Tokenize, Step

\* "*" matches every path: the location that every host has is always found.
LEMMA StarMatches ==
    ASSUME NEW uri \in Path
    PROVE  Matches(uri, Star)
<1> DEFINE ts == <<Star>>
           n == Len(ts)
           Body(M, k, i) ==
               IF k = n + 1 THEN i = Len(uri)
               ELSE IF i = Len(uri) THEN k = n /\ ts[k] = Star
               ELSE IF ts[k] # Star
               THEN i \in Occurrences(uri, ts[k], i)
                    /\ M[k + 1][i + Len(ts[k])]
               ELSE IF k = n THEN TRUE
               ELSE LET j == Find(uri, ts[k + 1], i)
                    IN j # NotFound /\ M[k + 2][j + Len(ts[k + 1])]
           F(M) == [k \in 1..(n + 1) |-> [i \in 0..Len(uri) |-> Body(M, k, i)]]
           M == CHOOSE f : f = F(f)
           G == [k \in 1..(n + 1) |->
                   [i \in 0..Len(uri) |-> IF k = 1 THEN TRUE ELSE i = Len(uri)]]
<1>1. n = 1 /\ ts[1] = Star /\ Len(uri) \in Nat
  BY DEF Path
<1>2. \A f, i : Body(f, 1, i) = TRUE /\ Body(f, 2, i) = (i = Len(uri))
  <2> HIDE DEF ts, n
  <2> QED
    BY <1>1
<1> HIDE DEF Body
<1>3. ASSUME NEW f, NEW k \in 1..(n + 1), NEW i \in 0..Len(uri)
      PROVE  Body(f, k, i) = IF k = 1 THEN TRUE ELSE i = Len(uri)
  <2> HIDE DEF ts, n
  <2>1. k = 1 \/ k = 2
    BY <1>1
  <2>2. CASE k = 1
    BY <1>2, <2>2
  <2>3. CASE k = 2
    BY <1>2, <2>3
  <2> QED
    BY <2>1, <2>2, <2>3
<1> HIDE DEF n
<1>4. \A f : F(f) = G
  BY <1>3, ZenonT(60)
<1>5. M = F(M)
  <2> HIDE DEF F, G
  <2> QED
    BY <1>4
<1>6. M[1] = [i \in 0..Len(uri) |-> Body(M, 1, i)]
  <2>1. M[1] = F(M)[1]
    BY <1>5
  <2> HIDE DEF M
  <2> QED
    BY <1>1, <2>1
<1>7. n > 0 /\ M[1][0]
  <2> HIDE DEF M
  <2> QED
    BY <1>1, <1>2, <1>6
<1>8. IsMatch(uri, ts)
  BY <1>7 DEF IsMatch, n, Body
<1> QED
  BY <1>8, StarToken DEF Matches

\* The empty name, which stands for no match, matches nothing.
LEMMA NothingMatches ==
    ASSUME NEW uri
    PROVE  ~Matches(uri, <<>>)
<1>1. ~(Len(<<>>) > 0)
  OBVIOUS
<1>2. ~IsMatch(uri, <<>>)
  BY <1>1 DEF IsMatch
<1> QED
  BY <1>2, NoToken DEF Matches

\* The turn of getObjectMatch.
NextBest(uri, best, e) ==
    IF IF best = <<>> THEN Matches(uri, e) ELSE IsUriMatch(uri, e, best)
    THEN e ELSE best

\* getObjectMatch, name by name.
LEMMA BestRun ==
    ASSUME NEW names \in Seq(Path), NEW uri \in Path
    PROVE  \E f \in [0..Len(names) -> Range(names) \union {<<>>}] :
               /\ GetObjectMatch(names, uri) = f[Len(names)]
               /\ f[0] = <<>>
               /\ \A n \in 1..Len(names) : f[n] = NextBest(uri, f[n - 1], names[n])
<1> DEFINE N == Len(names)
           T == Range(names) \union {<<>>}
           Step(best, n) == NextBest(uri, best, names[n])
           F(f) == [n \in 0..N |-> IF n = 0 THEN <<>> ELSE Step(f[n - 1], n)]
           B == CHOOSE f : f = F(f)
           g == [w \in T \X (1..N) |-> Step(w[1], w[2])]
<1>1. /\ N \in Nat /\ <<>> \in T
      /\ \A best, n : Step(best, n) \in {best, names[n]}
      /\ \A n \in 1..N : names[n] \in T
  BY DEF Range, NextBest
<1> HIDE DEF Step, N, T
<1>2. \A best \in T, n \in 1..N : Step(best, n) \in T
  BY <1>1
<1>3. \E f : f = F(f)
  <2>1. g \in [T \X (1..N) -> T]
    BY <1>2
  <2>2. PICK f : Iteration(f, T, N, <<>>, g)
    <3> HIDE DEF g
    <3> QED
      BY <1>1, <2>1, Iterates
  <2>3. \A n \in 1..N : g[<<f[n - 1], n>>] = Step(f[n - 1], n)
    BY <1>1, <2>2 DEF Iteration
  <2> HIDE DEF g
  <2>4. \A n \in 0..N : f[n] = IF n = 0 THEN <<>> ELSE Step(f[n - 1], n)
    <3>1. \A n \in 0..N : n = 0 \/ n \in 1..N
      BY <1>1
    <3> QED
      BY <2>2, <2>3, <3>1 DEF Iteration
  <2>5. f = F(f)
    BY <2>2, <2>4 DEF Iteration
  <2> QED
    BY <2>5
<1>4. B = F(B)
  BY <1>3
<1>5. B[0] = <<>> /\ \A n \in 1..N : B[n] = Step(B[n - 1], n)
  <2> HIDE DEF B
  <2> QED
    BY <1>1, <1>4
<1>6. B \in [0..N -> T]
  <2> HIDE DEF B
  <2>1. \A n \in 0..N : B[n] \in T
    BY <1>1, <1>2, <1>5, Stays
  <2>2. B = [n \in 0..N |-> B[n]]
    BY <1>4
  <2> QED
    BY <2>1, <2>2
<1>7. GetObjectMatch(names, uri) = B[N]
  BY DEF GetObjectMatch, Step, NextBest, N
<1> HIDE DEF B
<1> QED
  BY <1>5, <1>6, <1>7 DEF Step, N, T

\* getObjectMatch ends with one of the names or with none, and not with none
\* when "*" is among them.
LEMMA BestName ==
    ASSUME NEW names \in Seq(Path), NEW uri \in Path
    PROVE  /\ GetObjectMatch(names, uri) \in Range(names) \union {<<>>}
           /\ Star \in Range(names) => GetObjectMatch(names, uri) # <<>>
<1> DEFINE N == Len(names)
<1>1. PICK B \in [0..N -> Range(names) \union {<<>>}] :
          /\ GetObjectMatch(names, uri) = B[N]
          /\ B[0] = <<>>
          /\ \A n \in 1..N : B[n] = NextBest(uri, B[n - 1], names[n])
  BY BestRun
<1>2. N \in Nat /\ N \in 0..N
  OBVIOUS
<1>3. \A best, e : best # <<>> => NextBest(uri, best, e) # <<>>
  BY NothingMatches DEF NextBest, IsUriMatch
<1>4. NextBest(uri, <<>>, Star) # <<>>
  BY StarMatches DEF NextBest, Star
<1> HIDE DEF N
<1>5. ASSUME NEW k \in 1..N, names[k] = Star
      PROVE  B[N] # <<>>
  <2> DEFINE Bad == {n \in 0..N : n >= k /\ B[n] = <<>>}
  <2>1. Bad \in SUBSET (0..N) /\ 0 \notin Bad
    BY <1>2
  <2>2. \A n \in 1..N : n \in Bad => n - 1 \in Bad
    <3> SUFFICES ASSUME NEW n \in 1..N, n \in Bad PROVE n - 1 \in Bad
      OBVIOUS
    <3>1. B[n] = NextBest(uri, B[n - 1], names[n]) /\ B[n] = <<>>
      BY <1>1
    <3>2. B[n - 1] = <<>>
      BY <1>3, <3>1
    <3>3. n # k
      BY <1>4, <1>5, <3>1, <3>2
    <3> QED
      BY <1>2, <3>2, <3>3
  <2>3. Bad = {}
    <3> HIDE DEF Bad
    <3> QED
      BY <1>2, <2>1, <2>2, NoFirst
  <2> QED
    BY <1>2, <2>3
<1>6. \A x \in Range(names) : \E k \in 1..N : names[k] = x
  BY DEF Range, N
<1> QED
  BY <1>1, <1>2, <1>5, <1>6

\* The least member of a set.
LEMMA MinOf ==
    ASSUME NEW S, S \subseteq Nat, S # {}
    PROVE  Min(S) \in S
BY Least DEF Min

\* The greatest member of a bounded set.
LEMMA MaxOf ==
    ASSUME NEW N \in Nat, NEW S \in SUBSET (0..N), S # {}
    PROVE  Max(S) \in S
BY Greatest DEF Max

\* rfind stays inside the path.
LEMMA FoundAt ==
    ASSUME NEW uri \in Path, NEW s
    PROVE  RFind(uri, <<s>>) + 1 \in 0..Len(uri)
<1> DEFINE at == Occurrences(uri, <<s>>, 0)
<1>1. Len(<<s>>) = 1 /\ Len(uri) \in Nat
  BY DEF Path
<1>2. \A j \in at : j \in 0..(Len(uri) - 1)
  BY <1>1 DEF Occurrences
<1>3. CASE at = {}
  <2>1. RFind(uri, <<s>>) = -1
    BY <1>3 DEF RFind, NotFound
  <2> QED
    BY <1>1, <2>1
<1>4. CASE at # {}
  <2> HIDE DEF at
  <2>1. at \in SUBSET (0..Len(uri))
    BY <1>1, <1>2
  <2>2. Max(at) \in at
    BY <1>1, <1>4, <2>1, MaxOf
  <2>3. Max(at) + 1 \in 0..Len(uri)
    BY <1>1, <1>2, <2>2
  <2>4. RFind(uri, <<s>>) = Max(at)
    BY <1>4 DEF RFind, at
  <2> QED
    BY <2>3, <2>4
<1> QED
  BY <1>3, <1>4

\* Rules of a host, by their names.
LEMMA RulesFound ==
    ASSUME NEW S, \A r \in S : r.name \in Path,
           NEW rules \in Seq(S), NEW p \in Path
    PROVE  /\ MatchRules(rules, p) \in DOMAIN rules \union {0}
           /\ (\E i \in DOMAIN rules : rules[i].name = Star) =>
                 MatchRules(rules, p) \in DOMAIN rules
<1> DEFINE names == Names(rules)
           best == GetObjectMatch(names, p)
<1>1. names \in Seq(Path) /\ DOMAIN names = DOMAIN rules
      /\ \A i \in DOMAIN rules : names[i] = rules[i].name
  BY DEF Names
<1>2. \A x : x \in Range(names) <=> \E i \in DOMAIN rules : rules[i].name = x
  <2> HIDE DEF names
  <2> QED
    BY <1>1 DEF Range
<1>3. /\ best \in Range(names) \union {<<>>}
      /\ Star \in Range(names) => best # <<>>
  <2> HIDE DEF names
  <2> QED
    BY <1>1, BestName
<1>4. MatchRules(rules, p) =
        IF best = <<>> THEN 0 ELSE CHOOSE i \in DOMAIN rules : rules[i].name = best
  BY DEF MatchRules
<1> HIDE DEF best, names
<1>5. best # <<>> => \E i \in DOMAIN rules : rules[i].name = best
  BY <1>2, <1>3
<1>6. best # <<>> => MatchRules(rules, p) \in DOMAIN rules
  BY <1>4, <1>5
<1> QED
  BY <1>2, <1>3, <1>4, <1>6

\* Every path has a location on every host.
LEMMA LocationFound ==
    ASSUME NEW h \in Hosts, NEW p \in Path
    PROVE  /\ MatchRules(h.locations, p) \in DOMAIN h.locations
           /\ MatchRules(h.locations, p) \in Nat \ {0}
           /\ MatchRules(h.cgis, p) \in DOMAIN h.cgis \union {0}
           /\ MatchRules(h.cgis, p) \in Nat
<1>1. /\ h.locations \in Seq(LocationType) /\ h.cgis \in Seq(CgiType)
      /\ \E i \in DOMAIN h.locations : h.locations[i].name = Star
  BY HostsAssumption
<1>2. /\ \A r \in LocationType : r.name \in Path
      /\ \A r \in CgiType : r.name \in Path
  BY StringsArePaths DEF LocationType, CgiType
<1>3. MatchRules(h.locations, p) \in DOMAIN h.locations
  BY <1>1, <1>2, RulesFound
<1>4. MatchRules(h.cgis, p) \in DOMAIN h.cgis \union {0}
  BY <1>1, <1>2, RulesFound
<1> QED
  BY <1>1, <1>3, <1>4

\* A piece of a path, without its slashes.
Word == Seq(Symbol \ {"/"})

\* What Segments, Compact and Climb give.
Pieces == Seq(Word)
NonEmpty == Pieces \ {<<>>}
Walked == [ok : BOOLEAN, v : Pieces]

\* A piece is a path of its own.
LEMMA WordsArePaths == Word \subseteq Path
BY DEF Word, Path

\* Segments, symbol by symbol.
LEMMA SegmentsRun ==
    ASSUME NEW p \in Path
    PROVE  \E f \in [0..Len(p) -> NonEmpty] :
               /\ Segments(p) = f[Len(p)]
               /\ f[0] = <<<<>>>>
               /\ \A n \in 1..Len(p) : f[n] = AddSymbol(f[n - 1], p[n])
<1> DEFINE N == Len(p)
           b == <<<<>>>>
           Step(ss, n) == AddSymbol(ss, p[n])
           F(f) == [n \in 0..N |-> IF n = 0 THEN b ELSE Step(f[n - 1], n)]
           R == CHOOSE f : f = F(f)
           g == [w \in NonEmpty \X (1..N) |-> Step(w[1], w[2])]
<1>1. \A ss \in NonEmpty, n \in 1..N : Step(ss, n) \in NonEmpty
  <2> SUFFICES ASSUME NEW ss \in NonEmpty, NEW n \in 1..N
               PROVE  AddSymbol(ss, p[n]) \in NonEmpty
    OBVIOUS
  <2>1. p[n] \in Symbol /\ <<>> \in Word
    BY DEF Path, Word
  <2>2. CASE p[n] = "/"
    BY <2>1, <2>2 DEF AddSymbol, NonEmpty, Pieces
  <2>3. CASE p[n] # "/"
    <3>1. ss[Len(ss)] \in Word /\ Len(ss) \in 1..Len(ss)
      BY DEF NonEmpty, Pieces
    <3>2. Append(ss[Len(ss)], p[n]) \in Word
      BY <2>1, <2>3, <3>1 DEF Word
    <3> QED
      BY <2>3, <3>1, <3>2 DEF AddSymbol, NonEmpty, Pieces
  <2> QED
    BY <2>2, <2>3
<1>2. b \in NonEmpty /\ N \in Nat
  BY DEF NonEmpty, Pieces, Path, Word
<1> HIDE DEF Step, N, b
<1>3. \E f : f = F(f)
  <2>1. g \in [NonEmpty \X (1..N) -> NonEmpty]
    BY <1>1
  <2>2. PICK f : Iteration(f, NonEmpty, N, b, g)
    <3> HIDE DEF g
    <3> QED
      BY <1>2, <2>1, Iterates
  <2>3. \A n \in 1..N : g[<<f[n - 1], n>>] = Step(f[n - 1], n)
    BY <1>2, <2>2 DEF Iteration
  <2> HIDE DEF g
  <2>4. \A n \in 0..N : f[n] = IF n = 0 THEN b ELSE Step(f[n - 1], n)
    <3>1. \A n \in 0..N : n = 0 \/ n \in 1..N
      BY <1>2
    <3> QED
      BY <2>2, <2>3, <3>1 DEF Iteration
  <2>5. f = F(f)
    BY <2>2, <2>4 DEF Iteration
  <2> QED
    BY <2>5
<1>4. R = F(R)
  BY <1>3
<1>5. R[0] = b /\ \A n \in 1..N : R[n] = Step(R[n - 1], n)
  <2> HIDE DEF R
  <2> QED
    BY <1>2, <1>4
<1>6. R \in [0..N -> NonEmpty]
  <2> HIDE DEF R
  <2>1. R[0] \in NonEmpty /\ \A n \in 1..N : R[n - 1] \in NonEmpty => R[n] \in NonEmpty
    BY <1>1, <1>2, <1>5
  <2>2. \A n \in 0..N : R[n] \in NonEmpty
    BY <1>2, <2>1, Stays
  <2>3. R = [n \in 0..N |-> R[n]]
    BY <1>4
  <2> QED
    BY <2>2, <2>3
<1>7. Segments(p) = R[N]
  BY DEF Segments, Step, N, b
<1> HIDE DEF R
<1> QED
  BY <1>5, <1>6, <1>7 DEF Step, N, b

\* Join, piece by piece.
LEMMA JoinRun ==
    ASSUME NEW ss \in Pieces
    PROVE  \E f \in [0..Len(ss) -> Path] :
               /\ Join(ss) = Tail(f[Len(ss)])
               /\ f[0] = <<>>
               /\ \A n \in 1..Len(ss) : f[n] = f[n - 1] \o <<"/">> \o ss[n]
<1> DEFINE N == Len(ss)
           b == <<>>
           Step(p, n) == p \o <<"/">> \o ss[n]
           F(f) == [n \in 0..N |-> IF n = 0 THEN b ELSE Step(f[n - 1], n)]
           R == CHOOSE f : f = F(f)
           g == [w \in Path \X (1..N) |-> Step(w[1], w[2])]
<1>1. \A p \in Path, n \in 1..N : Step(p, n) \in Path
  <2> SUFFICES ASSUME NEW p \in Path, NEW n \in 1..N
               PROVE  Step(p, n) \in Path
    OBVIOUS
  <2>1. ss[n] \in Path
    BY WordsArePaths DEF Pieces
  <2>2. <<"/">> \in Path
    BY DEF Path, Symbol
  <2>3. \A x, y \in Path : x \o y \in Path
    BY DEF Path
  <2> QED
    BY <2>1, <2>2, <2>3
<1>2. b \in Path /\ N \in Nat
  BY DEF Pieces, Path
<1> HIDE DEF Step, N, b
<1>3. \E f : f = F(f)
  <2>1. g \in [Path \X (1..N) -> Path]
    BY <1>1
  <2>2. PICK f : Iteration(f, Path, N, b, g)
    <3> HIDE DEF g
    <3> QED
      BY <1>2, <2>1, Iterates
  <2>3. \A n \in 1..N : g[<<f[n - 1], n>>] = Step(f[n - 1], n)
    BY <1>2, <2>2 DEF Iteration
  <2> HIDE DEF g
  <2>4. \A n \in 0..N : f[n] = IF n = 0 THEN b ELSE Step(f[n - 1], n)
    <3>1. \A n \in 0..N : n = 0 \/ n \in 1..N
      BY <1>2
    <3> QED
      BY <2>2, <2>3, <3>1 DEF Iteration
  <2>5. f = F(f)
    BY <2>2, <2>4 DEF Iteration
  <2> QED
    BY <2>5
<1>4. R = F(R)
  BY <1>3
<1>5. R[0] = b /\ \A n \in 1..N : R[n] = Step(R[n - 1], n)
  <2> HIDE DEF R
  <2> QED
    BY <1>2, <1>4
<1>6. R \in [0..N -> Path]
  <2> HIDE DEF R
  <2>1. R[0] \in Path /\ \A n \in 1..N : R[n - 1] \in Path => R[n] \in Path
    BY <1>1, <1>2, <1>5
  <2>2. \A n \in 0..N : R[n] \in Path
    BY <1>2, <2>1, Stays
  <2>3. R = [n \in 0..N |-> R[n]]
    BY <1>4
  <2> QED
    BY <2>2, <2>3
<1>7. Join(ss) = Tail(R[N])
  BY DEF Join, Step, N, b
<1> HIDE DEF R
<1> QED
  BY <1>5, <1>6, <1>7 DEF Step, N, b

\* Compact, piece by piece.
LEMMA CompactRun ==
    ASSUME NEW ss \in NonEmpty
    PROVE  \E f \in [0..Len(ss) -> Pieces] :
               /\ Compact(ss) = f[Len(ss)]
               /\ f[0] = <<>>
               /\ \A n \in 1..Len(ss) : f[n] =
                    IF n \in 2..(Len(ss) - 1) /\ ss[n] \in {<<>>, <<".">>}
                    THEN f[n - 1] ELSE Append(f[n - 1], ss[n])
<1> DEFINE N == Len(ss)
           b == <<>>
           Step(c, n) == IF n \in 2..(Len(ss) - 1) /\ ss[n] \in {<<>>, <<".">>}
                          THEN c ELSE Append(c, ss[n])
           F(f) == [n \in 0..N |-> IF n = 0 THEN b ELSE Step(f[n - 1], n)]
           R == CHOOSE f : f = F(f)
           g == [w \in Pieces \X (1..N) |-> Step(w[1], w[2])]
<1>1. \A c \in Pieces, n \in 1..N : Step(c, n) \in Pieces
  <2> SUFFICES ASSUME NEW c \in Pieces, NEW n \in 1..N
               PROVE  Step(c, n) \in Pieces
    OBVIOUS
  <2>1. ss[n] \in Word
    BY DEF NonEmpty, Pieces
  <2>2. Append(c, ss[n]) \in Pieces
    BY <2>1 DEF Pieces
  <2> QED
    BY <2>2
<1>2. b \in Pieces /\ N \in Nat
  BY DEF NonEmpty, Pieces
<1> HIDE DEF Step, N, b
<1>3. \E f : f = F(f)
  <2>1. g \in [Pieces \X (1..N) -> Pieces]
    BY <1>1
  <2>2. PICK f : Iteration(f, Pieces, N, b, g)
    <3> HIDE DEF g
    <3> QED
      BY <1>2, <2>1, Iterates
  <2>3. \A n \in 1..N : g[<<f[n - 1], n>>] = Step(f[n - 1], n)
    BY <1>2, <2>2 DEF Iteration
  <2> HIDE DEF g
  <2>4. \A n \in 0..N : f[n] = IF n = 0 THEN b ELSE Step(f[n - 1], n)
    <3>1. \A n \in 0..N : n = 0 \/ n \in 1..N
      BY <1>2
    <3> QED
      BY <2>2, <2>3, <3>1 DEF Iteration
  <2>5. f = F(f)
    BY <2>2, <2>4 DEF Iteration
  <2> QED
    BY <2>5
<1>4. R = F(R)
  BY <1>3
<1>5. R[0] = b /\ \A n \in 1..N : R[n] = Step(R[n - 1], n)
  <2> HIDE DEF R
  <2> QED
    BY <1>2, <1>4
<1>6. R \in [0..N -> Pieces]
  <2> HIDE DEF R
  <2>1. R[0] \in Pieces /\ \A n \in 1..N : R[n - 1] \in Pieces => R[n] \in Pieces
    BY <1>1, <1>2, <1>5
  <2>2. \A n \in 0..N : R[n] \in Pieces
    BY <1>2, <2>1, Stays
  <2>3. R = [n \in 0..N |-> R[n]]
    BY <1>4
  <2> QED
    BY <2>2, <2>3
<1>7. Compact(ss) = R[N]
  BY DEF Compact, Step, N, b
<1> HIDE DEF R
<1> QED
  BY <1>5, <1>6, <1>7 DEF Step, N, b

\* Climb, piece by piece.
LEMMA ClimbRun ==
    ASSUME NEW ss \in NonEmpty
    PROVE  \E f \in [0..(Len(ss) - 1) -> Walked] :
               /\ Climb(ss) = f[Len(ss) - 1]
               /\ f[0] = [ok |-> TRUE, v |-> <<>>]
               /\ \A n \in 1..(Len(ss) - 1) : f[n] = ClimbStep(f[n - 1], ss[n])
<1> DEFINE N == (Len(ss) - 1)
           b == [ok |-> TRUE, v |-> <<>>]
           Step(r, n) == ClimbStep(r, ss[n])
           F(f) == [n \in 0..N |-> IF n = 0 THEN b ELSE Step(f[n - 1], n)]
           R == CHOOSE f : f = F(f)
           g == [w \in Walked \X (1..N) |-> Step(w[1], w[2])]
<1>1. \A r \in Walked, n \in 1..N : Step(r, n) \in Walked
  <2> SUFFICES ASSUME NEW r \in Walked, NEW n \in 1..N
               PROVE  ClimbStep(r, ss[n]) \in Walked
    OBVIOUS
  <2>1. r.ok \in BOOLEAN /\ r.v \in Pieces /\ ss[n] \in Word
    BY DEF Walked, NonEmpty, Pieces
  <2>2. /\ Append(r.v, ss[n]) \in Pieces
        /\ r.v # <<>> => Front(r.v) \in Pieces
    BY <2>1 DEF Pieces, Front
  <2>3. \A v \in Pieces : [r EXCEPT !.v = v] \in Walked
    BY DEF Walked
  <2>4. [r EXCEPT !.ok = FALSE] \in Walked
    BY DEF Walked
  <2> QED
    BY <2>2, <2>3, <2>4 DEF ClimbStep
<1>2. b \in Walked /\ N \in Nat
  BY DEF NonEmpty, Pieces, Walked
<1> HIDE DEF Step, N, b
<1>3. \E f : f = F(f)
  <2>1. g \in [Walked \X (1..N) -> Walked]
    BY <1>1
  <2>2. PICK f : Iteration(f, Walked, N, b, g)
    <3> HIDE DEF g
    <3> QED
      BY <1>2, <2>1, Iterates
  <2>3. \A n \in 1..N : g[<<f[n - 1], n>>] = Step(f[n - 1], n)
    BY <1>2, <2>2 DEF Iteration
  <2> HIDE DEF g
  <2>4. \A n \in 0..N : f[n] = IF n = 0 THEN b ELSE Step(f[n - 1], n)
    <3>1. \A n \in 0..N : n = 0 \/ n \in 1..N
      BY <1>2
    <3> QED
      BY <2>2, <2>3, <3>1 DEF Iteration
  <2>5. f = F(f)
    BY <2>2, <2>4 DEF Iteration
  <2> QED
    BY <2>5
<1>4. R = F(R)
  BY <1>3
<1>5. R[0] = b /\ \A n \in 1..N : R[n] = Step(R[n - 1], n)
  <2> HIDE DEF R
  <2> QED
    BY <1>2, <1>4
<1>6. R \in [0..N -> Walked]
  <2> HIDE DEF R
  <2>1. R[0] \in Walked /\ \A n \in 1..N : R[n - 1] \in Walked => R[n] \in Walked
    BY <1>1, <1>2, <1>5
  <2>2. \A n \in 0..N : R[n] \in Walked
    BY <1>2, <2>1, Stays
  <2>3. R = [n \in 0..N |-> R[n]]
    BY <1>4
  <2> QED
    BY <2>2, <2>3
<1>7. Climb(ss) = R[N]
  BY DEF Climb, Step, N, b
<1> HIDE DEF R
<1> QED
  BY <1>5, <1>6, <1>7 DEF Step, N, b

\* WalkPieces, piece by piece.
LEMMA WalkRun ==
    ASSUME NEW ss \in Pieces
    PROVE  \E f \in [0..Len(ss) -> Pieces] :
               /\ WalkPieces(ss) = f[Len(ss)]
               /\ f[0] = <<>>
               /\ \A n \in 1..Len(ss) : f[n] = WalkStep(f[n - 1], ss[n])
<1> DEFINE N == Len(ss)
           b == <<>>
           Step(v, n) == WalkStep(v, ss[n])
           F(f) == [n \in 0..N |-> IF n = 0 THEN b ELSE Step(f[n - 1], n)]
           R == CHOOSE f : f = F(f)
           g == [w \in Pieces \X (1..N) |-> Step(w[1], w[2])]
<1>1. \A v \in Pieces, n \in 1..N : Step(v, n) \in Pieces
  <2> SUFFICES ASSUME NEW v \in Pieces, NEW n \in 1..N
               PROVE  WalkStep(v, ss[n]) \in Pieces
    OBVIOUS
  <2>1. ss[n] \in Word
    BY DEF Pieces
  <2>2. Append(v, ss[n]) \in Pieces /\ (v # <<>> => Front(v) \in Pieces)
    BY <2>1 DEF Pieces, Front
  <2> QED
    BY <2>2 DEF WalkStep
<1>2. b \in Pieces /\ N \in Nat
  BY DEF Pieces
<1> HIDE DEF Step, N, b
<1>3. \E f : f = F(f)
  <2>1. g \in [Pieces \X (1..N) -> Pieces]
    BY <1>1
  <2>2. PICK f : Iteration(f, Pieces, N, b, g)
    <3> HIDE DEF g
    <3> QED
      BY <1>2, <2>1, Iterates
  <2>3. \A n \in 1..N : g[<<f[n - 1], n>>] = Step(f[n - 1], n)
    BY <1>2, <2>2 DEF Iteration
  <2> HIDE DEF g
  <2>4. \A n \in 0..N : f[n] = IF n = 0 THEN b ELSE Step(f[n - 1], n)
    <3>1. \A n \in 0..N : n = 0 \/ n \in 1..N
      BY <1>2
    <3> QED
      BY <2>2, <2>3, <3>1 DEF Iteration
  <2>5. f = F(f)
    BY <2>2, <2>4 DEF Iteration
  <2> QED
    BY <2>5
<1>4. R = F(R)
  BY <1>3
<1>5. R[0] = b /\ \A n \in 1..N : R[n] = Step(R[n - 1], n)
  <2> HIDE DEF R
  <2> QED
    BY <1>2, <1>4
<1>6. R \in [0..N -> Pieces]
  <2> HIDE DEF R
  <2>1. R[0] \in Pieces /\ \A n \in 1..N : R[n - 1] \in Pieces => R[n] \in Pieces
    BY <1>1, <1>2, <1>5
  <2>2. \A n \in 0..N : R[n] \in Pieces
    BY <1>2, <2>1, Stays
  <2>3. R = [n \in 0..N |-> R[n]]
    BY <1>4
  <2> QED
    BY <2>2, <2>3
<1>7. WalkPieces(ss) = R[N]
  BY DEF WalkPieces, Step, N, b
<1> HIDE DEF R
<1> QED
  BY <1>5, <1>6, <1>7 DEF Step, N, b

-----------------------------------------------------------------------------
(***************************************************************************)
(* Types.                                                                  *)
(***************************************************************************)
\* The first symbol of a kind stands in the uri.
LEMMA FirstAt ==
    ASSUME NEW u \in Path, NEW s
    PROVE  First(u, s) \in 0..Len(u)
<1> DEFINE at == {i \in DOMAIN u : u[i] = s}
<1>1. Len(u) \in Nat /\ DOMAIN u = 1..Len(u)
  BY DEF Path
<1>2. CASE s \in Range(u)
  <2>1. at # {} /\ at \subseteq Nat /\ at \subseteq 0..Len(u)
    BY <1>1, <1>2 DEF Range
  <2>2. First(u, s) = Min(at)
    BY <1>2 DEF First
  <2> HIDE DEF at
  <2>3. Min(at) \in at
    BY <2>1, MinOf
  <2> QED
    BY <2>1, <2>2, <2>3
<1>3. CASE s \notin Range(u)
  BY <1>1, <1>3 DEF First
<1> QED
  BY <1>2, <1>3

\* A part of a path is a path.
LEMMA SubSeqPath ==
    ASSUME NEW u \in Path, NEW i \in 0..Len(u)
    PROVE  /\ SubSeq(u, 1, i) \in Path
           /\ SubSeq(u, i + 1, Len(u)) \in Path
           /\ i > 0 => SubSeq(u, 1, i - 1) \in Path
           /\ SubSeq(u, 1, i) \o SubSeq(u, i + 1, Len(u)) = u
           /\ SubSeq(u, i + 1, Len(u)) = <<>> => SubSeq(u, 1, i) = u
<1>1. Len(u) \in Nat
  BY DEF Path
<1>2. /\ SubSeq(u, 1, i) \in Path
      /\ SubSeq(u, i + 1, Len(u)) \in Path
  BY <1>1 DEF Path
<1>3. i > 0 => SubSeq(u, 1, i - 1) \in Path
  BY <1>1 DEF Path
<1>4. SubSeq(u, 1, i) \o SubSeq(u, i + 1, Len(u)) = u
  <2>1. 1 \in 1..(Len(u) + 1) /\ i \in (1 - 1)..Len(u) /\ Len(u) \in i..Len(u)
    BY <1>1
  <2>2. SubSeq(u, 1, i) \o SubSeq(u, i + 1, Len(u)) = SubSeq(u, 1, Len(u))
    BY <2>1, ConcatAdjacentSubSeq DEF Path
  <2> QED
    BY <2>2, SubSeqFull DEF Path
<1>5. SubSeq(u, i + 1, Len(u)) = <<>> => SubSeq(u, 1, i) = u
  BY <1>2, <1>4, ConcatEmptySeq DEF Path
<1> QED
  BY <1>2, <1>3, <1>4, <1>5

\* What parseURI takes for the path of a uri is a path,
LEMMA UriPathType ==
    ASSUME NEW u \in Path
    PROVE  ExtractPath(PruneDelim(PruneDelim(PruneScheme(u), "@"), "/")) \in Path
<1>1. PruneScheme(u) \in Path
  BY DEF PruneScheme, Path
<1>2. \A d : \A v \in Path : PruneDelim(v, d) \in Path
  BY FirstAt, SubSeqPath DEF PruneDelim
<1>3. \A v \in Path : ExtractPath(v) \in Path
  <2> SUFFICES ASSUME NEW v \in Path PROVE ExtractPath(v) \in Path
    OBVIOUS
  <2>1. First(v, "?") \in 0..Len(v) /\ Len(v) \in Nat
    BY FirstAt DEF Path
  <2>2. First(v, "?") # 0 => First(v, "?") > 0
    BY <2>1
  <2> QED
    BY <2>1, <2>2, SubSeqPath DEF ExtractPath
<1> QED
  BY <1>1, <1>2, <1>3

\* and so is what checkPath makes of it.
LEMMA CheckPathType ==
    ASSUME NEW p \in Path
    PROVE  CheckPath(p).ok \in BOOLEAN /\ CheckPath(p).path \in Path
<1> DEFINE ss == Compact(DropDot(Segments(p)))
           r == Climb(ss)
<1>1. Segments(p) \in NonEmpty
  <2>1. PICK f \in [0..Len(p) -> NonEmpty] : Segments(p) = f[Len(p)]
    BY SegmentsRun
  <2> QED
    BY <2>1 DEF Path
<1>2. DropDot(Segments(p)) \in NonEmpty
  BY <1>1 DEF DropDot, NonEmpty, Pieces
<1>3. ss \in NonEmpty
  <2> DEFINE d == DropDot(Segments(p))
  <2> HIDE DEF d
  <2>1. PICK f \in [0..Len(d) -> Pieces] :
            /\ Compact(d) = f[Len(d)]
            /\ \A n \in 1..Len(d) : f[n] =
                 IF n \in 2..(Len(d) - 1) /\ d[n] \in {<<>>, <<".">>}
                 THEN f[n - 1] ELSE Append(f[n - 1], d[n])
    BY <1>2, CompactRun DEF d
  <2>2. Len(d) \in Nat /\ Len(d) > 0 /\ d[Len(d)] \in Word
    BY <1>2 DEF d, NonEmpty, Pieces
  <2>3. /\ f[Len(d)] = Append(f[Len(d) - 1], d[Len(d)])
        /\ f[Len(d) - 1] \in Pieces
    <3>1. /\ Len(d) \in 1..Len(d) /\ Len(d) \notin 2..(Len(d) - 1)
          /\ Len(d) - 1 \in 0..Len(d)
      BY <2>2
    <3> QED
      BY <2>1, <3>1
  <2>4. Compact(d) \in NonEmpty
    BY <2>1, <2>2, <2>3 DEF NonEmpty, Pieces
  <2> QED
    BY <2>4 DEF d
<1> HIDE DEF ss
<1>4. r \in Walked
  <2>1. ss \in NonEmpty /\ Len(ss) - 1 \in 0..(Len(ss) - 1)
    BY <1>3 DEF NonEmpty, Pieces
  <2>2. PICK f \in [0..(Len(ss) - 1) -> Walked] : Climb(ss) = f[Len(ss) - 1]
    BY <2>1, ClimbRun
  <2> QED
    BY <2>1, <2>2
<1>5. Append(r.v, Last(ss)) \in NonEmpty
  <2>1. Last(ss) \in Word
    BY <1>3 DEF NonEmpty, Pieces, Last
  <2> HIDE DEF r
  <2> QED
    BY <1>4, <2>1 DEF Walked, NonEmpty, Pieces
<1>6. Join(Append(r.v, Last(ss))) \in Path
  <2> DEFINE a == Append(r.v, Last(ss))
  <2> HIDE DEF a
  <2>1. a \in Pieces /\ Len(a) \in Nat /\ Len(a) > 0 /\ a[Len(a)] \in Path
    BY <1>5, WordsArePaths DEF a, NonEmpty, Pieces
  <2>2. PICK f \in [0..Len(a) -> Path] :
            /\ Join(a) = Tail(f[Len(a)])
            /\ \A n \in 1..Len(a) : f[n] = f[n - 1] \o <<"/">> \o a[n]
    BY <2>1, JoinRun
  <2>3. f[Len(a)] = f[Len(a) - 1] \o <<"/">> \o a[Len(a)] /\ f[Len(a) - 1] \in Path
    <3>1. Len(a) \in 1..Len(a) /\ Len(a) - 1 \in 0..Len(a)
      BY <2>1
    <3> QED
      BY <2>2, <3>1
  <2>4. f[Len(a)] # <<>> /\ f[Len(a)] \in Path
    <3>1. <<"/">> \in Path /\ Len(<<"/">>) = 1
      BY DEF Path, Symbol
    <3> QED
      BY <2>1, <2>2, <2>3, <3>1 DEF Path
  <2>5. Tail(f[Len(a)]) \in Path
    BY <2>4 DEF Path
  <2> QED
    BY <2>2, <2>5 DEF a
<1> QED
  BY <1>4, <1>6 DEF CheckPath, Walked, ss

-----------------------------------------------------------------------------
(***************************************************************************)
(* The request, step by step.                                              *)
(***************************************************************************)
\* The fields of a Request.
RequestType ==
    [uri : Path, method : Methods, path : Path, dir : BOOLEAN, pathInfo : Path,
     type : Types, loc : Nat, cgi : Nat, status : Nat, folder : Nat]

\* The path of q, or the one it had before its path info was cut off, leads to
\* the location of q on the host h.
Located(q, h) ==
    /\ q.loc \in DOMAIN h.locations
    /\ q.loc # 0
    /\ \/ q.loc = MatchRules(h.locations, q.path)
       \/ /\ q.pathInfo # <<>>
          /\ "/" \notin Range(q.pathInfo)
          /\ q.loc = MatchRules(h.locations, q.path \o q.pathInfo)

\* What a symbol stands for is a symbol,
LEMMA DecodedType ==
    ASSUME NEW s \in Symbol
    PROVE  Decoded(s) \in Symbol
<1>1. CASE \E e \in Escapes : e[1] = s
  <2> DEFINE x == CHOOSE e \in Escapes : e[1] = s
  <2>1. x \in Escapes
    BY <1>1
  <2>2. Decoded(s) = x[2]
    BY <1>1 DEF Decoded
  <2>3. \A e \in Escapes : e[2] \in {".", "..", "/", "a"}
    BY DEF Escapes
  <2>4. {".", "..", "/", "a"} \subseteq Symbol
    BY DEF Symbol
  <2> HIDE DEF x
  <2> QED
    BY <2>1, <2>2, <2>3, <2>4
<1>2. CASE ~\E e \in Escapes : e[1] = s
  BY <1>2 DEF Decoded
<1> QED
  BY <1>1, <1>2

\* and a decoded path a path of the same length.
LEMMA DecodeType ==
    ASSUME NEW p \in Path
    PROVE  /\ Decode(p) \in Path /\ Len(Decode(p)) = Len(p)
           /\ \A i \in 1..Len(p) : Decode(p)[i] = Decoded(p[i])
<1>1. p \in Seq(Symbol) /\ DOMAIN p = 1..Len(p) /\ Len(p) \in Nat
  BY DEF Path
<1>2. \A i \in 1..Len(p) : Decoded(p[i]) \in Symbol
  BY <1>1, DecodedType
<1>3. Decode(p) = [i \in 1..Len(p) |-> Decoded(p[i])]
  BY <1>1 DEF Decode
<1> QED
  BY <1>1, <1>2, <1>3 DEF Path

\* What parseURI makes of a request: it refuses the scheme, or checkPath the
\* path, or it accepts.
LEMMA ParseURICases ==
    ASSUME NEW q \in RequestType
    PROVE  LET c == CheckPath(UriPath(q.uri))
               r == ParseURI(q)
           IN /\ r.q.uri = q.uri /\ r.q.folder = q.folder
              /\ BadScheme(q.uri) => r.res = 400
              /\ ~BadScheme(q.uri) /\ ~c.ok => r.res = 400
              /\ ~BadScheme(q.uri) /\ c.ok =>
                    /\ r.res = 0 /\ r.q.path = Decode(c.path)
                    /\ r.q.dir = IsDir(c.path)
<1> DEFINE e == [q EXCEPT !.pathInfo = <<>>]
           c == CheckPath(UriPath(q.uri))
           a == [e EXCEPT !.status = 400]
           b == [e EXCEPT !.status = 400, !.path = c.path]
           d == [e EXCEPT !.path = Decode(c.path), !.dir = IsDir(c.path)]
           r == ParseURI(q)
<1>1. /\ e.uri = q.uri /\ e.folder = q.folder
      /\ DOMAIN e = {"uri", "method", "path", "dir", "pathInfo", "type", "loc",
                     "cgi", "status", "folder"}
  BY DEF RequestType
<1>2. r = IF BadScheme(q.uri) THEN [q |-> a, res |-> 400]
          ELSE IF ~c.ok THEN [q |-> b, res |-> 400]
          ELSE [q |-> d, res |-> 0]
  <2> HIDE DEF e
  <2> QED
    BY <1>1 DEF ParseURI, e
<1> HIDE DEF e, c
<1>3. /\ a.uri = q.uri /\ a.folder = q.folder
      /\ b.uri = q.uri /\ b.folder = q.folder
      /\ d.uri = q.uri /\ d.folder = q.folder
  BY <1>1
<1>4. d.path = Decode(c.path) /\ d.dir = IsDir(c.path)
  BY <1>1
<1> HIDE DEF a, b, d, r
<1>5. /\ r.q.uri = q.uri /\ r.q.folder = q.folder
      /\ BadScheme(q.uri) => r.res = 400
      /\ ~BadScheme(q.uri) /\ ~c.ok => r.res = 400
      /\ ~BadScheme(q.uri) /\ c.ok => r.res = 0 /\ r.q = d
  BY <1>2, <1>3
<1> QED
  BY <1>4, <1>5 DEF c, r

\* parseURI leaves a well-formed request, whether it refuses or not.
LEMMA ParseURIType ==
    ASSUME NEW q \in RequestType
    PROVE  ParseURI(q).q \in RequestType /\ ParseURI(q).res \in Nat
<1> DEFINE e == [q EXCEPT !.pathInfo = <<>>]
           c == CheckPath(UriPath(q.uri))
<1>1. c.path \in Path
  <2>1. q.uri \in Path
    BY DEF RequestType
  <2> QED
    BY <2>1, UriPathType, CheckPathType DEF UriPath
<1>2. e \in RequestType /\ e.uri = q.uri
  <2>1. <<>> \in Path
    BY DEF Path
  <2> QED
    BY <2>1 DEF RequestType
<1>3. ParseURI(q) =
        IF BadScheme(q.uri) THEN [q |-> [e EXCEPT !.status = 400], res |-> 400]
        ELSE IF ~c.ok
        THEN [q |-> [e EXCEPT !.status = 400, !.path = c.path], res |-> 400]
        ELSE [q |-> [e EXCEPT !.path = Decode(c.path), !.dir = IsDir(c.path)],
              res |-> 0]
  <2> HIDE DEF e
  <2> QED
    BY <1>2 DEF ParseURI, e
<1> HIDE DEF c, e
<1>4. IsDir(c.path) \in BOOLEAN /\ Decode(c.path) \in Path
  BY <1>1, DecodeType DEF IsDir
<1>5. [e EXCEPT !.status = 400] \in RequestType
  BY <1>2 DEF RequestType
<1>6. [e EXCEPT !.status = 400, !.path = c.path] \in RequestType
  <2>1. \A d \in RequestType, x \in Path : [d EXCEPT !.path = x] \in RequestType
    BY DEF RequestType
  <2>2. [[e EXCEPT !.status = 400] EXCEPT !.path = c.path] \in RequestType
    BY <1>1, <1>5, <2>1
  <2>3. [e EXCEPT !.status = 400, !.path = c.path]
          = [[e EXCEPT !.status = 400] EXCEPT !.path = c.path]
    OBVIOUS
  <2> QED
    BY <2>2, <2>3
<1>7. [e EXCEPT !.path = Decode(c.path), !.dir = IsDir(c.path)] \in RequestType
  BY <1>2, <1>4 DEF RequestType
<1> QED
  BY <1>3, <1>5, <1>6, <1>7

\* A script's uri is cut inside the path, if that is long enough.
LEMMA EndFound ==
    ASSUME NEW q \in RequestType, NEW h \in Hosts, q.cgi \in DOMAIN h.cgis,
           ~(ScriptEnd(q, h) > Len(q.path))
    PROVE  ScriptEnd(q, h) \in 0..Len(q.path)
<1> DEFINE k == h.cgis[q.cgi]
           i == RFind(q.path, <<k.extension>>)
<1>1. k.short \in Nat /\ Len(q.path) \in Nat
  <2>1. k \in CgiType
    BY HostsAssumption
  <2>2. q.path \in Path
    BY DEF RequestType
  <2> HIDE DEF k
  <2> QED
    BY <2>1, <2>2 DEF CgiType, Path
<1>2. i + 1 \in 0..Len(q.path)
  BY FoundAt DEF RequestType
<1>3. ScriptEnd(q, h) = IF i = NotFound THEN k.short ELSE i + 1
  BY DEF ScriptEnd
<1> HIDE DEF k, i
<1> QED
  BY <1>1, <1>2, <1>3

\* extractPathInfo cuts the path in two; a path info with a slash makes
\* matchLocation start again.
LEMMA PathInfoLocated ==
    ASSUME NEW q \in RequestType, NEW h \in Hosts, q.cgi \in DOMAIN h.cgis,
           q.loc = MatchRules(h.locations, q.path),
           ~(ScriptEnd(q, h) > Len(q.path))
    PROVE  LET d == ExtractPathInfo(q, h)
           IN /\ d \in RequestType /\ Located(d, h)
              /\ d.type = q.type /\ d.cgi = q.cgi
<1> DEFINE end == ScriptEnd(q, h)
           p == SubSeq(q.path, 1, end)
           i == SubSeq(q.path, end + 1, Len(q.path))
           e == [q EXCEPT !.path = p, !.dir = FALSE, !.pathInfo = i]
           l == MatchRules(h.locations, p)
           d == ExtractPathInfo(q, h)
<1>1. /\ q.path \in Path /\ end \in 0..Len(q.path)
  BY EndFound DEF RequestType
<1>2. /\ p \in Path /\ i \in Path /\ p \o i = q.path
      /\ i = <<>> => p = q.path
  <2> HIDE DEF end
  <2> QED
    BY <1>1, SubSeqPath
<1>3. d = IF "/" \in Range(i) THEN [e EXCEPT !.loc = l] ELSE e
  <2>1. e.pathInfo = i /\ e.path = p
    BY DEF RequestType
  <2> QED
    BY <2>1 DEF ExtractPathInfo
<1> HIDE DEF p, i, end
<1>4. /\ l \in DOMAIN h.locations /\ l \in Nat \ {0}
      /\ q.loc \in DOMAIN h.locations /\ q.loc \in Nat \ {0}
  BY <1>1, <1>2, LocationFound
<1> HIDE DEF l
<1>5. e \in RequestType /\ [e EXCEPT !.loc = l] \in RequestType
  BY <1>2, <1>4 DEF RequestType
<1>6. /\ e.path = p /\ e.pathInfo = i /\ e.loc = q.loc /\ e.type = q.type
      /\ e.cgi = q.cgi
  BY DEF RequestType
<1>7. CASE "/" \in Range(i)
  <2>1. /\ d \in RequestType /\ d.loc = l /\ d.path = p
        /\ d.type = q.type /\ d.cgi = q.cgi
    BY <1>3, <1>5, <1>7 DEF RequestType
  <2>2. Located(d, h)
    BY <1>4, <2>1 DEF Located, l
  <2> QED
    BY <2>1, <2>2
<1>8. CASE "/" \notin Range(i)
  <2>1. d = e
    BY <1>3, <1>8
  <2>2. Located(d, h)
    BY <1>2, <1>4, <1>6, <1>8, <2>1 DEF Located
  <2> QED
    BY <1>5, <1>6, <2>1, <2>2
<1> QED
  BY <1>7, <1>8

\* matchRequest finds the location of the path it ends with, unless it throws.
LEMMA MatchLocated ==
    ASSUME NEW q \in RequestType, NEW h \in Hosts
    PROVE  LET m == MatchRequest(q, h)
           IN /\ m.q \in RequestType /\ m.res \in Nat
              /\ m.res = 0 => Located(m.q, h)
              /\ m.q.type = "cgi" => m.q.cgi \in DOMAIN h.cgis
<1> DEFINE l == MatchRules(h.locations, q.path)
           k == MatchRules(h.cgis, q.path)
           e == [q EXCEPT !.loc = l, !.cgi = k]
           t == IF e.dir THEN "dir" ELSE "static"
           s == [e EXCEPT !.type = "cgi"]
           u == [e EXCEPT !.type = t]
           m == MatchRequest(q, h)
<1>1. /\ l \in DOMAIN h.locations /\ l \in Nat \ {0}
      /\ k \in DOMAIN h.cgis \union {0} /\ k \in Nat
  BY LocationFound DEF RequestType
<1>2. m = IF e.loc = 0 /\ e.cgi = 0
          THEN [q |-> [e EXCEPT !.status = 404, !.type = "none"], res |-> 404]
          ELSE IF e.cgi # 0 /\ ScriptEnd(e, h) > Len(e.path)
          THEN [q |-> s, res |-> Thrown]
          ELSE IF e.cgi # 0 THEN [q |-> ExtractPathInfo(s, h), res |-> 0]
          ELSE [q |-> u, res |-> 0]
  BY DEF MatchRequest
<1>3. e.loc = l /\ e.cgi = k /\ e.path = q.path /\ e \in RequestType
  <2> HIDE DEF l, k
  <2> QED
    BY <1>1 DEF RequestType
<1> HIDE DEF e
<1>4. /\ s \in RequestType /\ s.loc = l /\ s.cgi = k /\ s.type = "cgi"
      /\ s.path = q.path
  BY <1>3 DEF RequestType, Types
<1>5. /\ u \in RequestType /\ u.loc = l /\ u.path = q.path /\ u.type = t
      /\ t \in {"dir", "static"}
  BY <1>3 DEF RequestType, Types
<1> HIDE DEF s, u, t, m
<1>6. CASE k # 0
  <2>2. k \in DOMAIN h.cgis
    BY <1>1, <1>6
  <2>4. ScriptEnd(s, h) = ScriptEnd(e, h)
    BY <1>3, <1>4 DEF ScriptEnd
  <2>5. CASE ScriptEnd(e, h) > Len(e.path)
    <3>1. m.q = s /\ m.res = Thrown
      BY <1>2, <1>3, <1>6, <2>5
    <3> QED
      BY <1>4, <2>2, <3>1 DEF m, Thrown
  <2>6. CASE ~(ScriptEnd(e, h) > Len(e.path))
    <3>1. m.q = ExtractPathInfo(s, h) /\ m.res = 0
      BY <1>2, <1>3, <1>6, <2>6
    <3>2. ~(ScriptEnd(s, h) > Len(s.path))
      BY <1>3, <1>4, <2>4, <2>6
    <3>3. /\ m.q \in RequestType /\ Located(m.q, h) /\ m.q.cgi = k
      BY <1>4, <2>2, <3>1, <3>2, PathInfoLocated
    <3> QED
      BY <2>2, <3>1, <3>3 DEF m
  <2> QED
    BY <2>5, <2>6
<1>7. CASE k = 0
  <2>1. m.q = u /\ m.res = 0
    BY <1>1, <1>2, <1>3, <1>7
  <2>2. Located(u, h)
    BY <1>1, <1>5 DEF Located
  <2> QED
    BY <1>5, <2>1, <2>2 DEF m
<1> QED
  BY <1>6, <1>7

-----------------------------------------------------------------------------
(***************************************************************************)
(* The invariant.  p is the next step of checkRequest, or "done" with the  *)
(* result r.                                                               *)
(***************************************************************************)
\* The steps in S are still to come, or all of them have been passed.
Passed(p, r, S) == p \in S \/ (p = "done" /\ r = 0)

\* What the steps so far have found out about q.
Checked(q, h, p, r) ==
    /\ Passed(p, r, {"redir", "dir", "location", "cgi", "resource"}) =>
         Located(q, h) /\ (q.type = "cgi" => q.cgi \in DOMAIN h.cgis)
    /\ Passed(p, r, {"cgi", "resource"}) => LocationRules(q, h) = 0
    /\ Passed(p, r, {"resource"}) => (q.type = "cgi" => CgiRules(q, h) = 0)

\* The inductive invariant.
RoutingInv ==
    /\ host \in Hosts
    /\ request \in RequestType
    /\ pc \in Steps
    /\ res \in Nat
    /\ Checked(request, host, pc, res)

\* The checks look at these fields.
Alike(q, d) ==
    /\ d.path = q.path /\ d.pathInfo = q.pathInfo /\ d.loc = q.loc
    /\ d.type = q.type /\ d.cgi = q.cgi /\ d.method = q.method

\* Requests that agree on them are checked alike.
LEMMA AlikeChecked ==
    ASSUME NEW q, NEW d, Alike(q, d), NEW h
    PROVE  /\ Located(d, h) <=> Located(q, h)
           /\ LocationRules(d, h) = LocationRules(q, h)
           /\ CgiRules(d, h) = CgiRules(q, h)
           /\ \A p, r : Checked(q, h, p, r) => Checked(d, h, p, r)
<1>1. Located(d, h) <=> Located(q, h)
  BY DEF Alike, Located
<1>2. LocationRules(d, h) = LocationRules(q, h)
  BY DEF Alike, LocationRules, Location, Uploads
<1>3. CgiRules(d, h) = CgiRules(q, h)
  BY DEF Alike, CgiRules
<1> QED
  BY <1>1, <1>2, <1>3 DEF Checked, Alike

\* A check that only gives a status.
LEMMA RefuseAlike ==
    ASSUME RoutingInv, NEW st \in Nat
    PROVE  /\ Refuse(st).q \in RequestType /\ Refuse(st).res = st
           /\ Alike(request, Refuse(st).q)
<1>1. request \in RequestType
  BY DEF RoutingInv
<1>2. Refuse(st).q \in {request, [request EXCEPT !.status = st]}
      /\ Refuse(st).res = st
  BY DEF Refuse
<1>3. /\ [request EXCEPT !.status = st] \in RequestType
      /\ Alike(request, [request EXCEPT !.status = st])
  BY <1>1 DEF RequestType, Alike
<1> QED
  BY <1>1, <1>2, <1>3 DEF Alike

\* A step that goes on to next, or stops with a refusal.
LEMMA GoChecked ==
    ASSUME RoutingInv, NEW r, NEW next \in Steps, Go(r, next),
           r.q \in RequestType, r.res \in Nat, next # "done",
           r.res = 0 => Checked(r.q, host, next, 0)
    PROVE  RoutingInv'
<1>1. /\ request' = r.q /\ res' = r.res /\ host' = host
      /\ pc' = IF r.res = 0 THEN next ELSE "done"
  BY DEF Go
<1>2. pc' \in Steps
  BY <1>1 DEF Steps
<1>3. Checked(r.q, host, pc', r.res)
  <2>1. CASE r.res = 0
    BY <1>1, <2>1
  <2>2. CASE r.res # 0
    BY <1>1, <2>2 DEF Checked, Passed
  <2> QED
    BY <2>1, <2>2
<1> QED
  BY <1>1, <1>2, <1>3 DEF RoutingInv

\* The rules of a location are well formed.
LEMMA RulesType ==
    ASSUME NEW q \in RequestType, NEW h \in Hosts
    PROVE  /\ LocationRules(q, h) \in Nat
           /\ CgiRules(q, h) \in Nat
           /\ q.loc \in DOMAIN h.locations => Location(q, h) \in LocationType
BY HostsAssumption DEF LocationRules, CgiRules, Location

\* The invariant holds at first, and each step keeps it.
LEMMA InitChecked == Init => RoutingInv
<1> SUFFICES ASSUME Init PROVE RoutingInv
  OBVIOUS
<1>1. PICK u \in Uris, m \in Methods : request = NewRequest(u, m)
  BY DEF Init
<1>2. u \in Path /\ <<>> \in Path
  BY UrisAssumption, StringsArePaths DEF Path
<1>3. request \in RequestType
  BY <1>1, <1>2 DEF NewRequest, RequestType, Types
<1>4. Checked(request, host, pc, res)
  BY DEF Init, Checked, Passed
<1> QED
  BY <1>3, <1>4 DEF Init, RoutingInv, Steps

\* parseURI starts the checks anew.
LEMMA ParseChecked == RoutingInv /\ Parse => RoutingInv'
<1> SUFFICES ASSUME RoutingInv, Parse PROVE RoutingInv'
  OBVIOUS
<1>1. ParseURI(request).q \in RequestType /\ ParseURI(request).res \in Nat
  BY ParseURIType DEF RoutingInv
<1>2. \A q : Checked(q, host, "match", 0)
  BY DEF Checked, Passed
<1> QED
  BY <1>1, <1>2, GoChecked DEF Parse, Steps

\* The match gives the request its location.
LEMMA MatchChecked == RoutingInv /\ Match => RoutingInv'
<1> SUFFICES ASSUME RoutingInv, Match PROVE RoutingInv'
  OBVIOUS
<1> DEFINE m == MatchRequest(request, host)
<1>1. /\ m.q \in RequestType /\ m.res \in Nat
      /\ m.res = 0 => Located(m.q, host)
      /\ m.q.type = "cgi" => m.q.cgi \in DOMAIN host.cgis
  BY MatchLocated DEF RoutingInv
<1>2. Go(m, "redir")
  BY DEF Match
<1> HIDE DEF m
<1>3. m.res = 0 => Checked(m.q, host, "redir", 0)
  BY <1>1 DEF Checked, Passed
<1> QED
  BY <1>1, <1>2, <1>3, GoChecked DEF Steps

\* A redirection refuses the request or leaves it alone.
LEMMA RedirectChecked == RoutingInv /\ Redirect => RoutingInv'
<1> SUFFICES ASSUME RoutingInv, Redirect PROVE RoutingInv'
  OBVIOUS
<1> DEFINE st == IF request.loc # 0 THEN Location(request, host).redir ELSE 0
<1>1. Checked(request, host, "redir", res) /\ Go(Refuse(st), "dir")
  BY DEF RoutingInv, Redirect
<1>2. Located(request, host)
  BY <1>1 DEF Checked, Passed
<1>3. st \in Nat
  <2>1. Location(request, host) \in LocationType
    BY <1>2, RulesType DEF RoutingInv, Located
  <2> QED
    BY <2>1 DEF LocationType, Redirections
<1> HIDE DEF st
<1>4. /\ Refuse(st).q \in RequestType /\ Refuse(st).res = st
      /\ Alike(request, Refuse(st).q)
  BY <1>3, RefuseAlike
<1>5. Checked(request, host, "dir", 0)
  BY <1>1 DEF Checked, Passed
<1>6. Checked(Refuse(st).q, host, "dir", 0)
  BY <1>4, <1>5, AlikeChecked
<1> QED
  BY <1>1, <1>3, <1>4, <1>6, GoChecked DEF Steps

\* A default uri gives the request another path, and the location of that.
LEMMA DirChecked == RoutingInv /\ Dir => RoutingInv'
<1> SUFFICES ASSUME RoutingInv, Dir PROVE RoutingInv'
  OBVIOUS
<1>0. /\ request \in RequestType /\ host \in Hosts
      /\ Checked(request, host, "dir", res)
  BY DEF RoutingInv, Dir
<1>1. Located(request, host) /\ Checked(request, host, "location", 0)
  BY <1>0 DEF Checked, Passed
<1>2. CASE request.type = "dir"
  <2> DEFINE q == [request EXCEPT !.folder = request.loc]
             a == AppendDefault(q, host)
             m == MatchRequest(ParseURI(a).q, host)
             f == [q EXCEPT !.status = 403]
             r == CheckDir(q, host)
  <2>1. Go(r, "location")
    BY <1>2 DEF Dir
  <2>2. q \in RequestType /\ Alike(request, q) /\ q.uri = request.uri
    BY <1>0 DEF RequestType, Alike
  <2>3. f \in RequestType /\ Alike(request, f)
    <3> HIDE DEF q
    <3>1. f \in RequestType /\ Alike(q, f)
      BY <2>2 DEF RequestType, Alike
    <3> HIDE DEF f
    <3> QED
      BY <2>2, <3>1 DEF Alike
  <2>4. a \in RequestType
    <3>1. Located(q, host)
      BY <1>1, <2>2, AlikeChecked
    <3>2. Location(q, host).defaultUri \in Path
      <4> HIDE DEF q
      <4>1. Location(q, host) \in LocationType
        BY <1>0, <2>2, <3>1, RulesType DEF Located
      <4> QED
        BY <4>1, StringsArePaths DEF LocationType
    <3> HIDE DEF q
    <3>3. q.uri \o Location(q, host).defaultUri \in Path
      BY <2>2, <3>2 DEF RequestType, Path
    <3> QED
      BY <2>2, <3>3 DEF AppendDefault, RequestType
  <2>5. \/ r = m \/ r = [q |-> f, res |-> 403] \/ r = [q |-> q, res |-> 0]
    BY DEF CheckDir
  <2>6. /\ m.q \in RequestType /\ m.res \in Nat
        /\ m.res = 0 => Located(m.q, host)
        /\ m.q.type = "cgi" => m.q.cgi \in DOMAIN host.cgis
    <3> HIDE DEF a
    <3>1. ParseURI(a).q \in RequestType
      BY <2>4, ParseURIType
    <3> QED
      BY <1>0, <3>1, MatchLocated
  <2> HIDE DEF q, f, m, r
  <2>7. CASE r = m
    <3>1. m.res = 0 => Checked(m.q, host, "location", 0)
      BY <2>6 DEF Checked, Passed
    <3> QED
      BY <2>1, <2>6, <2>7, <3>1, GoChecked DEF Steps
  <2>8. CASE r = [q |-> f, res |-> 403]
    <3>1. r.q = f /\ r.res = 403
      BY <2>8
    <3> QED
      BY <2>1, <2>3, <3>1, GoChecked DEF Steps
  <2>9. CASE r = [q |-> q, res |-> 0]
    <3>1. r.q = q /\ r.res = 0
      BY <2>9
    <3>2. Checked(q, host, "location", 0)
      BY <1>1, <2>2, AlikeChecked
    <3> QED
      BY <2>1, <2>2, <3>1, <3>2, GoChecked DEF Steps
  <2> QED
    BY <2>5, <2>7, <2>8, <2>9
<1>3. CASE request.type # "dir"
  <2>1. Go(Refuse(0), "location")
    BY <1>3 DEF Dir
  <2>2. /\ Refuse(0).q \in RequestType /\ Refuse(0).res = 0
        /\ Alike(request, Refuse(0).q)
    BY RefuseAlike
  <2>3. Checked(Refuse(0).q, host, "location", 0)
    BY <1>1, <2>2, AlikeChecked
  <2> QED
    BY <2>1, <2>2, <2>3, GoChecked DEF Steps
<1> QED
  BY <1>2, <1>3

\* What passes keeps to the rules of its location,
LEMMA LocationCheckChecked == RoutingInv /\ LocationCheck => RoutingInv'
<1> SUFFICES ASSUME RoutingInv, LocationCheck PROVE RoutingInv'
  OBVIOUS
<1> DEFINE st == IF request.loc # 0 THEN LocationRules(request, host) ELSE 0
<1>1. Checked(request, host, "location", res) /\ Go(Refuse(st), "cgi")
  BY DEF RoutingInv, LocationCheck
<1>2. Located(request, host)
  BY <1>1 DEF Checked, Passed
<1>3. st = LocationRules(request, host) /\ st \in Nat
  BY <1>2, RulesType DEF Located, RoutingInv
<1> HIDE DEF st
<1>4. /\ Refuse(st).q \in RequestType /\ Refuse(st).res = st
      /\ Alike(request, Refuse(st).q)
  BY <1>3, RefuseAlike
<1>5. st = 0 => Checked(request, host, "cgi", 0)
  BY <1>1, <1>3 DEF Checked, Passed
<1>6. st = 0 => Checked(Refuse(st).q, host, "cgi", 0)
  BY <1>4, <1>5, AlikeChecked
<1> QED
  BY <1>1, <1>3, <1>4, <1>6, GoChecked DEF Steps

\* and of its CGI block.
LEMMA CgiCheckChecked == RoutingInv /\ CgiCheck => RoutingInv'
<1> SUFFICES ASSUME RoutingInv, CgiCheck PROVE RoutingInv'
  OBVIOUS
<1> DEFINE st == IF request.type = "cgi" THEN CgiRules(request, host) ELSE 0
<1>1. Checked(request, host, "cgi", res) /\ Go(Refuse(st), "resource")
  BY DEF RoutingInv, CgiCheck
<1>2. st \in Nat /\ (request.type = "cgi" => st = CgiRules(request, host))
  BY RulesType DEF RoutingInv
<1> HIDE DEF st
<1>3. /\ Refuse(st).q \in RequestType /\ Refuse(st).res = st
      /\ Alike(request, Refuse(st).q)
  BY <1>2, RefuseAlike
<1>4. st = 0 => Checked(request, host, "resource", 0)
  BY <1>1, <1>2 DEF Checked, Passed
<1>5. st = 0 => Checked(Refuse(st).q, host, "resource", 0)
  BY <1>3, <1>4, AlikeChecked
<1> QED
  BY <1>1, <1>2, <1>3, <1>5, GoChecked DEF Steps

\* The file system has no say in these rules.
LEMMA ResourceChecked == RoutingInv /\ Resource => RoutingInv'
<1> SUFFICES ASSUME RoutingInv, Resource PROVE RoutingInv'
  OBVIOUS
<1>1. PICK f \in Found :
        Go([q |-> [request EXCEPT !.status = RessourceExistence(request, f)],
            res |-> RessourceExistence(request, f)], "done")
  BY DEF Resource
<1> DEFINE st == RessourceExistence(request, f)
           q == [request EXCEPT !.status = st]
<1>2. st \in Nat
  BY DEF RessourceExistence, RessourcePath
<1> HIDE DEF st
<1>3. request' = q /\ res' = st /\ pc' = "done" /\ host' = host
  BY <1>1 DEF Go, st
<1>4. q \in RequestType /\ Alike(request, q)
  BY <1>2 DEF RoutingInv, RequestType, Alike
<1> HIDE DEF q
<1>5. Checked(request, host, "resource", res)
  BY DEF RoutingInv, Resource
<1>6. Checked(request, host, "done", st)
  BY <1>5 DEF Checked, Passed
<1>7. Checked(q, host, "done", st)
  BY <1>4, <1>6, AlikeChecked
<1> QED
  BY <1>2, <1>3, <1>4, <1>7 DEF RoutingInv, Steps

\* Another uri is parsed and checked from the start.
LEMMA LocalRedirectChecked == RoutingInv /\ LocalRedirect => RoutingInv'
<1> SUFFICES ASSUME RoutingInv, LocalRedirect PROVE RoutingInv'
  OBVIOUS
<1>1. PICK u \in Targets : request' = [request EXCEPT !.uri = u, !.folder = 0]
  BY DEF LocalRedirect
<1>2. u \in Path
  BY UrisAssumption, StringsArePaths
<1>3. request' \in RequestType
  BY <1>1, <1>2 DEF RoutingInv, RequestType
<1>4. pc' = "parse" /\ host' = host /\ res' = res
  BY DEF LocalRedirect
<1>5. Checked(request', host, "parse", res)
  BY DEF Checked, Passed
<1> QED
  BY <1>3, <1>4, <1>5 DEF RoutingInv, Steps

\* At every step of checkRequest the request has passed the checks so far, for
\* its own location: for every host, every URI and every chain of local
\* redirections.
THEOREM RoutingInvariant == Spec => []RoutingInv
<1>1. RoutingInv /\ UNCHANGED vars => RoutingInv'
  BY DEF RoutingInv, vars, Checked, Passed, Located, LocationRules, CgiRules,
         Location, Uploads
<1>2. RoutingInv /\ [Next]_vars => RoutingInv'
  BY <1>1, ParseChecked, MatchChecked, RedirectChecked, DirChecked,
     LocationCheckChecked, CgiCheckChecked, ResourceChecked,
     LocalRedirectChecked DEF Next
<1> QED
  BY <1>2, InitChecked, PTL DEF Spec

\* An accepted request keeps to the rules of the location that its path leads
\* to in the end, and of its CGI block.
THEOREM AcceptedIsAllowedAlways == Spec => []AcceptedIsAllowed
<1>1. RoutingInv => AcceptedIsAllowed
  <2> SUFFICES ASSUME RoutingInv, Accepted PROVE AcceptedIsAllowed
    BY DEF AcceptedIsAllowed
  <2>1. /\ Located(request, host) /\ LocationRules(request, host) = 0
        /\ request.type = "cgi" => CgiRules(request, host) = 0
    BY DEF RoutingInv, Accepted, Checked, Passed
  <2>2. Governs(request.loc)
    BY <2>1 DEF Located, Governs
  <2>3. /\ request.method \in Location(request, host).methods
        /\ request.type = "static" /\ Uploads(request) =>
             Location(request, host).upload
    <3>1. Location(request, host).upload \in BOOLEAN
      BY <2>1, RulesType DEF RoutingInv, Located, LocationType
    <3> QED
      BY <2>1, <3>1 DEF LocationRules
  <2>4. request.type = "cgi" => request.method \in host.cgis[request.cgi].methods
    BY <2>1 DEF CgiRules
  <2> QED
    BY <2>2, <2>3, <2>4 DEF AcceptedIsAllowed
<1> QED
  BY <1>1, RoutingInvariant, PTL

-----------------------------------------------------------------------------
(***************************************************************************)
(* Where a path leads.                                                     *)
(***************************************************************************)
\* WalkPieces takes the pieces one by one.
LEMMA WalkNothing == WalkPieces(<<>>) = <<>>
<1>1. <<>> \in Pieces /\ Len(<<>>) = 0
  BY DEF Pieces
<1>2. PICK f : WalkPieces(<<>>) = f[Len(<<>>)] /\ f[0] = <<>>
  BY <1>1, WalkRun
<1> QED
  BY <1>1, <1>2

\* The last piece is walked last.
LEMMA WalkAppend ==
    ASSUME NEW v \in Pieces, NEW s \in Word
    PROVE  WalkPieces(Append(v, s)) = WalkStep(WalkPieces(v), s)
<1> DEFINE w == Append(v, s)
           N == Len(v)
<1>1. /\ w \in Pieces /\ Len(w) = N + 1 /\ N \in Nat
      /\ \A n \in 1..N : w[n] = v[n]
      /\ w[N + 1] = s
  BY DEF Pieces
<1>2. PICK f : /\ WalkPieces(v) = f[N] /\ f[0] = <<>>
               /\ \A n \in 1..N : f[n] = WalkStep(f[n - 1], v[n])
  BY WalkRun
<1> HIDE DEF w, N
<1>3. PICK g : /\ WalkPieces(w) = g[N + 1] /\ g[0] = <<>>
               /\ \A n \in 1..(N + 1) : g[n] = WalkStep(g[n - 1], w[n])
  BY <1>1, WalkRun, ZenonT(60)
<1>4. \A n \in 0..N : g[n] = f[n]
  <2>1. \A n \in 1..N : g[n] = WalkStep(g[n - 1], v[n])
    BY <1>1, <1>3
  <2>2. \A n \in 1..N : g[n - 1] = f[n - 1] => g[n] = f[n]
    BY <1>2, <2>1
  <2>3. g[0] = f[0]
    BY <1>2, <1>3
  <2> QED
    BY <1>1, <2>2, <2>3, SameRun
<1>5. g[N + 1] = WalkStep(g[N], s) /\ g[N] = f[N]
  <2>1. N + 1 \in 1..(N + 1) /\ (N + 1) - 1 = N /\ N \in 0..N
    BY <1>1
  <2> QED
    BY <1>1, <1>3, <1>4, <2>1
<1> QED
  BY <1>2, <1>3, <1>5 DEF w

\* The "." that pruning takes from the front leads nowhere.
LEMMA WalkDropDot ==
    ASSUME NEW ss \in NonEmpty
    PROVE  /\ DropDot(ss) \in NonEmpty
           /\ WalkPieces(DropDot(ss)) = WalkPieces(ss)
<1>1. CASE Len(ss) > 1 /\ ss[1] = <<".">>
  <2> DEFINE t == Tail(ss)
             N == Len(t)
  <2>1. /\ t \in NonEmpty /\ N \in Nat /\ Len(ss) = N + 1
        /\ \A n \in 1..N : t[n] = ss[n + 1]
    <3>1. ss \in Seq(Word) /\ ss # <<>> /\ Len(ss) \in Nat
      BY DEF NonEmpty, Pieces
    <3>2. /\ t \in Seq(Word) /\ N = Len(ss) - 1
          /\ \A n \in 1..N : t[n] = ss[n + 1]
      BY <3>1, HeadTailProperties
    <3> HIDE DEF t, N
    <3>3. N \in Nat /\ N > 0 /\ Len(ss) = N + 1
      BY <1>1, <3>1, <3>2
    <3>4. t # <<>>
      BY <3>3 DEF N
    <3> QED
      BY <3>2, <3>3, <3>4 DEF NonEmpty, Pieces
  <2>2. DropDot(ss) = t
    BY <1>1 DEF DropDot
  <2> HIDE DEF t
  <2>3. PICK f : /\ WalkPieces(t) = f[N] /\ f[0] = <<>>
                 /\ \A n \in 1..N : f[n] = WalkStep(f[n - 1], t[n])
    BY <2>1, WalkRun DEF NonEmpty
  <2> HIDE DEF N
  <2>4. PICK g : /\ WalkPieces(ss) = g[N + 1] /\ g[0] = <<>>
                 /\ \A n \in 1..(N + 1) : g[n] = WalkStep(g[n - 1], ss[n])
    BY <2>1, WalkRun, ZenonT(60) DEF NonEmpty
  <2> DEFINE h == [n \in 0..N |-> g[n + 1]]
  <2>5. h[0] = f[0]
    <3>1. 1 \in 1..(N + 1) /\ g[1] = WalkStep(g[0], <<".">>)
      <4>1. 1 \in 1..(N + 1) /\ 1 - 1 = 0
        BY <2>1
      <4> QED
        BY <1>1, <2>4, <4>1
    <3>2. g[1] = <<>>
      BY <2>4, <3>1 DEF WalkStep
    <3> QED
      BY <2>1, <2>3, <3>2
  <2>6. \A n \in 1..N : h[n - 1] = f[n - 1] => h[n] = f[n]
    <3> SUFFICES ASSUME NEW n \in 1..N, h[n - 1] = f[n - 1] PROVE h[n] = f[n]
      OBVIOUS
    <3>1. n + 1 \in 1..(N + 1) /\ (n + 1) - 1 = n /\ (n - 1) + 1 = n
          /\ n \in 0..N /\ n - 1 \in 0..N
      BY <2>1
    <3>2. h[n] = WalkStep(g[n], t[n]) /\ h[n - 1] = g[n]
      BY <2>1, <2>4, <3>1
    <3> QED
      BY <2>3, <3>2
  <2>7. \A n \in 0..N : h[n] = f[n]
    <3> HIDE DEF h
    <3>1. N \in Nat
      BY <2>1
    <3> QED
      BY <2>5, <2>6, <3>1, SameRun
  <2>8. N \in 0..N /\ h[N] = g[N + 1]
    BY <2>1
  <2> QED
    BY <2>1, <2>2, <2>3, <2>4, <2>7, <2>8
<1>2. CASE ~(Len(ss) > 1 /\ ss[1] = <<".">>)
  BY <1>2 DEF DropDot
<1> QED
  BY <1>1, <1>2

\* Appending, and taking it away again.
LEMMA FrontAppend ==
    ASSUME NEW v \in Pieces, NEW s \in Word
    PROVE  Front(Append(v, s)) = v /\ Last(Append(v, s)) = s
<1> DEFINE w == Append(v, s)
<1>1. /\ Len(w) = Len(v) + 1 /\ Len(v) \in Nat /\ w[Len(v) + 1] = s
      /\ v \in Seq(Word) /\ w \in Seq(Word)
      /\ \A i \in 1..Len(v) : w[i] = v[i]
  BY DEF Pieces
<1> HIDE DEF w
<1>2. SubSeq(w, 1, Len(v)) = v
  <2>1. \A i \in 1..Len(v) : w[i] \in Word
    BY <1>1
  <2>2. /\ SubSeq(w, 1, Len(v)) \in Seq(Word)
        /\ Len(SubSeq(w, 1, Len(v))) = Len(v)
        /\ \A i \in 1..Len(v) : SubSeq(w, 1, Len(v))[i] = w[i]
    BY <1>1, <2>1
  <2> QED
    BY <1>1, <2>2, SeqEqual
<1>3. Len(w) - 1 = Len(v)
  BY <1>1
<1> QED
  BY <1>1, <1>2, <1>3 DEF Front, Last, w

\* A sequence of pieces is its front and its last piece.
LEMMA AppendFront ==
    ASSUME NEW v \in NonEmpty
    PROVE  /\ v = Append(Front(v), Last(v))
           /\ Front(v) \in Pieces /\ Last(v) \in Word
           /\ Len(v) = Len(Front(v)) + 1
           /\ \A i \in 1..Len(Front(v)) : Front(v)[i] = v[i]
<1> DEFINE N == Len(v)
           f == Front(v)
<1>1. v \in Seq(Word) /\ N \in Nat \ {0} /\ v[N] \in Word
  BY DEF NonEmpty, Pieces
<1>2. /\ f \in Seq(Word) /\ Len(f) = N - 1
      /\ \A i \in 1..(N - 1) : f[i] = v[i]
  <2> DEFINE m == N - 1
  <2>1. m \in Nat /\ m <= N /\ f = SubSeq(v, 1, m)
    BY <1>1 DEF Front
  <2> HIDE DEF m, N, f
  <2>2. \A i \in 1..m : v[i] \in Word
    BY <1>1, <2>1 DEF N
  <2>3. /\ SubSeq(v, 1, m) \in Seq(Word) /\ Len(SubSeq(v, 1, m)) = m
        /\ \A i \in 1..m : SubSeq(v, 1, m)[i] = v[i]
    BY <1>1, <2>1, <2>2 DEF N
  <2> QED
    BY <2>1, <2>3 DEF m
<1>3. N = Len(f) + 1
  BY <1>1, <1>2
<1> HIDE DEF f
<1>4. Append(f, v[N]) = v
  <2>1. /\ Append(f, v[N]) \in Seq(Word) /\ Len(Append(f, v[N])) = N
        /\ \A i \in 1..(N - 1) : Append(f, v[N])[i] = f[i]
        /\ Append(f, v[N])[N] = v[N]
    BY <1>1, <1>2, <1>3
  <2>2. \A i \in 1..N : i \in 1..(N - 1) \/ i = N
    BY <1>1
  <2>3. \A i \in 1..N : Append(f, v[N])[i] = v[i]
    BY <1>2, <2>1, <2>2
  <2> QED
    BY <1>1, <2>1, <2>3, SeqEqual
<1> QED
  BY <1>1, <1>2, <1>3, <1>4 DEF f, Last, Pieces

\* A piece that leads nowhere.
Idle == {<<>>, <<".">>}

\* No such piece behind the first.
Dense(v) == \A i \in 2..Len(v) : v[i] \notin Idle

\* A piece that leads somewhere may follow.
LEMMA DenseAppend ==
    ASSUME NEW v \in Pieces, Dense(v), NEW s \in Word, v = <<>> \/ s \notin Idle
    PROVE  Dense(Append(v, s))
<1>1. /\ Len(Append(v, s)) = Len(v) + 1 /\ Len(v) \in Nat
      /\ \A i \in 1..Len(v) : Append(v, s)[i] = v[i]
      /\ Append(v, s)[Len(v) + 1] = s
  BY DEF Pieces
<1> SUFFICES ASSUME NEW i \in 2..(Len(v) + 1) PROVE Append(v, s)[i] \notin Idle
  BY <1>1 DEF Dense
<1>2. CASE i \in 2..Len(v)
  <2>1. i \in 1..Len(v)
    BY <1>1, <1>2
  <2> QED
    BY <1>1, <1>2, <2>1 DEF Dense
<1>3. CASE i = Len(v) + 1
  <2>1. v # <<>>
    <3>1. v = <<>> => Len(v) = 0
      BY DEF Pieces
    <3> QED
      BY <1>1, <1>3, <3>1
  <2> QED
    BY <1>1, <1>3, <2>1
<1>4. i \in 2..Len(v) \/ i = Len(v) + 1
  BY <1>1
<1> QED
  BY <1>2, <1>3, <1>4

\* Compact leaves out what leads nowhere.
LEMMA WalkCompact ==
    ASSUME NEW ss \in NonEmpty
    PROVE  /\ Compact(ss) \in NonEmpty
           /\ WalkPieces(Compact(ss)) = WalkPieces(ss)
           /\ Dense(Front(Compact(ss)))
<1> DEFINE N == Len(ss)
<1>1. N \in Nat \ {0} /\ ss \in Pieces /\ \A n \in 1..N : ss[n] \in Word
  BY DEF NonEmpty, Pieces
<1>2. PICK c :
        /\ \A n \in 0..N : c[n] \in Pieces
        /\ Compact(ss) = c[N]
        /\ c[0] = <<>>
        /\ \A n \in 1..N : c[n] = IF n \in 2..(N - 1) /\ ss[n] \in Idle
                                  THEN c[n - 1] ELSE Append(c[n - 1], ss[n])
  BY CompactRun DEF Idle
<1>3. PICK f : /\ WalkPieces(ss) = f[N] /\ f[0] = <<>>
               /\ \A n \in 1..N : f[n] = WalkStep(f[n - 1], ss[n])
  BY <1>1, WalkRun
<1> HIDE DEF N
<1>4. \A n \in 0..N : c[n] \in Pieces
  BY <1>2
<1> DEFINE g == [n \in 0..N |-> WalkPieces(c[n])]
<1>5. g[0] = f[0]
  BY <1>1, <1>2, <1>3, WalkNothing
<1>6. \A n \in 1..N : g[n - 1] = f[n - 1] => g[n] = f[n]
  <2> SUFFICES ASSUME NEW n \in 1..N, g[n - 1] = f[n - 1] PROVE g[n] = f[n]
    OBVIOUS
  <2>1. n - 1 \in 0..N /\ n \in 0..N
    BY <1>1
  <2>2. g[n - 1] = WalkPieces(c[n - 1]) /\ g[n] = WalkPieces(c[n])
    BY <2>1
  <2>3. CASE n \in 2..(N - 1) /\ ss[n] \in Idle
    <3>1. c[n] = c[n - 1]
      BY <1>2, <2>3
    <3>2. WalkStep(f[n - 1], ss[n]) = f[n - 1]
      BY <2>3 DEF WalkStep, Idle
    <3> QED
      BY <1>3, <2>2, <3>1, <3>2
  <2>4. CASE ~(n \in 2..(N - 1) /\ ss[n] \in Idle)
    <3>1. c[n] = Append(c[n - 1], ss[n])
      BY <1>2, <2>4
    <3>2. WalkPieces(c[n]) = WalkStep(WalkPieces(c[n - 1]), ss[n])
      BY <1>1, <1>4, <2>1, <3>1, WalkAppend
    <3> QED
      BY <1>3, <2>2, <3>2
  <2> QED
    BY <2>3, <2>4
<1>7. \A n \in 0..N : g[n] = f[n]
  <2> HIDE DEF g
  <2>1. N \in Nat
    BY <1>1
  <2> QED
    BY <1>5, <1>6, <2>1, SameRun
<1>8. WalkPieces(Compact(ss)) = WalkPieces(ss)
  <2>1. N \in 0..N
    BY <1>1
  <2> QED
    BY <1>2, <1>3, <1>7, <2>1
<1>9. \A n \in 0..(N - 1) : Dense(c[n])
  <2> DEFINE Bad == {n \in 0..(N - 1) : ~Dense(c[n])}
  <2>1. 0 \notin Bad
    <3>1. Len(<<>>) = 0
      OBVIOUS
    <3>2. Dense(c[0])
      BY <1>2, <3>1 DEF Dense
    <3> QED
      BY <3>2
  <2>2. \A n \in 1..(N - 1) : n \in Bad => n - 1 \in Bad
    <3> SUFFICES ASSUME NEW n \in 1..(N - 1), Dense(c[n - 1])
                 PROVE  Dense(c[n])
      BY <1>1
    <3>1. n \in 1..N /\ n - 1 \in 0..N
      BY <1>1
    <3>2. CASE c[n] = c[n - 1]
      BY <3>2
    <3>3. CASE c[n] = Append(c[n - 1], ss[n]) /\ ~(n \in 2..(N - 1) /\ ss[n] \in Idle)
      <4>1. c[n - 1] = <<>> \/ ss[n] \notin Idle
        <5>1. n = 1 \/ n \in 2..(N - 1)
          BY <1>1
        <5>2. n = 1 => c[n - 1] = <<>>
          BY <1>2
        <5> QED
          BY <3>3, <5>1, <5>2
      <4> QED
        BY <1>1, <1>4, <3>1, <3>3, <4>1, DenseAppend
    <3> QED
      BY <1>2, <3>1, <3>2, <3>3
  <2>3. N - 1 \in Nat /\ Bad \in SUBSET (0..(N - 1))
    BY <1>1
  <2>4. Bad = {}
    <3> HIDE DEF Bad
    <3> QED
      BY <2>1, <2>2, <2>3, NoFirst
  <2> QED
    BY <2>4
<1>10. /\ Compact(ss) = Append(c[N - 1], ss[N]) /\ c[N - 1] \in Pieces
       /\ ss[N] \in Word /\ Dense(c[N - 1])
  <2>1. N \in 1..N /\ N \notin 2..(N - 1) /\ N - 1 \in 0..N /\ N - 1 \in 0..(N - 1)
    BY <1>1
  <2> QED
    BY <1>1, <1>2, <1>4, <1>9, <2>1
<1>11. Compact(ss) \in NonEmpty
  BY <1>10 DEF NonEmpty, Pieces
<1>12. Front(Compact(ss)) = c[N - 1]
  BY <1>10, FrontAppend
<1> QED
  BY <1>8, <1>10, <1>11, <1>12

\* A walk that only goes down, but perhaps for its first piece.
Descent(v) == Dense(v) /\ \A i \in 1..Len(v) : v[i] # <<"..">>

\* And so may one that does not climb.
LEMMA DescentAppend ==
    ASSUME NEW v \in Pieces, Descent(v), NEW s \in Word, s # <<"..">>,
           v = <<>> \/ s \notin Idle
    PROVE  Descent(Append(v, s))
<1>1. /\ Len(Append(v, s)) = Len(v) + 1 /\ Len(v) \in Nat
      /\ \A i \in 1..Len(v) : Append(v, s)[i] = v[i]
      /\ Append(v, s)[Len(v) + 1] = s
  BY DEF Pieces
<1>2. \A i \in 1..(Len(v) + 1) : i \in 1..Len(v) \/ i = Len(v) + 1
  BY <1>1
<1>3. \A i \in 1..Len(Append(v, s)) : Append(v, s)[i] # <<"..">>
  BY <1>1, <1>2 DEF Descent
<1> QED
  BY <1>3, DenseAppend DEF Descent

\* ".." takes back the last step of a descent.
LEMMA DescentFront ==
    ASSUME NEW v \in NonEmpty, Descent(v)
    PROVE  /\ Front(v) \in Pieces /\ Descent(Front(v))
           /\ WalkPieces(Front(v)) = WalkStep(WalkPieces(v), <<"..">>)
<1> DEFINE u == Front(v)
           s == Last(v)
           w == WalkPieces(u)
<1>1. /\ v = Append(u, s) /\ u \in Pieces /\ s \in Word
      /\ Len(v) = Len(u) + 1 /\ \A i \in 1..Len(u) : u[i] = v[i]
      /\ Len(u) \in Nat
  <2>1. Front(v) \in Pieces => Len(Front(v)) \in Nat
    BY DEF Pieces
  <2> QED
    BY <2>1, AppendFront
<1>2. s = v[Len(v)] /\ Len(v) \in 1..Len(v)
  BY <1>1 DEF Last
<1> HIDE DEF u, s
<1>3. Descent(u)
  BY <1>1 DEF Descent, Dense
<1>4. s # <<"..">> /\ (Len(u) > 0 => s \notin Idle)
  <2>1. Len(u) > 0 => Len(v) \in 2..Len(v)
    BY <1>1
  <2> QED
    BY <1>2, <2>1 DEF Descent, Dense
<1>5. WalkPieces(v) = WalkStep(w, s)
  BY <1>1, WalkAppend
<1>6. w \in Pieces
  <2>1. PICK f \in [0..Len(u) -> Pieces] : w = f[Len(u)]
    BY <1>1, WalkRun
  <2>2. Len(u) \in 0..Len(u)
    BY <1>1
  <2> QED
    BY <2>1, <2>2
<1> HIDE DEF w
<1>7. CASE s \notin Idle
  <2>1. WalkPieces(v) = Append(w, s)
    BY <1>4, <1>5, <1>7 DEF WalkStep, Idle
  <2>2. Append(w, s) # <<>> /\ Front(Append(w, s)) = w
    BY <1>1, <1>6, FrontAppend DEF Pieces
  <2>3. WalkStep(Append(w, s), <<"..">>) = w
    BY <2>2 DEF WalkStep
  <2> QED
    BY <1>1, <1>3, <2>1, <2>3 DEF w, u
<1>8. CASE s \in Idle
  <2>1. u = <<>>
    <3>1. Len(u) = 0
      BY <1>1, <1>4, <1>8
    <3> QED
      BY <1>1, <3>1 DEF Pieces
  <2>2. w = <<>>
    BY <2>1, WalkNothing DEF w
  <2>3. WalkPieces(v) = <<>>
    BY <1>5, <1>8, <2>2 DEF WalkStep, Idle
  <2>4. WalkStep(<<>>, <<"..">>) = <<>>
    BY DEF WalkStep
  <2> QED
    BY <1>1, <1>3, <2>2, <2>3, <2>4 DEF w, u
<1> QED
  BY <1>7, <1>8

\* One turn of the loop.
LEMMA ClimbStepWalk ==
    ASSUME NEW r \in Walked, NEW s \in Word, r.ok => Descent(r.v),
           r.v = <<>> \/ s \notin Idle, ClimbStep(r, s).ok
    PROVE  /\ r.ok
           /\ Descent(ClimbStep(r, s).v)
           /\ WalkPieces(ClimbStep(r, s).v) = WalkStep(WalkPieces(r.v), s)
<1>1. r.v \in Pieces /\ r.ok \in BOOLEAN
  BY DEF Walked
<1>2. CASE s # <<"..">>
  <2>1. ClimbStep(r, s).v = Append(r.v, s) /\ r.ok
    BY <1>2 DEF ClimbStep, Walked
  <2> QED
    BY <1>1, <1>2, <2>1, DescentAppend, WalkAppend
<1>3. CASE s = <<"..">> /\ r.v = <<>>
  BY <1>3 DEF ClimbStep, Walked
<1>4. CASE s = <<"..">> /\ r.v # <<>>
  <2>1. ClimbStep(r, s).v = Front(r.v) /\ r.ok
    BY <1>4 DEF ClimbStep, Walked
  <2>2. r.v \in NonEmpty
    BY <1>1, <1>4 DEF NonEmpty
  <2> QED
    BY <1>4, <2>1, <2>2, DescentFront
<1> QED
  BY <1>2, <1>3, <1>4

\* Taking the ".." out of a path changes nothing in where it leads.
LEMMA WalkClimb ==
    ASSUME NEW ss \in NonEmpty, Dense(Front(ss)), Climb(ss).ok
    PROVE  /\ Climb(ss).v \in Pieces
           /\ Descent(Climb(ss).v)
           /\ WalkPieces(Append(Climb(ss).v, Last(ss))) = WalkPieces(ss)
<1> DEFINE N == Len(ss) - 1
<1>1. /\ N \in Nat /\ Len(ss) = N + 1 /\ ss \in Pieces
      /\ \A n \in 1..(N + 1) : ss[n] \in Word
      /\ Last(ss) = ss[N + 1]
  BY DEF NonEmpty, Pieces, Last
<1>2. \A n \in 2..N : ss[n] \notin Idle
  <2>1. /\ Len(Front(ss)) = N
        /\ \A i \in 1..N : Front(ss)[i] = ss[i]
    <3>1. /\ Len(ss) = Len(Front(ss)) + 1
          /\ \A i \in 1..Len(Front(ss)) : Front(ss)[i] = ss[i]
          /\ Front(ss) \in Pieces
      BY AppendFront
    <3>2. Len(Front(ss)) = N
      BY <3>1 DEF Pieces
    <3> QED
      BY <3>1, <3>2
  <2>2. \A n \in 2..N : n \in 1..N
    BY <1>1
  <2> QED
    BY <2>1, <2>2 DEF Dense
<1>3. PICK c :
        /\ \A n \in 0..N : c[n] \in Walked
        /\ Climb(ss) = c[N]
        /\ c[0] = [ok |-> TRUE, v |-> <<>>]
        /\ \A n \in 1..N : c[n] = ClimbStep(c[n - 1], ss[n])
  <2>1. PICK c \in [0..(Len(ss) - 1) -> Walked] :
               /\ Climb(ss) = c[Len(ss) - 1]
               /\ c[0] = [ok |-> TRUE, v |-> <<>>]
               /\ \A n \in 1..(Len(ss) - 1) : c[n] = ClimbStep(c[n - 1], ss[n])
    BY ClimbRun
  <2>2. \A n \in 0..N : c[n] \in Walked
    OBVIOUS
  <2> QED
    BY <2>1, <2>2
<1> HIDE DEF N
<1>4. PICK f : /\ WalkPieces(ss) = f[N + 1] /\ f[0] = <<>>
               /\ \A n \in 1..(N + 1) : f[n] = WalkStep(f[n - 1], ss[n])
  BY <1>1, WalkRun
<1> DEFINE Right(n) == c[n].ok => /\ Descent(c[n].v)
                                  /\ WalkPieces(c[n].v) = f[n]
           Bad == {n \in 0..N : ~Right(n)}
<1>5. 0 \notin Bad
  <2>1. Len(<<>>) = 0
    OBVIOUS
  <2>2. Descent(<<>>)
    BY <2>1 DEF Descent, Dense
  <2> QED
    BY <1>3, <1>4, <2>2, WalkNothing
<1>6. \A n \in 1..N : n \in Bad => n - 1 \in Bad
  <2> SUFFICES ASSUME NEW n \in 1..N, Right(n - 1) PROVE Right(n)
    BY <1>1
  <2> SUFFICES ASSUME c[n].ok
               PROVE  Descent(c[n].v) /\ WalkPieces(c[n].v) = f[n]
    OBVIOUS
  <2>1. n \in 1..(N + 1) /\ n - 1 \in 0..N
    BY <1>1
  <2>2. /\ c[n] = ClimbStep(c[n - 1], ss[n]) /\ c[n - 1] \in Walked
        /\ ss[n] \in Word /\ f[n] = WalkStep(f[n - 1], ss[n])
    BY <1>1, <1>3, <1>4, <2>1
  <2>3. c[n - 1].v = <<>> \/ ss[n] \notin Idle
    <3>1. n = 1 \/ n \in 2..N
      BY <1>1
    <3>2. n = 1 => c[n - 1].v = <<>>
      BY <1>3
    <3> QED
      BY <1>2, <3>1, <3>2
  <2>4. /\ c[n - 1].ok /\ Descent(c[n].v)
        /\ WalkPieces(c[n].v) = WalkStep(WalkPieces(c[n - 1].v), ss[n])
    BY <2>2, <2>3, ClimbStepWalk
  <2> QED
    BY <2>2, <2>4
<1>7. Bad = {}
  <2>1. Bad \in SUBSET (0..N)
    OBVIOUS
  <2> HIDE DEF Bad
  <2> QED
    BY <1>1, <1>5, <1>6, <2>1, NoFirst
<1>8. /\ Climb(ss).v \in Pieces /\ Descent(Climb(ss).v)
      /\ WalkPieces(Climb(ss).v) = f[N]
  <2>1. N \in 0..N
    BY <1>1
  <2> QED
    BY <1>3, <1>7, <2>1 DEF Walked
<1>9. f[N + 1] = WalkStep(f[N], ss[N + 1]) /\ ss[N + 1] \in Word
  <2>1. N + 1 \in 1..(N + 1) /\ (N + 1) - 1 = N
    BY <1>1
  <2> QED
    BY <1>1, <1>4, <2>1
<1> QED
  BY <1>1, <1>4, <1>8, <1>9, WalkAppend

-----------------------------------------------------------------------------
(***************************************************************************)
(* A path cut into pieces: Segments undoes Join.                           *)
(***************************************************************************)
\* Nothing is one empty piece.
LEMMA SegmentsNothing == Segments(<<>>) = <<<<>>>>
<1>1. <<>> \in Path /\ Len(<<>>) = 0
  BY DEF Path
<1>2. PICK f : Segments(<<>>) = f[Len(<<>>)] /\ f[0] = <<<<>>>>
  BY <1>1, SegmentsRun
<1> QED
  BY <1>1, <1>2

\* A path has at least one piece.
LEMMA SegmentsType ==
    ASSUME NEW p \in Path
    PROVE  Segments(p) \in NonEmpty
<1>1. PICK f \in [0..Len(p) -> NonEmpty] : Segments(p) = f[Len(p)]
  BY SegmentsRun
<1> QED
  BY <1>1 DEF Path

\* A longer path is cut like the shorter one, then at its last symbol.
LEMMA SegmentsAppend ==
    ASSUME NEW p \in Path, NEW s \in Symbol
    PROVE  Segments(Append(p, s)) = AddSymbol(Segments(p), s)
<1> DEFINE w == Append(p, s)
           N == Len(p)
<1>1. /\ w \in Path /\ Len(w) = N + 1 /\ N \in Nat
      /\ \A n \in 1..N : w[n] = p[n]
      /\ w[N + 1] = s
  BY DEF Path
<1>2. PICK f : /\ Segments(p) = f[N] /\ f[0] = <<<<>>>>
               /\ \A n \in 1..N : f[n] = AddSymbol(f[n - 1], p[n])
  BY SegmentsRun
<1> HIDE DEF w, N
<1>3. PICK g : /\ Segments(w) = g[N + 1] /\ g[0] = <<<<>>>>
               /\ \A n \in 1..(N + 1) : g[n] = AddSymbol(g[n - 1], w[n])
  BY <1>1, SegmentsRun, ZenonT(60)
<1>4. \A n \in 0..N : g[n] = f[n]
  <2>1. \A n \in 1..N : g[n] = AddSymbol(g[n - 1], p[n])
    BY <1>1, <1>3
  <2>2. \A n \in 1..N : g[n - 1] = f[n - 1] => g[n] = f[n]
    BY <1>2, <2>1
  <2>3. g[0] = f[0]
    BY <1>2, <1>3
  <2> QED
    BY <1>1, <2>2, <2>3, SameRun
<1>5. g[N + 1] = AddSymbol(g[N], s) /\ g[N] = f[N]
  <2>1. N + 1 \in 1..(N + 1) /\ (N + 1) - 1 = N /\ N \in 0..N
    BY <1>1
  <2> QED
    BY <1>1, <1>3, <1>4, <2>1
<1> QED
  BY <1>2, <1>3, <1>5 DEF w

\* A slash starts a new piece, any other symbol goes to the last one.
LEMMA AddSymbolAppend ==
    ASSUME NEW v \in Pieces, NEW x \in Word, NEW s \in Symbol
    PROVE  /\ s # "/" => AddSymbol(Append(v, x), s) = Append(v, Append(x, s))
           /\ s = "/" => AddSymbol(Append(v, x), s) = Append(Append(v, x), <<>>)
<1> DEFINE a == Append(v, x)
           b == [a EXCEPT ![Len(a)] = Append(@, s)]
           c == Append(v, Append(x, s))
<1>1. CASE s # "/"
  <2>1. s \in Symbol \ {"/"}
    BY <1>1
  <2>2. Append(x, s) \in Word
    BY <2>1 DEF Word
  <2>3. /\ a \in Pieces /\ Len(a) = Len(v) + 1 /\ a[Len(a)] = x
        /\ \A i \in 1..Len(v) : a[i] = v[i]
    BY DEF Pieces
  <2>4. /\ c \in Pieces /\ Len(c) = Len(v) + 1 /\ c[Len(v) + 1] = Append(x, s)
        /\ \A i \in 1..Len(v) : c[i] = v[i]
    BY <2>2 DEF Pieces
  <2>5. Len(v) \in Nat
    BY DEF Pieces
  <2> HIDE DEF a, c
  <2>6. /\ b \in Pieces /\ Len(b) = Len(v) + 1 /\ b[Len(v) + 1] = Append(x, s)
        /\ \A i \in 1..Len(v) : b[i] = a[i]
    BY <2>2, <2>3, <2>5 DEF Pieces
  <2> HIDE DEF b
  <2>7. \A i \in 1..(Len(v) + 1) : b[i] = c[i]
    BY <2>3, <2>4, <2>5, <2>6, SMTT(30)
  <2>8. b = c
    BY <2>4, <2>5, <2>6, <2>7 DEF Pieces
  <2> QED
    BY <1>1, <2>8 DEF AddSymbol, a, b, c
<1>2. CASE s = "/"
  BY <1>2 DEF AddSymbol
<1> QED
  BY <1>1, <1>2

\* The beginnings of a sequence grow by one element at a time.
LEMMA Beginnings ==
    ASSUME NEW T, NEW w \in Seq(T), NEW n \in 1..Len(w)
    PROVE  /\ SubSeq(w, 1, n - 1) \in Seq(T)
           /\ w[n] \in T
           /\ SubSeq(w, 1, n) = Append(SubSeq(w, 1, n - 1), w[n])
<1> DEFINE a == SubSeq(w, 1, n - 1)
           b == SubSeq(w, 1, n)
           c == Append(a, w[n])
<1>1. n \in Nat /\ n - 1 \in Nat /\ n <= Len(w) /\ n >= 1 /\ Len(w) \in Nat
  OBVIOUS
<1>2. w[n] \in T
  OBVIOUS
<1>3. /\ a \in Seq(T) /\ Len(a) = n - 1
      /\ \A i \in 1..(n - 1) : a[i] = w[i]
  BY <1>1
<1>4. /\ b \in Seq(T) /\ Len(b) = n
      /\ \A i \in 1..n : b[i] = w[i]
  BY <1>1
<1> HIDE DEF a, b
<1>5. /\ c \in Seq(T) /\ Len(c) = n /\ c[n] = w[n]
      /\ \A i \in 1..(n - 1) : c[i] = a[i]
  BY <1>1, <1>2, <1>3
<1> HIDE DEF c
<1>6. \A i \in 1..n : b[i] = c[i]
  <2>1. \A i \in 1..n : i = n \/ i \in 1..(n - 1)
    BY <1>1
  <2> QED
    BY <1>3, <1>4, <1>5, <2>1
<1>7. b = c
  BY <1>4, <1>5, <1>6
<1> QED
  BY <1>2, <1>3, <1>7 DEF a, b, c

\* Appending to the second of two sequences appends to both.
LEMMA ConcatAppend ==
    ASSUME NEW T, NEW a \in Seq(T), NEW b \in Seq(T), NEW s \in T
    PROVE  a \o Append(b, s) = Append(a \o b, s)
OBVIOUS

\* Nothing before or behind a sequence.
LEMMA ConcatNothing ==
    ASSUME NEW T, NEW a \in Seq(T)
    PROVE  a \o <<>> = a /\ <<>> \o a = a
OBVIOUS

\* A word behind a path makes its last piece longer.
LEMMA SegmentsWord ==
    ASSUME NEW p \in Path, NEW w \in Word, NEW v \in Pieces, NEW x \in Word,
           Segments(p) = Append(v, x)
    PROVE  Segments(p \o w) = Append(v, x \o w)
<1> DEFINE N == Len(w)
           h(n) == SubSeq(w, 1, n)
           Right(n) == Segments(p \o h(n)) = Append(v, x \o h(n))
           Bad == {n \in 0..N : ~Right(n)}
<1>1. N \in Nat /\ h(0) = <<>> /\ h(N) = w
  BY DEF Word
<1>2. 0 \notin Bad
  <2>1. p \o <<>> = p /\ x \o <<>> = x
    BY ConcatNothing DEF Path, Word
  <2> QED
    BY <1>1, <2>1
<1>3. \A n \in 1..N : n \in Bad => n - 1 \in Bad
  <2> SUFFICES ASSUME NEW n \in 1..N, Right(n - 1) PROVE Right(n)
    BY <1>1, SMTT(30)
  <2>1. /\ h(n - 1) \in Word /\ w[n] \in Symbol \ {"/"}
        /\ h(n) = Append(h(n - 1), w[n])
    BY Beginnings DEF Word
  <2> DEFINE a == h(n - 1)
             s == w[n]
  <2>2. a \in Word /\ s \in Symbol /\ s # "/" /\ a \in Path
    BY <2>1, WordsArePaths
  <2>3. h(n) = Append(a, s) /\ Segments(p \o a) = Append(v, x \o a)
    BY <2>1
  <2> HIDE DEF a, s, h
  <2>4. /\ p \o h(n) = Append(p \o a, s) /\ p \o a \in Path
    <3>1. p \o Append(a, s) = Append(p \o a, s)
      BY <2>2, ConcatAppend DEF Path
    <3>2. p \o a \in Path
      BY <2>2 DEF Path
    <3> QED
      BY <2>3, <3>1, <3>2
  <2>5. /\ x \o h(n) = Append(x \o a, s) /\ x \o a \in Word
    <3>1. s \in Symbol \ {"/"}
      BY <2>2
    <3>2. x \o Append(a, s) = Append(x \o a, s)
      BY <2>2, <3>1, ConcatAppend DEF Word
    <3>3. x \o a \in Word
      BY <2>2 DEF Word
    <3> QED
      BY <2>3, <3>2, <3>3
  <2>6. Segments(p \o h(n)) = AddSymbol(Append(v, x \o a), s)
    BY <2>2, <2>3, <2>4, SegmentsAppend
  <2>7. AddSymbol(Append(v, x \o a), s) = Append(v, Append(x \o a, s))
    BY <2>2, <2>5, AddSymbolAppend
  <2> QED
    BY <2>5, <2>6, <2>7
<1>4. Bad = {}
  <2>1. Bad \in SUBSET (0..N)
    OBVIOUS
  <2> HIDE DEF Bad
  <2> QED
    BY <1>1, <1>2, <1>3, <2>1, NoFirst
<1>5. Right(N)
  <2>1. N \in 0..N
    BY <1>1
  <2> QED
    BY <1>4, <2>1
<1> QED
  BY <1>1, <1>5

\* The pieces of what is joined from pieces are those pieces.
LEMMA SegmentsJoin ==
    ASSUME NEW xs \in NonEmpty
    PROVE  Segments(Join(xs)) = xs
<1> DEFINE N == Len(xs)
           h(n) == SubSeq(xs, 1, n)
<1>1. /\ N \in Nat \ {0} /\ h(N) = xs /\ xs \in Pieces
      /\ \A n \in 1..N : /\ h(n - 1) \in Pieces /\ xs[n] \in Word
                         /\ h(n) = Append(h(n - 1), xs[n])
  <2>1. xs \in Seq(Word) /\ xs # <<>>
    BY DEF NonEmpty, Pieces
  <2>2. N \in Nat \ {0} /\ h(N) = xs
    BY <2>1
  <2> QED
    BY <2>1, <2>2, Beginnings DEF Pieces
<1>2. h(0) = <<>>
  BY <1>1 DEF Pieces
<1>3. PICK f :
        /\ \A n \in 0..N : f[n] \in Path
        /\ Join(xs) = Tail(f[N])
        /\ f[0] = <<>>
        /\ \A n \in 1..N : f[n] = f[n - 1] \o <<"/">> \o xs[n]
  <2>1. PICK f \in [0..Len(xs) -> Path] :
               /\ Join(xs) = Tail(f[Len(xs)])
               /\ f[0] = <<>>
               /\ \A n \in 1..Len(xs) : f[n] = f[n - 1] \o <<"/">> \o xs[n]
    BY <1>1, JoinRun
  <2>2. \A n \in 0..N : f[n] \in Path
    OBVIOUS
  <2> QED
    BY <2>1, <2>2
<1> DEFINE Right(n) == f[n] # <<>> /\ Segments(Tail(f[n])) = h(n)
           Bad == {n \in 0..N : n # 0 /\ ~Right(n)}
<1> HIDE DEF N, h
<1>4. "/" \in Symbol
  BY DEF Symbol
<1>5. Right(1)
  <2>1. 1 \in 1..N /\ 1 - 1 = 0
    BY <1>1
  <2>2. xs[1] \in Word /\ xs[1] \in Path
    BY <1>1, <2>1, WordsArePaths
  <2>3. f[1] = <<>> \o <<"/">> \o xs[1]
    BY <1>3, <2>1
  <2>4. f[1] # <<>> /\ Tail(f[1]) = xs[1]
    <3> HIDE DEF Right, Bad
    <3>1. xs[1] \in Seq(Symbol)
      BY <2>2 DEF Path
    <3>2. \A t \in Seq(Symbol) : /\ <<>> \o <<"/">> \o t # <<>>
                                 /\ Tail(<<>> \o <<"/">> \o t) = t
      BY <1>4
    <3> QED
      BY <2>3, <3>1, <3>2
  <2>5. /\ <<>> \o xs[1] = xs[1]
    BY <2>2, ConcatNothing DEF Path
  <2>6. <<>> \in Path /\ <<>> \in Pieces /\ <<>> \in Word
    BY DEF Path, Pieces, Word
  <2>7. Segments(<<>>) = Append(<<>>, <<>>)
    BY SegmentsNothing
  <2>8. Segments(<<>> \o xs[1]) = Append(<<>>, <<>> \o xs[1])
    BY <2>2, <2>6, <2>7, SegmentsWord
  <2>9. h(1) = Append(<<>>, xs[1])
    BY <1>1, <1>2, <2>1
  <2> QED
    BY <2>4, <2>5, <2>8, <2>9
<1>6. ASSUME NEW n \in 1..N, n # 1, Right(n - 1)
      PROVE  Right(n)
  <2> DEFINE t == Tail(f[n - 1])
             y == xs[n]
  <2>1. n - 1 \in 0..N /\ n - 1 \in 1..N
    BY <1>1, <1>6
  <2>2. /\ f[n - 1] \in Path /\ f[n - 1] # <<>> /\ y \in Word /\ y \in Path
        /\ f[n] = f[n - 1] \o <<"/">> \o y
    BY <1>1, <1>3, <1>6, <2>1, WordsArePaths
  <2>3. Segments(t) = h(n - 1) /\ h(n - 1) \in Pieces
        /\ h(n) = Append(h(n - 1), y)
    BY <1>1, <1>6
  <2>4. t \in Path /\ Append(t, "/") \in Path
    BY <1>4, <2>2 DEF Path
  <2>5. f[n] # <<>> /\ Tail(f[n]) = Append(t, "/") \o y
    <3> HIDE DEF Right, Bad
    <3>1. y \in Seq(Symbol) /\ f[n - 1] \in Seq(Symbol)
      BY <2>2 DEF Path
    <3>2. \A a, b \in Seq(Symbol) : a # <<>> =>
             /\ a \o <<"/">> \o b # <<>>
             /\ Tail(a \o <<"/">> \o b) = Append(Tail(a), "/") \o b
      <4> SUFFICES ASSUME NEW a \in Seq(Symbol), NEW b \in Seq(Symbol), a # <<>>
                   PROVE  /\ a \o <<"/">> \o b # <<>>
                          /\ Tail(a \o <<"/">> \o b) = Append(Tail(a), "/") \o b
        OBVIOUS
      <4> DEFINE l == Tail(a \o <<"/">> \o b)
                 r == Append(Tail(a), "/") \o b
      <4>1. /\ l \in Seq(Symbol) /\ Len(l) = Len(a) + Len(b)
            /\ a \o <<"/">> \o b # <<>>
        BY <1>4
      <4>2. r \in Seq(Symbol) /\ Len(r) = Len(a) + Len(b)
        BY <1>4
      <4>3. \A i \in 1..(Len(a) + Len(b)) : l[i] = r[i]
        BY <1>4
      <4> QED
        BY <4>1, <4>2, <4>3
    <3> QED
      BY <2>2, <3>1, <3>2
  <2> HIDE DEF t, y
  <2>6. Segments(Append(t, "/")) = Append(Segments(t), <<>>)
    <3>1. Segments(Append(t, "/")) = AddSymbol(Segments(t), "/")
      BY <1>4, <2>4, SegmentsAppend
    <3> QED
      BY <3>1 DEF AddSymbol
  <2>7. <<>> \in Word /\ <<>> \o y = y
    <3>1. <<>> \o y = y
      BY <2>2, ConcatNothing DEF Path
    <3> QED
      BY <3>1 DEF Word
  <2>8. Segments(Append(t, "/") \o y) = Append(h(n - 1), <<>> \o y)
    <3>1. Segments(Append(t, "/")) = Append(h(n - 1), <<>>)
      BY <2>3, <2>6
    <3> DEFINE p == Append(t, "/")
               v == h(n - 1)
    <3>2. p \in Path /\ v \in Pieces /\ Segments(p) = Append(v, <<>>)
      BY <2>3, <2>4, <3>1
    <3> HIDE DEF p, v
    <3>3. Segments(p \o y) = Append(v, <<>> \o y)
      BY <2>2, <2>7, <3>2, SegmentsWord
    <3> QED
      BY <3>3 DEF p, v
  <2> QED
    BY <2>3, <2>5, <2>7, <2>8
<1>7. Bad = {}
  <2>1. Bad \in SUBSET (0..N) /\ 0 \notin Bad
    OBVIOUS
  <2>2. \A n \in 1..N : n \in Bad => n - 1 \in Bad
    <3> HIDE DEF Right
    <3>1. \A n \in 1..N : n - 1 \in 0..N /\ (n # 1 => n - 1 # 0)
      BY <1>1
    <3> QED
      BY <1>5, <1>6, <3>1
  <2> HIDE DEF Bad
  <2> QED
    BY <1>1, <2>1, <2>2, NoFirst
<1>8. Right(N)
  <2>1. N \in 0..N /\ N # 0
    BY <1>1
  <2> QED
    BY <1>7, <2>1
<1> QED
  BY <1>1, <1>3, <1>8

-----------------------------------------------------------------------------
(***************************************************************************)
(* parseURI leads where the URI leads.                                     *)
(***************************************************************************)
\* checkPath rewrites a path into one that leads to the same place and has no
\* ".." but at its end.
LEMMA CheckPathLeads ==
    ASSUME NEW p \in Path, CheckPath(p).ok
    PROVE  LET d == CheckPath(p).path
           IN /\ Walk(d) = Walk(p)
              /\ \A i \in DOMAIN Front(Segments(d)) : Segments(d)[i] # <<"..">>
<1> DEFINE a == Segments(p)
           b == DropDot(a)
           ss == Compact(b)
           v == Climb(ss).v
           xs == Append(v, Last(ss))
<1>1. a \in NonEmpty
  BY SegmentsType
<1>2. b \in NonEmpty /\ WalkPieces(b) = WalkPieces(a)
  <2> HIDE DEF a
  <2> QED
    BY <1>1, WalkDropDot
<1>3. /\ ss \in NonEmpty /\ WalkPieces(ss) = WalkPieces(b)
      /\ Dense(Front(ss))
  <2> HIDE DEF b
  <2> QED
    BY <1>2, WalkCompact
<1>4. Climb(ss).ok /\ CheckPath(p).path = Join(xs)
  BY DEF CheckPath
<1>5. v \in Pieces /\ Descent(v) /\ WalkPieces(xs) = WalkPieces(ss)
  <2> HIDE DEF ss
  <2> QED
    BY <1>3, <1>4, WalkClimb
<1>6. Last(ss) \in Word
  <2> HIDE DEF ss
  <2> QED
    BY <1>3, AppendFront
<1>7. /\ xs \in NonEmpty /\ Front(xs) = v
      /\ \A i \in 1..Len(v) : xs[i] = v[i]
  <2> DEFINE l == Last(ss)
  <2> HIDE DEF l, v
  <2>1. Append(v, l) \in NonEmpty /\ \A i \in 1..Len(v) : Append(v, l)[i] = v[i]
    <3>1. v \in Seq(Word) /\ l \in Word
      BY <1>5, <1>6 DEF l, Pieces
    <3>2. /\ Append(v, l) \in Seq(Word) /\ Append(v, l) # <<>>
          /\ \A i \in 1..Len(v) : Append(v, l)[i] = v[i]
      BY <3>1, AppendProperties
    <3> QED
      BY <3>2 DEF NonEmpty, Pieces
  <2>2. Front(Append(v, l)) = v
    BY <1>5, <1>6, FrontAppend DEF l
  <2> QED
    BY <2>1, <2>2 DEF l
<1>8. Segments(CheckPath(p).path) = xs
  <2> HIDE DEF xs
  <2> QED
    BY <1>4, <1>7, SegmentsJoin
<1>9. Walk(CheckPath(p).path) = Walk(p)
  <2> HIDE DEF xs, ss, b
  <2> QED
    BY <1>2, <1>3, <1>5, <1>8 DEF Walk, a
<1>10. \A i \in DOMAIN Front(xs) : xs[i] # <<"..">>
  <2> HIDE DEF xs, v
  <2>1. DOMAIN Front(xs) = 1..Len(v)
    BY <1>5, <1>7 DEF Pieces
  <2> QED
    BY <1>5, <1>7, <2>1 DEF Descent
<1> HIDE DEF xs
<1> QED
  BY <1>8, <1>9, <1>10

\* The end of a sequence.
LEMMA EndOf ==
    ASSUME NEW T, NEW w \in Seq(T), NEW j \in 0..Len(w)
    PROVE  LET e == SubSeq(w, j + 1, Len(w))
           IN /\ e \in Seq(T) /\ Len(e) = Len(w) - j
              /\ \A m \in 1..(Len(w) - j) : e[m] = w[j + m]
OBVIOUS

\* What the first passes of parseURI leave of a URI without a query.
LEMMA Pruned ==
    ASSUME NEW u \in Path, NEW s
    PROVE  /\ PruneDelim(u, s) \in Path /\ PruneScheme(u) \in Path
           /\ Range(PruneDelim(u, s)) \subseteq Range(u)
           /\ Range(PruneScheme(u)) \subseteq Range(u)
           /\ "?" \notin Range(u) => ExtractPath(u) = u
<1>1. u \in Seq(Symbol) /\ Len(u) \in Nat /\ DOMAIN u = 1..Len(u)
  BY DEF Path
<1>2. ASSUME NEW j \in 0..Len(u)
      PROVE  /\ SubSeq(u, j + 1, Len(u)) \in Path
             /\ Range(SubSeq(u, j + 1, Len(u))) \subseteq Range(u)
  <2> DEFINE e == SubSeq(u, j + 1, Len(u))
  <2>1. /\ e \in Seq(Symbol) /\ Len(e) = Len(u) - j
        /\ \A m \in 1..(Len(u) - j) : e[m] = u[j + m]
    BY <1>1, EndOf
  <2> HIDE DEF e
  <2>2. \A m \in 1..(Len(u) - j) : j + m \in 1..Len(u)
    BY <1>1
  <2>3. DOMAIN e = 1..(Len(u) - j)
    BY <2>1
  <2>4. e \in Path /\ Range(e) \subseteq Range(u)
    BY <1>1, <2>1, <2>2, <2>3 DEF Path, Range
  <2> QED
    BY <2>4 DEF e
<1>3. PruneDelim(u, s) \in Path /\ Range(PruneDelim(u, s)) \subseteq Range(u)
  <2> DEFINE i == First(u, s)
  <2>1. i \in 0..Len(u)
    BY FirstAt
  <2>2. PruneDelim(u, s) = IF i # 0 /\ i # Len(u) THEN SubSeq(u, i + 1, Len(u)) ELSE u
    BY DEF PruneDelim
  <2> HIDE DEF i
  <2> QED
    BY <1>2, <2>1, <2>2
<1>4. PruneScheme(u) \in Path /\ Range(PruneScheme(u)) \subseteq Range(u)
  <2>1. CASE u = <<>>
    BY <2>1 DEF PruneScheme
  <2>2. CASE u # <<>>
    <3>1. /\ Tail(u) \in Seq(Symbol) /\ Len(Tail(u)) = Len(u) - 1
          /\ \A m \in 1..(Len(u) - 1) : Tail(u)[m] = u[m + 1] /\ m + 1 \in 1..Len(u)
      BY <1>1, <2>2
    <3>2. DOMAIN Tail(u) = 1..(Len(u) - 1)
      BY <3>1
    <3>3. Range(Tail(u)) \subseteq Range(u)
      BY <1>1, <3>1, <3>2 DEF Range
    <3> QED
      BY <3>1, <3>3 DEF PruneScheme, Path
  <2> QED
    BY <2>1, <2>2
<1>5. "?" \notin Range(u) => ExtractPath(u) = u
  BY DEF ExtractPath, First
<1> QED
  BY <1>3, <1>4, <1>5

-----------------------------------------------------------------------------
(***************************************************************************)
(* Escapes.  checkPath does with the escaped symbols what it would do with *)
(* the decoded ones, as long as none of them is a dot or a slash.          *)
(***************************************************************************)
\* These are no escapes.
LEMMA DecodedKept == \A s \in {".", "..", "/"} : Decoded(s) = s
BY DEF Decoded, Escapes

\* The symbol is a dot or a slash if it stands for one.
Bare(s) == Decoded(s) \in {".", "..", "/"} => Decoded(s) = s

\* The symbols of an open path are.
LEMMA OpenSymbols ==
    ASSUME NEW p \in Path
    PROVE  Open(p) <=> \A i \in 1..Len(p) : Bare(p[i])
BY DEF Path, Open, Bare, Range

\* Pieces are decoded one by one.
DecodePieces(ss) == [i \in DOMAIN ss |-> Decode(ss[i])]
OpenPieces(ss) == \A i \in 1..Len(ss) : Open(ss[i])

\* A piece stays a piece, and its kind.
LEMMA DecodeWord ==
    ASSUME NEW w \in Word, Open(w)
    PROVE  /\ Decode(w) \in Word
           /\ Decode(w) = <<>> <=> w = <<>>
           /\ Decode(w) = <<".">> <=> w = <<".">>
           /\ Decode(w) = <<"..">> <=> w = <<"..">>
<1> DEFINE d == Decode(w)
<1>1. w \in Path /\ w \in Seq(Symbol \ {"/"}) /\ Len(w) \in Nat
  BY WordsArePaths DEF Word
<1>2. /\ d \in Path /\ Len(d) = Len(w)
      /\ \A i \in 1..Len(w) : d[i] = Decoded(w[i])
  BY <1>1, DecodeType
<1>3. \A i \in 1..Len(w) : Bare(w[i]) /\ w[i] # "/"
  BY <1>1, OpenSymbols
<1> HIDE DEF d
<1>4. \A i \in 1..Len(w) : d[i] # "/"
  BY <1>2, <1>3 DEF Bare
<1>5. d \in Word
  BY <1>2, <1>4 DEF Word, Path
<1>6. d = <<>> <=> w = <<>>
  BY <1>1, <1>2 DEF Path
<1>7. ASSUME NEW s \in {".", ".."}
      PROVE  d = <<s>> <=> w = <<s>>
  <2>1. Decoded(s) = s
    BY DecodedKept
  <2>2. ASSUME Len(w) = 1 PROVE d[1] = s <=> w[1] = s
    <3>1. 1 \in 1..Len(w)
      BY <2>2
    <3> QED
      BY <1>2, <1>3, <2>1, <3>1 DEF Bare
  <2>3. w = <<s>> <=> Len(w) = 1 /\ w[1] = s
    BY <1>1
  <2>4. d = <<s>> <=> Len(d) = 1 /\ d[1] = s
    <3>1. d \in Seq(Symbol)
      BY <1>2 DEF Path
    <3> QED
      BY <3>1
  <2> QED
    BY <1>2, <2>2, <2>3, <2>4
<1> QED
  BY <1>5, <1>6, <1>7 DEF d

\* Decoding goes symbol by symbol,
LEMMA DecodeAppend ==
    ASSUME NEW p \in Path, NEW s \in Symbol
    PROVE  Decode(Append(p, s)) = Append(Decode(p), Decoded(s))
<1> DEFINE a == Append(p, s)
           l == Decode(a)
           d == Decode(p)
           r == Append(d, Decoded(s))
           N == Len(p)
<1>1. /\ a \in Path /\ Len(a) = N + 1 /\ N \in Nat /\ a[N + 1] = s
      /\ \A i \in 1..N : a[i] = p[i]
  BY DEF Path
<1>2. Decoded(s) \in Symbol
  BY DecodedType
<1>3. /\ d \in Path /\ Len(d) = N /\ \A i \in 1..N : d[i] = Decoded(p[i])
  BY DecodeType
<1> HIDE DEF a, d, N
<1>4. /\ l \in Path /\ Len(l) = N + 1
      /\ \A i \in 1..(N + 1) : l[i] = Decoded(a[i])
  BY <1>1, DecodeType
<1>5. /\ r \in Path /\ Len(r) = N + 1 /\ r[N + 1] = Decoded(s)
      /\ \A i \in 1..N : r[i] = d[i]
  BY <1>1, <1>2, <1>3 DEF Path
<1> HIDE DEF l, r
<1>6. \A i \in 1..(N + 1) : l[i] = r[i]
  <2>1. \A i \in 1..(N + 1) : i \in 1..N \/ i = N + 1
    BY <1>1
  <2>2. N + 1 \in 1..(N + 1) /\ \A i \in 1..N : i \in 1..(N + 1)
    BY <1>1
  <2> QED
    BY <1>1, <1>3, <1>4, <1>5, <2>1, <2>2
<1>7. l = r
  BY <1>4, <1>5, <1>6 DEF Path
<1> QED
  BY <1>7 DEF l, r, a, d

\* part by part,
LEMMA DecodeConcat ==
    ASSUME NEW p \in Path, NEW q \in Path
    PROVE  Decode(p \o q) = Decode(p) \o Decode(q)
<1> DEFINE w == p \o q
           l == Decode(w)
           a == Decode(p)
           b == Decode(q)
           r == a \o b
           M == Len(p)
           N == Len(q)
<1>1. /\ w \in Path /\ Len(w) = M + N /\ M \in Nat /\ N \in Nat
      /\ \A i \in 1..M : w[i] = p[i]
      /\ \A i \in 1..N : w[M + i] = q[i]
  BY DEF Path
<1>2. /\ a \in Path /\ Len(a) = M /\ \A i \in 1..M : a[i] = Decoded(p[i])
      /\ b \in Path /\ Len(b) = N /\ \A i \in 1..N : b[i] = Decoded(q[i])
  BY DecodeType
<1> HIDE DEF w, a, b, M, N
<1>3. /\ l \in Path /\ Len(l) = M + N
      /\ \A i \in 1..(M + N) : l[i] = Decoded(w[i])
  BY <1>1, DecodeType
<1>4. /\ r \in Path /\ Len(r) = M + N
      /\ \A i \in 1..M : r[i] = a[i]
      /\ \A i \in 1..N : r[M + i] = b[i]
  <2>1. a \in Seq(Symbol) /\ b \in Seq(Symbol)
    BY <1>2 DEF Path
  <2>2. /\ r \in Seq(Symbol) /\ Len(r) = Len(a) + Len(b)
        /\ \A i \in 1..Len(a) : r[i] = a[i]
        /\ \A i \in 1..Len(b) : r[Len(a) + i] = b[i]
    BY <2>1
  <2> QED
    BY <1>2, <2>2 DEF Path
<1> HIDE DEF l, r
<1>5. \A i \in 1..(M + N) : l[i] = r[i]
  <2> SUFFICES ASSUME NEW i \in 1..(M + N) PROVE l[i] = r[i]
    OBVIOUS
  <2>1. CASE i \in 1..M
    BY <1>1, <1>2, <1>3, <1>4, <2>1
  <2>2. CASE i \notin 1..M
    <3>1. PICK j \in 1..N : i = M + j
      <4>1. i - M \in 1..N /\ i = M + (i - M)
        BY <1>1, <2>2
      <4> QED
        BY <4>1
    <3> QED
      BY <1>1, <1>2, <1>3, <1>4, <3>1
  <2> QED
    BY <2>1, <2>2
<1>6. l = r
  BY <1>3, <1>4, <1>5 DEF Path
<1> QED
  BY <1>6 DEF l, r, w, a, b

\* and leaves an empty path, a slash and all the rest of a path behind its first
\* symbol to themselves.
LEMMA DecodeTail ==
    ASSUME NEW p \in Path
    PROVE  /\ Decode(<<>>) = <<>> /\ Decode(<<"/">>) = <<"/">>
           /\ p # <<>> => Decode(Tail(p)) = Tail(Decode(p))
<1>1. Decode(<<>>) = <<>>
  BY DEF Decode
<1>2. <<"/">> \in Path /\ Len(<<"/">>) = 1
  BY DEF Path, Symbol
<1>3. Decode(<<"/">>) = <<"/">>
  <2>1. /\ Decode(<<"/">>) \in Path /\ Len(Decode(<<"/">>)) = 1
        /\ Decode(<<"/">>)[1] = Decoded("/")
    <3>1. 1 \in 1..1 /\ <<"/">>[1] = "/"
      OBVIOUS
    <3> QED
      BY <1>2, <3>1, DecodeType
  <2>2. Decoded("/") = "/"
    BY DecodedKept
  <2> DEFINE d == Decode(<<"/">>)
  <2> HIDE DEF d
  <2>3. d = <<"/">>
    BY <2>1, <2>2 DEF d, Path
  <2> QED
    BY <2>3 DEF d
<1>4. ASSUME p # <<>> PROVE Decode(Tail(p)) = Tail(Decode(p))
  <2> DEFINE t == Tail(p)
             d == Decode(p)
             l == Decode(t)
             r == Tail(d)
             N == Len(p) - 1
  <2>1. /\ t \in Path /\ Len(t) = N /\ N \in Nat /\ Len(p) = N + 1
        /\ \A i \in 1..N : t[i] = p[i + 1] /\ i + 1 \in 1..(N + 1)
    BY <1>4 DEF Path
  <2>2. /\ d \in Path /\ Len(d) = N + 1
        /\ \A i \in 1..(N + 1) : d[i] = Decoded(p[i])
    BY <2>1, DecodeType
  <2> HIDE DEF t, d, N
  <2>3. l \in Path /\ Len(l) = N /\ \A i \in 1..N : l[i] = Decoded(t[i])
    BY <2>1, DecodeType
  <2>4. r \in Path /\ Len(r) = N /\ \A i \in 1..N : r[i] = d[i + 1]
    BY <2>1, <2>2 DEF Path
  <2> HIDE DEF l, r
  <2>5. \A i \in 1..N : l[i] = r[i]
    BY <2>1, <2>2, <2>3, <2>4
  <2>6. l = r
    BY <2>3, <2>4, <2>5 DEF Path
  <2> QED
    BY <2>6 DEF l, r, t, d
<1> QED
  BY <1>1, <1>3, <1>4

\* So it does with pieces.
LEMMA PiecesDecoded ==
    ASSUME NEW ss \in Pieces, OpenPieces(ss)
    PROVE  /\ DecodePieces(ss) \in Pieces /\ Len(DecodePieces(ss)) = Len(ss)
           /\ \A i \in 1..Len(ss) : DecodePieces(ss)[i] = Decode(ss[i])
<1>1. ss \in Seq(Word) /\ DOMAIN ss = 1..Len(ss) /\ Len(ss) \in Nat
  BY DEF Pieces
<1>2. \A i \in 1..Len(ss) : Decode(ss[i]) \in Word
  BY <1>1, DecodeWord DEF OpenPieces
<1>3. DecodePieces(ss) = [i \in 1..Len(ss) |-> Decode(ss[i])]
  BY <1>1 DEF DecodePieces
<1> QED
  BY <1>1, <1>2, <1>3 DEF Pieces

\* One more piece,
LEMMA PiecesAppend ==
    ASSUME NEW v \in Pieces, OpenPieces(v), NEW x \in Word, Open(x)
    PROVE  /\ DecodePieces(Append(v, x)) = Append(DecodePieces(v), Decode(x))
           /\ OpenPieces(Append(v, x)) /\ Append(v, x) \in Pieces
<1> DEFINE a == Append(v, x)
           l == DecodePieces(a)
           d == DecodePieces(v)
           r == Append(d, Decode(x))
           N == Len(v)
<1>1. /\ a \in Pieces /\ Len(a) = N + 1 /\ N \in Nat /\ a[N + 1] = x
      /\ \A i \in 1..N : a[i] = v[i]
  BY DEF Pieces
<1>2. Decode(x) \in Word
  BY DecodeWord
<1>3. /\ d \in Pieces /\ Len(d) = N /\ \A i \in 1..N : d[i] = Decode(v[i])
  BY PiecesDecoded
<1>7. \A i \in 1..(N + 1) : i \in 1..N \/ i = N + 1
  BY <1>1
<1>8. OpenPieces(a)
  BY <1>1, <1>7 DEF OpenPieces
<1> HIDE DEF a, d, N
<1>4. /\ l \in Pieces /\ Len(l) = N + 1
      /\ \A i \in 1..(N + 1) : l[i] = Decode(a[i])
  BY <1>1, <1>8, PiecesDecoded
<1>5. /\ r \in Pieces /\ Len(r) = N + 1 /\ r[N + 1] = Decode(x)
      /\ \A i \in 1..N : r[i] = d[i]
  BY <1>1, <1>2, <1>3 DEF Pieces
<1> HIDE DEF l, r
<1>6. \A i \in 1..(N + 1) : l[i] = r[i]
  <2>1. N + 1 \in 1..(N + 1) /\ \A i \in 1..N : i \in 1..(N + 1)
    BY <1>1
  <2> QED
    BY <1>1, <1>3, <1>4, <1>5, <1>7, <2>1
<1>9. l = r
  BY <1>4, <1>5, <1>6 DEF Pieces
<1> QED
  BY <1>1, <1>8, <1>9 DEF l, r, a, d

\* the pieces but the last, and the last.
LEMMA PiecesFront ==
    ASSUME NEW ss \in NonEmpty, OpenPieces(ss)
    PROVE  /\ Front(ss) \in Pieces /\ OpenPieces(Front(ss))
           /\ Last(ss) \in Word /\ Open(Last(ss))
           /\ DecodePieces(ss) # <<>>
           /\ Front(DecodePieces(ss)) = DecodePieces(Front(ss))
           /\ Last(DecodePieces(ss)) = Decode(Last(ss))
<1> DEFINE v == Front(ss)
           x == Last(ss)
<1>1. /\ ss = Append(v, x) /\ v \in Pieces /\ x \in Word
      /\ Len(ss) = Len(v) + 1 /\ \A i \in 1..Len(v) : v[i] = ss[i]
  BY AppendFront
<1>2. Len(v) \in Nat /\ Len(ss) \in 1..Len(ss) /\ x = ss[Len(ss)]
      /\ \A i \in 1..Len(v) : i \in 1..Len(ss)
  <2>1. v \in Pieces => Len(v) \in Nat
    BY DEF Pieces
  <2> QED
    BY <1>1, <2>1 DEF Last
<1>3. OpenPieces(v) /\ Open(x)
  BY <1>1, <1>2 DEF OpenPieces
<1> HIDE DEF v, x
<1>4. DecodePieces(ss) = Append(DecodePieces(v), Decode(x))
  BY <1>1, <1>3, PiecesAppend
<1>5. DecodePieces(v) \in Pieces /\ Decode(x) \in Word
  BY <1>1, <1>3, PiecesDecoded, DecodeWord
<1>6. /\ Front(Append(DecodePieces(v), Decode(x))) = DecodePieces(v)
      /\ Last(Append(DecodePieces(v), Decode(x))) = Decode(x)
      /\ Append(DecodePieces(v), Decode(x)) # <<>>
  BY <1>5, FrontAppend DEF Pieces
<1> QED
  BY <1>1, <1>3, <1>4, <1>6 DEF v, x

\* Segments decodes as it goes, and leaves the pieces open,
LEMMA AddSymbolDecoded ==
    ASSUME NEW ss \in NonEmpty, OpenPieces(ss), NEW s \in Symbol, Bare(s)
    PROVE  /\ AddSymbol(DecodePieces(ss), Decoded(s)) = DecodePieces(AddSymbol(ss, s))
           /\ OpenPieces(AddSymbol(ss, s))
<1> DEFINE v == Front(ss)
           x == Last(ss)
           d == Decoded(s)
           dv == DecodePieces(v)
           dx == Decode(x)
<1>1. v \in Pieces /\ OpenPieces(v) /\ x \in Word /\ Open(x)
  BY PiecesFront
<1>2. ss = Append(v, x)
  BY AppendFront
<1>3. DecodePieces(ss) = Append(dv, dx)
  BY <1>1, <1>2, PiecesAppend
<1>4. dv \in Pieces /\ dx \in Word /\ d \in Symbol
  BY <1>1, PiecesDecoded, DecodeWord, DecodedType
<1>5. d = "/" <=> s = "/"
  BY DecodedKept DEF Bare
<1> HIDE DEF v, x, d, dv, dx
<1>6. CASE s = "/"
  <2>1. AddSymbol(ss, s) = Append(ss, <<>>)
    BY <1>6 DEF AddSymbol
  <2>2. AddSymbol(DecodePieces(ss), d) = Append(DecodePieces(ss), <<>>)
    BY <1>5, <1>6 DEF AddSymbol
  <2>3. <<>> \in Word /\ <<>> \in Path /\ Len(<<>>) = 0
    BY DEF Word, Path
  <2>4. Open(<<>>)
    BY <2>3, OpenSymbols
  <2>5. ss \in Pieces
    BY DEF NonEmpty
  <2>6. /\ DecodePieces(Append(ss, <<>>)) = Append(DecodePieces(ss), Decode(<<>>))
        /\ OpenPieces(Append(ss, <<>>))
    BY <2>3, <2>4, <2>5, PiecesAppend
  <2>7. Decode(<<>>) = <<>>
    BY <2>3, DecodeTail
  <2> QED
    BY <2>1, <2>2, <2>6, <2>7 DEF d
<1>7. CASE s # "/"
  <2>1. AddSymbol(Append(v, x), s) = Append(v, Append(x, s))
    BY <1>1, <1>7, AddSymbolAppend
  <2>2. AddSymbol(Append(dv, dx), d) = Append(dv, Append(dx, d))
    BY <1>4, <1>5, <1>7, AddSymbolAppend
  <2>3. Append(x, s) \in Word /\ x \in Path
    <3>1. s \in Symbol \ {"/"} /\ x \in Seq(Symbol \ {"/"})
      BY <1>1, <1>7 DEF Word
    <3>2. Append(x, s) \in Seq(Symbol \ {"/"})
      BY <3>1
    <3> QED
      BY <1>1, <3>2, WordsArePaths DEF Word
  <2>4. Decode(Append(x, s)) = Append(dx, d)
    BY <2>3, DecodeAppend DEF dx, d
  <2>5. Open(Append(x, s))
    <3>1. \A i \in 1..Len(x) : Bare(x[i])
      BY <1>1, <2>3, OpenSymbols
    <3>2. /\ Len(Append(x, s)) = Len(x) + 1 /\ Append(x, s)[Len(x) + 1] = s
          /\ \A i \in 1..Len(x) : Append(x, s)[i] = x[i]
          /\ \A i \in 1..(Len(x) + 1) : i \in 1..Len(x) \/ i = Len(x) + 1
      BY <2>3 DEF Path
    <3>3. \A i \in 1..Len(Append(x, s)) : Bare(Append(x, s)[i])
      BY <3>1, <3>2
    <3>4. Append(x, s) \in Path
      BY <2>3, WordsArePaths
    <3> QED
      BY <3>3, <3>4, OpenSymbols
  <2>6. /\ DecodePieces(Append(v, Append(x, s))) = Append(dv, Decode(Append(x, s)))
        /\ OpenPieces(Append(v, Append(x, s)))
    BY <1>1, <2>3, <2>5, PiecesAppend DEF dv
  <2> QED
    BY <1>2, <1>3, <2>1, <2>2, <2>4, <2>6 DEF d
<1> QED
  BY <1>6, <1>7

LEMMA SegmentsDecoded ==
    ASSUME NEW p \in Path, Open(p)
    PROVE  Segments(Decode(p)) = DecodePieces(Segments(p)) /\ OpenPieces(Segments(p))
<1> DEFINE d == Decode(p)
           N == Len(p)
<1>1. /\ d \in Path /\ Len(d) = N /\ N \in Nat
      /\ \A n \in 1..N : d[n] = Decoded(p[n]) /\ p[n] \in Symbol /\ Bare(p[n])
  BY DecodeType, OpenSymbols DEF Path
<1>2. PICK f \in [0..N -> NonEmpty] :
        /\ Segments(p) = f[N] /\ f[0] = <<<<>>>>
        /\ \A n \in 1..N : f[n] = AddSymbol(f[n - 1], p[n])
  BY SegmentsRun
<1> HIDE DEF d, N
<1>3. PICK g : /\ Segments(d) = g[N] /\ g[0] = <<<<>>>>
               /\ \A n \in 1..N : g[n] = AddSymbol(g[n - 1], d[n])
  BY <1>1, SegmentsRun, ZenonT(60)
<1> DEFINE Right(n) == OpenPieces(f[n]) /\ g[n] = DecodePieces(f[n])
           Bad == {n \in 0..N : ~Right(n)}
<1>4. Right(0)
  <2>1. <<>> \in Word /\ <<>> \in Path /\ Len(<<>>) = 0 /\ <<>> \in Pieces
    BY DEF Word, Path, Pieces
  <2>2. Open(<<>>) /\ Decode(<<>>) = <<>> /\ OpenPieces(<<>>)
    BY <2>1, OpenSymbols, DecodeTail DEF OpenPieces
  <2>3. DecodePieces(<<>>) = <<>>
    BY DEF DecodePieces
  <2>4. Append(<<>>, <<>>) = <<<<>>>>
    OBVIOUS
  <2>5. /\ DecodePieces(Append(<<>>, <<>>)) = Append(DecodePieces(<<>>), Decode(<<>>))
        /\ OpenPieces(Append(<<>>, <<>>))
    BY <2>1, <2>2, PiecesAppend
  <2>6. DecodePieces(<<<<>>>>) = <<<<>>>> /\ OpenPieces(<<<<>>>>)
    BY <2>2, <2>3, <2>4, <2>5
  <2> QED
    BY <1>2, <1>3, <2>6
<1>5. ASSUME NEW n \in 1..N, Right(n - 1) PROVE Right(n)
  <2>1. f[n - 1] \in NonEmpty
    BY <1>1
  <2>2. /\ AddSymbol(DecodePieces(f[n - 1]), Decoded(p[n]))
              = DecodePieces(AddSymbol(f[n - 1], p[n]))
        /\ OpenPieces(AddSymbol(f[n - 1], p[n]))
    BY <1>1, <1>5, <2>1, AddSymbolDecoded
  <2> QED
    BY <1>1, <1>2, <1>3, <1>5, <2>2
<1>6. Right(N)
  <2>1. \A n \in 1..N : Right(n - 1) => Right(n)
    BY <1>5
  <2> HIDE DEF Right
  <2>2. Bad \in SUBSET (0..N) /\ 0 \notin Bad
    BY <1>4
  <2>3. \A n \in 1..N : n \in Bad => n - 1 \in Bad
    BY <1>1, <2>1, SMTT(30)
  <2>4. Bad = {}
    <3> HIDE DEF Bad
    <3> QED
      BY <1>1, <2>2, <2>3, NoFirst
  <2>5. N \in 0..N
    BY <1>1
  <2> QED
    BY <2>4, <2>5
<1> QED
  BY <1>2, <1>3, <1>6 DEF d

\* DropDot,
LEMMA DropDotDecoded ==
    ASSUME NEW ss \in NonEmpty, OpenPieces(ss)
    PROVE  DropDot(DecodePieces(ss)) = DecodePieces(DropDot(ss)) /\ OpenPieces(DropDot(ss))
<1> DEFINE d == DecodePieces(ss)
           N == Len(ss)
<1>1. /\ ss \in Pieces /\ d \in Pieces /\ Len(d) = N /\ N \in Nat /\ N >= 1
      /\ \A i \in 1..N : d[i] = Decode(ss[i]) /\ ss[i] \in Word /\ Open(ss[i])
  <2>1. ss \in Pieces /\ N \in Nat /\ N >= 1 /\ \A i \in 1..N : ss[i] \in Word
    BY DEF NonEmpty, Pieces
  <2> QED
    BY <2>1, PiecesDecoded DEF OpenPieces
<1> HIDE DEF d, N
<1>2. d[1] = <<".">> <=> ss[1] = <<".">>
  <2>1. 1 \in 1..N
    BY <1>1
  <2> QED
    BY <1>1, <2>1, DecodeWord
<1>3. CASE N > 1 /\ ss[1] = <<".">>
  <2> DEFINE t == Tail(ss)
             l == DecodePieces(t)
             r == Tail(d)
             M == N - 1
  <2>1. /\ t \in Pieces /\ Len(t) = M /\ M \in Nat
        /\ \A i \in 1..M : t[i] = ss[i + 1] /\ i + 1 \in 1..N
    BY <1>1, <1>3 DEF Pieces, N
  <2>2. r \in Pieces /\ Len(r) = M /\ \A i \in 1..M : r[i] = d[i + 1]
    BY <1>1, <1>3 DEF Pieces
  <2> HIDE DEF t, r, M
  <2>3. OpenPieces(t)
    BY <1>1, <2>1 DEF OpenPieces
  <2>4. l \in Pieces /\ Len(l) = M /\ \A i \in 1..M : l[i] = Decode(t[i])
    BY <2>1, <2>3, PiecesDecoded
  <2> HIDE DEF l
  <2>5. \A i \in 1..M : l[i] = r[i]
    BY <1>1, <2>1, <2>2, <2>4
  <2>6. l = r
    BY <2>2, <2>4, <2>5 DEF Pieces
  <2>7. DropDot(ss) = t /\ DropDot(d) = r
    BY <1>1, <1>2, <1>3 DEF DropDot, t, r, N
  <2> QED
    BY <2>3, <2>6, <2>7 DEF d, l
<1>4. CASE ~(N > 1 /\ ss[1] = <<".">>)
  <2>1. DropDot(ss) = ss /\ DropDot(d) = d
    BY <1>1, <1>2, <1>4 DEF DropDot, N
  <2> QED
    BY <2>1 DEF d
<1> QED
  BY <1>3, <1>4

\* Compact,
LEMMA CompactDecoded ==
    ASSUME NEW ss \in NonEmpty, OpenPieces(ss)
    PROVE  Compact(DecodePieces(ss)) = DecodePieces(Compact(ss)) /\ OpenPieces(Compact(ss))
<1> DEFINE d == DecodePieces(ss)
           N == Len(ss)
           Drop(n) == n \in 2..(N - 1) /\ ss[n] \in {<<>>, <<".">>}
<1>1. /\ d \in NonEmpty /\ Len(d) = N /\ N \in Nat
      /\ \A n \in 1..N : /\ d[n] = Decode(ss[n]) /\ ss[n] \in Word /\ Open(ss[n])
                         /\ d[n] \in {<<>>, <<".">>} <=> ss[n] \in {<<>>, <<".">>}
  <2>1. ss \in Pieces /\ N \in Nat /\ \A n \in 1..N : ss[n] \in Word
    BY DEF NonEmpty, Pieces
  <2>2. d \in Pieces /\ d # <<>> /\ Len(d) = N /\ \A n \in 1..N : d[n] = Decode(ss[n])
    BY <2>1, PiecesDecoded, PiecesFront
  <2> HIDE DEF d, N
  <2>3. \A n \in 1..N : Open(ss[n])
    BY DEF OpenPieces, N
  <2>4. \A n \in 1..N : d[n] \in {<<>>, <<".">>} <=> ss[n] \in {<<>>, <<".">>}
    BY <2>1, <2>2, <2>3, DecodeWord
  <2> QED
    BY <2>1, <2>2, <2>3, <2>4 DEF NonEmpty
<1>2. PICK f \in [0..N -> Pieces] :
        /\ Compact(ss) = f[N] /\ f[0] = <<>>
        /\ \A n \in 1..N :
             f[n] = IF Drop(n) THEN f[n - 1] ELSE Append(f[n - 1], ss[n])
  BY CompactRun
<1> HIDE DEF d, N
<1>3. PICK g : /\ Compact(d) = g[N] /\ g[0] = <<>>
               /\ \A n \in 1..N : g[n] =
                    IF n \in 2..(N - 1) /\ d[n] \in {<<>>, <<".">>}
                    THEN g[n - 1] ELSE Append(g[n - 1], d[n])
  <2>1. \E g \in [0..Len(d) -> Pieces] :
          /\ Compact(d) = g[Len(d)] /\ g[0] = <<>>
          /\ \A n \in 1..Len(d) : g[n] =
               IF n \in 2..(Len(d) - 1) /\ d[n] \in {<<>>, <<".">>}
               THEN g[n - 1] ELSE Append(g[n - 1], d[n])
    BY <1>1, CompactRun
  <2>2. Len(d) = N
    BY <1>1
  <2> QED
    BY <2>1, <2>2
<1> DEFINE Right(n) == OpenPieces(f[n]) /\ g[n] = DecodePieces(f[n])
           Bad == {n \in 0..N : ~Right(n)}
<1>4. Right(0)
  <2>1. DecodePieces(<<>>) = <<>> /\ OpenPieces(<<>>)
    BY DEF DecodePieces, OpenPieces
  <2> QED
    BY <1>2, <1>3, <2>1
<1>5. ASSUME NEW n \in 1..N, Right(n - 1) PROVE Right(n)
  <2>1. f[n - 1] \in Pieces
    BY <1>1
  <2>2. g[n] = IF Drop(n) THEN g[n - 1] ELSE Append(g[n - 1], Decode(ss[n]))
    BY <1>1, <1>3
  <2> HIDE DEF Drop
  <2>3. /\ DecodePieces(Append(f[n - 1], ss[n]))
              = Append(DecodePieces(f[n - 1]), Decode(ss[n]))
        /\ OpenPieces(Append(f[n - 1], ss[n]))
    BY <1>1, <1>5, <2>1, PiecesAppend
  <2> QED
    BY <1>2, <1>5, <2>2, <2>3
<1>6. Right(N)
  <2>1. \A n \in 1..N : Right(n - 1) => Right(n)
    BY <1>5
  <2> HIDE DEF Right
  <2>2. Bad \in SUBSET (0..N) /\ 0 \notin Bad
    BY <1>4
  <2>3. \A n \in 1..N : n \in Bad => n - 1 \in Bad
    BY <1>1, <2>1, SMTT(30)
  <2>4. Bad = {}
    <3> HIDE DEF Bad
    <3> QED
      BY <1>1, <2>2, <2>3, NoFirst
  <2>5. N \in 0..N
    BY <1>1
  <2> QED
    BY <2>4, <2>5
<1> QED
  BY <1>2, <1>3, <1>6 DEF d

\* Climb,
LEMMA ClimbStepDecoded ==
    ASSUME NEW r \in Walked, OpenPieces(r.v), NEW t \in Walked, t.ok = r.ok,
           t.v = DecodePieces(r.v), NEW s \in Word, Open(s)
    PROVE  LET a == ClimbStep(r, s)
               b == ClimbStep(t, Decode(s))
           IN OpenPieces(a.v) /\ b.ok = a.ok /\ b.v = DecodePieces(a.v)
<1> DEFINE v == r.v
           dv == DecodePieces(v)
           ds == Decode(s)
<1>1. v \in Pieces /\ r.ok \in BOOLEAN
  BY DEF Walked
<1>2. dv \in Pieces /\ (dv = <<>> <=> v = <<>>)
  <2>1. dv \in Pieces /\ Len(dv) = Len(v)
    BY <1>1, PiecesDecoded
  <2> HIDE DEF dv, v
  <2> QED
    BY <1>1, <2>1 DEF Pieces
<1>3. ds = <<"..">> <=> s = <<"..">>
  BY DecodeWord
<1>4. /\ DecodePieces(Append(v, s)) = Append(dv, ds) /\ OpenPieces(Append(v, s))
  BY <1>1, PiecesAppend
<1>5. v # <<>> => Front(dv) = DecodePieces(Front(v)) /\ OpenPieces(Front(v))
  BY <1>1, PiecesFront DEF NonEmpty
<1>6. \A x : /\ [r EXCEPT !.v = x].v = x /\ [r EXCEPT !.v = x].ok = r.ok
             /\ [t EXCEPT !.v = x].v = x /\ [t EXCEPT !.v = x].ok = t.ok
  BY DEF Walked
<1>7. /\ [r EXCEPT !.ok = FALSE].v = v /\ [r EXCEPT !.ok = FALSE].ok = FALSE
      /\ [t EXCEPT !.ok = FALSE].v = dv /\ [t EXCEPT !.ok = FALSE].ok = FALSE
  BY DEF Walked
<1>8. t.v = dv
  OBVIOUS
<1>9. CASE ~r.ok \/ s # <<"..">>
  <2>1. /\ ClimbStep(r, s) = [r EXCEPT !.v = Append(v, s)]
        /\ ClimbStep(t, ds) = [t EXCEPT !.v = Append(dv, ds)]
    BY <1>3, <1>9 DEF ClimbStep
  <2> HIDE DEF v, dv, ds
  <2> QED
    BY <1>4, <1>6, <2>1 DEF ds
<1>10. CASE r.ok /\ s = <<"..">> /\ v = <<>>
  <2>1. /\ ClimbStep(r, s) = [r EXCEPT !.ok = FALSE]
        /\ ClimbStep(t, ds) = [t EXCEPT !.ok = FALSE]
    BY <1>2, <1>3, <1>8, <1>10 DEF ClimbStep
  <2> QED
    BY <1>7, <2>1
<1>11. CASE r.ok /\ s = <<"..">> /\ v # <<>>
  <2>1. /\ ClimbStep(r, s) = [r EXCEPT !.v = Front(v)]
        /\ ClimbStep(t, ds) = [t EXCEPT !.v = Front(dv)]
    BY <1>2, <1>3, <1>8, <1>11 DEF ClimbStep
  <2> HIDE DEF v, dv
  <2>2. /\ ClimbStep(r, s).v = Front(v) /\ ClimbStep(r, s).ok = r.ok
        /\ ClimbStep(t, ds).v = Front(dv) /\ ClimbStep(t, ds).ok = t.ok
    BY <1>6, <2>1
  <2> QED
    BY <1>5, <1>11, <2>2
<1> QED
  BY <1>1, <1>9, <1>10, <1>11

LEMMA ClimbDecoded ==
    ASSUME NEW ss \in NonEmpty, OpenPieces(ss)
    PROVE  LET r == Climb(ss)
               t == Climb(DecodePieces(ss))
           IN /\ r \in Walked /\ OpenPieces(r.v)
              /\ t.ok = r.ok /\ t.v = DecodePieces(r.v)
<1> DEFINE d == DecodePieces(ss)
           N == Len(ss) - 1
<1>1. /\ d \in NonEmpty /\ Len(d) - 1 = N /\ N \in Nat
      /\ \A n \in 1..N : d[n] = Decode(ss[n]) /\ ss[n] \in Word /\ Open(ss[n])
  <2>1. /\ ss \in Pieces /\ Len(ss) - 1 \in Nat /\ \A n \in 1..Len(ss) : ss[n] \in Word
        /\ \A n \in 1..N : n \in 1..Len(ss)
    BY DEF NonEmpty, Pieces
  <2>2. d \in Pieces /\ d # <<>> /\ Len(d) = Len(ss)
        /\ \A n \in 1..Len(ss) : d[n] = Decode(ss[n])
    BY <2>1, PiecesDecoded, PiecesFront
  <2> HIDE DEF d
  <2> QED
    BY <2>1, <2>2 DEF NonEmpty, OpenPieces
<1>2. PICK f \in [0..N -> Walked] :
        /\ Climb(ss) = f[N] /\ f[0] = [ok |-> TRUE, v |-> <<>>]
        /\ \A n \in 1..N : f[n] = ClimbStep(f[n - 1], ss[n])
  BY ClimbRun
<1> HIDE DEF d, N
<1>3. PICK g \in [0..N -> Walked] :
        /\ Climb(d) = g[N] /\ g[0] = [ok |-> TRUE, v |-> <<>>]
        /\ \A n \in 1..N : g[n] = ClimbStep(g[n - 1], d[n])
  BY <1>1, ClimbRun, ZenonT(60)
<1> DEFINE Right(n) == /\ OpenPieces(f[n].v) /\ g[n].ok = f[n].ok
                       /\ g[n].v = DecodePieces(f[n].v)
           Bad == {n \in 0..N : ~Right(n)}
<1>4. Right(0)
  <2>1. DecodePieces(<<>>) = <<>> /\ OpenPieces(<<>>)
    BY DEF DecodePieces, OpenPieces
  <2> QED
    BY <1>2, <1>3, <2>1
<1>5. ASSUME NEW n \in 1..N, Right(n - 1) PROVE Right(n)
  <2>1. f[n - 1] \in Walked /\ g[n - 1] \in Walked
    BY <1>1
  <2>2. g[n] = ClimbStep(g[n - 1], Decode(ss[n]))
    BY <1>1, <1>3
  <2>3. ss[n] \in Word /\ Open(ss[n]) /\ f[n] = ClimbStep(f[n - 1], ss[n])
    BY <1>1, <1>2
  <2> DEFINE r == f[n - 1]
             t == g[n - 1]
             w == ss[n]
  <2>4. /\ r \in Walked /\ t \in Walked /\ OpenPieces(r.v) /\ t.ok = r.ok
        /\ t.v = DecodePieces(r.v)
    BY <1>5, <2>1
  <2> HIDE DEF r, t
  <2>5. /\ OpenPieces(ClimbStep(r, w).v)
        /\ ClimbStep(t, Decode(w)).ok = ClimbStep(r, w).ok
        /\ ClimbStep(t, Decode(w)).v = DecodePieces(ClimbStep(r, w).v)
    BY <2>3, <2>4, ClimbStepDecoded
  <2> QED
    BY <2>2, <2>3, <2>5 DEF r, t
<1>6. Right(N)
  <2>1. \A n \in 1..N : Right(n - 1) => Right(n)
    BY <1>5
  <2> HIDE DEF Right
  <2>2. Bad \in SUBSET (0..N) /\ 0 \notin Bad
    BY <1>4
  <2>3. \A n \in 1..N : n \in Bad => n - 1 \in Bad
    BY <1>1, <2>1, SMTT(30)
  <2>4. Bad = {}
    <3> HIDE DEF Bad
    <3> QED
      BY <1>1, <2>2, <2>3, NoFirst
  <2>5. N \in 0..N
    BY <1>1
  <2> QED
    BY <2>4, <2>5
<1>7. f[N] \in Walked
  BY <1>1
<1> QED
  BY <1>2, <1>3, <1>6, <1>7 DEF d

\* and Join.
LEMMA JoinDecoded ==
    ASSUME NEW xs \in NonEmpty, OpenPieces(xs)
    PROVE  Join(DecodePieces(xs)) = Decode(Join(xs))
<1> DEFINE d == DecodePieces(xs)
           N == Len(xs)
<1>1. /\ xs \in Pieces /\ d \in Pieces /\ Len(d) = N /\ N \in Nat /\ N >= 1
      /\ \A n \in 1..N : d[n] = Decode(xs[n]) /\ xs[n] \in Path
  <2>1. /\ xs \in Pieces /\ N \in Nat /\ N >= 1 /\ \A n \in 1..N : xs[n] \in Word
    BY DEF NonEmpty, Pieces
  <2> QED
    BY <2>1, PiecesDecoded, WordsArePaths
<1>2. PICK f \in [0..N -> Path] :
        /\ Join(xs) = Tail(f[N]) /\ f[0] = <<>>
        /\ \A n \in 1..N : f[n] = f[n - 1] \o <<"/">> \o xs[n]
  BY <1>1, JoinRun
<1> HIDE DEF d, N
<1>3. PICK g : /\ Join(d) = Tail(g[N]) /\ g[0] = <<>>
               /\ \A n \in 1..N : g[n] = g[n - 1] \o <<"/">> \o d[n]
  BY <1>1, JoinRun, ZenonT(60)
<1> DEFINE Right(n) == g[n] = Decode(f[n])
           Bad == {n \in 0..N : ~Right(n)}
<1>4. Right(0)
  BY <1>2, <1>3 DEF Decode
<1>5. ASSUME NEW n \in 1..N, Right(n - 1) PROVE Right(n)
  <2>1. f[n - 1] \in Path /\ xs[n] \in Path /\ <<"/">> \in Path
    BY <1>1 DEF Path, Symbol
  <2>2. f[n - 1] \o <<"/">> \in Path
    BY <2>1 DEF Path
  <2>3. Decode(f[n - 1] \o <<"/">> \o xs[n])
          = Decode(f[n - 1] \o <<"/">>) \o Decode(xs[n])
    BY <2>1, <2>2, DecodeConcat
  <2>4. Decode(f[n - 1] \o <<"/">>) = Decode(f[n - 1]) \o Decode(<<"/">>)
    BY <2>1, DecodeConcat
  <2>5. Decode(<<"/">>) = <<"/">>
    BY <2>1, DecodeTail
  <2>6. g[n] = g[n - 1] \o <<"/">> \o Decode(xs[n])
    BY <1>1, <1>3
  <2> QED
    BY <1>2, <1>5, <2>3, <2>4, <2>5, <2>6
<1>6. Right(N)
  <2>1. \A n \in 1..N : Right(n - 1) => Right(n)
    BY <1>5
  <2> HIDE DEF Right
  <2>2. Bad \in SUBSET (0..N) /\ 0 \notin Bad
    BY <1>4
  <2>3. \A n \in 1..N : n \in Bad => n - 1 \in Bad
    BY <1>1, <2>1, SMTT(30)
  <2>4. Bad = {}
    <3> HIDE DEF Bad
    <3> QED
      BY <1>1, <2>2, <2>3, NoFirst
  <2>5. N \in 0..N
    BY <1>1
  <2> QED
    BY <2>4, <2>5
<1>7. f[N] \in Path /\ f[N] # <<>>
  <2>1. N \in 1..N /\ N - 1 \in 0..N /\ f[N - 1] \in Path /\ xs[N] \in Path /\ f[N] \in Path
    BY <1>1
  <2>2. f[N] = f[N - 1] \o <<"/">> \o xs[N]
    BY <1>2, <2>1
  <2>3. \A a, b \in Path : a \o <<"/">> \o b # <<>>
    <3>1. \A a, b \in Seq(Symbol) : Len(a \o <<"/">> \o b) = Len(a) + 1 + Len(b)
      BY DEF Symbol
    <3>2. \A a, b \in Seq(Symbol) : Len(a) + 1 + Len(b) # 0
      OBVIOUS
    <3>3. Len(<<>>) = 0
      OBVIOUS
    <3> QED
      BY <3>1, <3>2, <3>3 DEF Path
  <2> QED
    BY <2>1, <2>2, <2>3
<1>8. Decode(Tail(f[N])) = Tail(Decode(f[N]))
  BY <1>7, DecodeTail
<1> QED
  BY <1>2, <1>3, <1>6, <1>8 DEF d

\* So checkPath takes an open path as if it had been decoded before.
LEMMA CheckPathDecoded ==
    ASSUME NEW p \in Path, Open(p), CheckPath(p).ok
    PROVE  /\ CheckPath(Decode(p)).ok
           /\ CheckPath(Decode(p)).path = Decode(CheckPath(p).path)
<1> DEFINE a == Segments(p)
           b == DropDot(a)
           ss == Compact(b)
           r == Climb(ss)
           xs == Append(r.v, Last(ss))
           t == Climb(DecodePieces(ss))
<1>1. a \in NonEmpty /\ Segments(Decode(p)) = DecodePieces(a) /\ OpenPieces(a)
  BY SegmentsType, SegmentsDecoded
<1>2. CheckPath(p).ok = r.ok /\ CheckPath(p).path = Join(xs)
  BY DEF CheckPath
<1>3. b \in NonEmpty /\ DropDot(DecodePieces(a)) = DecodePieces(b) /\ OpenPieces(b)
  <2> HIDE DEF a
  <2> QED
    BY <1>1, WalkDropDot, DropDotDecoded
<1>4. ss \in NonEmpty /\ Compact(DecodePieces(b)) = DecodePieces(ss) /\ OpenPieces(ss)
  <2> HIDE DEF b
  <2> QED
    BY <1>3, WalkCompact, CompactDecoded
<1>5. CheckPath(Decode(p)).ok = t.ok
      /\ CheckPath(Decode(p)).path = Join(Append(t.v, Last(DecodePieces(ss))))
  <2> HIDE DEF a, b, ss
  <2> QED
    BY <1>1, <1>3, <1>4 DEF CheckPath
<1>6. /\ r.v \in Pieces /\ OpenPieces(r.v)
      /\ t.ok = r.ok /\ t.v = DecodePieces(r.v)
  <2> HIDE DEF ss
  <2> QED
    BY <1>4, ClimbDecoded DEF Walked
<1>7. /\ Last(ss) \in Word /\ Open(Last(ss))
      /\ Last(DecodePieces(ss)) = Decode(Last(ss))
  <2> HIDE DEF ss
  <2> QED
    BY <1>4, PiecesFront
<1> HIDE DEF a, b, ss, r, t
<1>8. /\ xs \in NonEmpty /\ OpenPieces(xs)
      /\ DecodePieces(xs) = Append(t.v, Last(DecodePieces(ss)))
  <2>1. xs \in Pieces /\ OpenPieces(xs)
        /\ DecodePieces(xs) = Append(DecodePieces(r.v), Decode(Last(ss)))
    BY <1>6, <1>7, PiecesAppend
  <2>2. \A v \in Pieces, w \in Word : Append(v, w) # <<>>
    <3>1. \A v \in Seq(Word), w \in Word : Append(v, w) # <<>>
      BY AppendProperties
    <3> QED
      BY <3>1 DEF Pieces
  <2>3. xs # <<>>
    BY <1>6, <1>7, <2>2
  <2> HIDE DEF xs
  <2> QED
    BY <1>6, <1>7, <2>1, <2>3 DEF NonEmpty
<1> HIDE DEF xs
<1> QED
  BY <1>2, <1>5, <1>6, <1>8, JoinDecoded

\* The path of an open URI is open.
LEMMA UriPathOpen ==
    ASSUME NEW u \in Path, Open(u)
    PROVE  Open(UriPath(u))
<1> DEFINE a == PruneScheme(u)
           b == PruneDelim(a, "@")
           c == PruneDelim(b, "/")
           e == ExtractPath(c)
<1>1. a \in Path /\ Range(a) \subseteq Range(u)
  BY Pruned
<1>2. b \in Path /\ Range(b) \subseteq Range(a)
  <2> HIDE DEF a
  <2> QED
    BY <1>1, Pruned
<1>3. c \in Path /\ Range(c) \subseteq Range(b)
  <2> HIDE DEF b
  <2> QED
    BY <1>2, Pruned
<1>4. Range(e) \subseteq Range(c)
  <2> DEFINE i == First(c, "?")
             f == SubSeq(c, 1, i - 1)
  <2> HIDE DEF c
  <2>1. i \in 0..Len(c) /\ c \in Seq(Symbol) /\ Len(c) \in Nat
    BY <1>3, FirstAt DEF Path
  <2>2. e = IF i = 0 THEN c ELSE f
    BY DEF ExtractPath
  <2>3. CASE i = 0
    BY <2>2, <2>3
  <2>4. CASE i # 0
    <3> HIDE DEF i
    <3>1. i - 1 \in 0..Len(c)
      BY <2>1, <2>4
    <3>2. f \in Seq(Symbol) /\ Len(f) = i - 1 /\ \A m \in 1..(i - 1) : f[m] = c[m]
      BY <2>1, <3>1
    <3>3. DOMAIN f = 1..(i - 1) /\ DOMAIN c = 1..Len(c)
      BY <2>1, <3>2
    <3>4. \A m \in 1..(i - 1) : m \in 1..Len(c)
      BY <2>1, <3>1
    <3> HIDE DEF f
    <3>5. Range(f) \subseteq Range(c)
      BY <3>2, <3>3, <3>4 DEF Range
    <3> QED
      BY <2>2, <2>4, <3>5
  <2> QED
    BY <2>3, <2>4
<1>5. UriPath(u) = e
  BY DEF UriPath
<1> HIDE DEF a, b, c, e
<1> QED
  BY <1>1, <1>2, <1>3, <1>4, <1>5 DEF Open

\* The step of parseURI.
LEMMA ParseLeads == RoutingInv /\ Parse => PathLeadsSame'
<1> SUFFICES ASSUME RoutingInv, Parse, pc' = "match", Open(request.uri)'
             PROVE  PathLeadsSame'
  BY DEF PathLeadsSame
<1> DEFINE p == UriPath(request.uri)
           c == CheckPath(p)
           r == ParseURI(request)
<1>1. request \in RequestType /\ request.uri \in Path
  BY DEF RoutingInv, RequestType
<1>2. p \in Path
  BY <1>1, UriPathType DEF UriPath
<1>3. request' = r.q /\ r.res = 0
  BY DEF Parse, Go
<1>4. /\ r.q.uri = request.uri
      /\ BadScheme(request.uri) => r.res = 400
      /\ ~BadScheme(request.uri) /\ ~c.ok => r.res = 400
      /\ ~BadScheme(request.uri) /\ c.ok => r.q.path = Decode(c.path)
  BY <1>1, ParseURICases
<1> HIDE DEF p, c, r
<1>5. c.ok /\ request.path' = Decode(c.path) /\ request.uri' = request.uri
  BY <1>3, <1>4
<1>6. Open(p)
  <2>1. Open(request.uri)
    BY <1>5
  <2> QED
    BY <1>1, <2>1, UriPathOpen DEF p
<1>7. CheckPath(Decode(p)).ok /\ CheckPath(Decode(p)).path = Decode(c.path)
  BY <1>2, <1>5, <1>6, CheckPathDecoded DEF c
<1>8. Decode(p) \in Path
  BY <1>2, DecodeType
<1> DEFINE d == Decode(c.path)
<1>9. /\ Walk(d) = Walk(Decode(p))
      /\ \A i \in DOMAIN Front(Segments(d)) : Segments(d)[i] # <<"..">>
  BY <1>7, <1>8, CheckPathLeads
<1> HIDE DEF d
<1>10. UriPath(request.uri)' = p
  BY <1>5 DEF p
<1>11. request.path' = d
  BY <1>5 DEF d
<1> QED
  BY <1>9, <1>10, <1>11 DEF PathLeadsSame

\* Whatever "//", "." and ".." the URI of a request is written with, the path
\* that parseURI makes of it leads to the same place and no longer climbs
\* before its last piece, if it escapes none of its dots and slashes: for every
\* such URI, at any number of redirections.
THEOREM PathLeadsSameAlways == Spec => []PathLeadsSame
<1>1. Init => PathLeadsSame
  BY DEF Init, PathLeadsSame
<1>2. ASSUME RoutingInv, PathLeadsSame, [Next]_vars
      PROVE  PathLeadsSame'
  <2>1. CASE Parse
    BY <1>2, <2>1, ParseLeads
  <2>2. CASE \/ Match \/ Redirect \/ Dir \/ LocationCheck \/ CgiCheck
             \/ Resource \/ LocalRedirect
    <3>1. pc' # "match"
      BY <2>2 DEF Match, Redirect, Dir, LocationCheck, CgiCheck, Resource,
                  LocalRedirect, Go
    <3> QED
      BY <3>1 DEF PathLeadsSame
  <2>3. CASE UNCHANGED vars
    BY <1>2, <2>3 DEF PathLeadsSame, vars
  <2> QED
    BY <1>2, <2>1, <2>2, <2>3 DEF Next
<1> QED
  BY <1>1, <1>2, RoutingInvariant, PTL DEF Spec

-----------------------------------------------------------------------------
(***************************************************************************)
(* Names are cut into tokens.                                              *)
(***************************************************************************)
\* A name's tokens are pieces of it, added symbol by symbol.
LEMMA TokenizeRun ==
    ASSUME NEW e \in Path
    PROVE  \E f \in [0..Len(e) -> Seq(Path)] :
               /\ Tokenize(e) = f[Len(e)]
               /\ f[0] = <<>>
               /\ \A n \in 1..Len(e) : f[n] = AddToken(f[n - 1], e[n])
<1> DEFINE N == Len(e)
           T == Seq(Path)
           Step(ts, n) == AddToken(ts, e[n])
           F(f) == [n \in 0..N |-> IF n = 0 THEN <<>> ELSE Step(f[n - 1], n)]
           R == CHOOSE f : f = F(f)
           g == [w \in T \X (1..N) |-> Step(w[1], w[2])]
<1>1. \A ts \in T, n \in 1..N : Step(ts, n) \in T
  <2> SUFFICES ASSUME NEW ts \in T, NEW n \in 1..N
               PROVE  AddToken(ts, e[n]) \in T
    OBVIOUS
  <2>1. e[n] \in Symbol /\ <<e[n]>> \in Path
    BY DEF Path
  <2>2. Append(ts, <<e[n]>>) \in T
    BY <2>1
  <2>3. CASE ts # <<>>
    <3>1. ts[Len(ts)] \in Path /\ Len(ts) \in 1..Len(ts)
      BY <2>3
    <3>2. Append(ts[Len(ts)], e[n]) \in Path
      BY <2>1, <3>1 DEF Path
    <3>3. [ts EXCEPT ![Len(ts)] = Append(@, e[n])] \in T
      BY <3>1, <3>2
    <3> QED
      BY <2>2, <3>3 DEF AddToken
  <2>4. CASE ts = <<>>
    BY <2>2, <2>4 DEF AddToken
  <2> QED
    BY <2>3, <2>4
<1>2. <<>> \in T /\ N \in Nat
  BY DEF Path
<1> HIDE DEF Step, N, T
<1>3. \E f : f = F(f)
  <2>1. g \in [T \X (1..N) -> T]
    BY <1>1
  <2>2. PICK f : Iteration(f, T, N, <<>>, g)
    <3> HIDE DEF g
    <3> QED
      BY <1>2, <2>1, Iterates
  <2>3. \A n \in 1..N : g[<<f[n - 1], n>>] = Step(f[n - 1], n)
    BY <1>2, <2>2 DEF Iteration
  <2> HIDE DEF g
  <2>4. \A n \in 0..N : f[n] = IF n = 0 THEN <<>> ELSE Step(f[n - 1], n)
    <3>1. \A n \in 0..N : n = 0 \/ n \in 1..N
      BY <1>2
    <3> QED
      BY <2>2, <2>3, <3>1 DEF Iteration
  <2>5. f = F(f)
    BY <2>2, <2>4 DEF Iteration
  <2> QED
    BY <2>5
<1>4. R = F(R)
  BY <1>3
<1>5. R[0] = <<>> /\ \A n \in 1..N : R[n] = Step(R[n - 1], n)
  <2> HIDE DEF R
  <2> QED
    BY <1>2, <1>4
<1>6. R \in [0..N -> T]
  <2> HIDE DEF R
  <2>1. R[0] \in T /\ \A n \in 1..N : R[n - 1] \in T => R[n] \in T
    BY <1>1, <1>2, <1>5
  <2>2. \A n \in 0..N : R[n] \in T
    BY <1>2, <2>1, Stays
  <2>3. R = [n \in 0..N |-> R[n]]
    BY <1>4
  <2> QED
    BY <2>2, <2>3
<1>7. Tokenize(e) = R[N]
  BY DEF Tokenize, Step, N
<1> HIDE DEF R
<1> QED
  BY <1>5, <1>6, <1>7 DEF Step, N, T

-----------------------------------------------------------------------------
(***************************************************************************)
(* Which of two names is closer.  Tokens are compared from the end: at     *)
(* each place one beats the other, or they tie and the rest decides.       *)
(***************************************************************************)
\* The token x comes out above y on u,
Beats(u, x, y) ==
    /\ x # Star
    /\ \/ y = Star
       \/ RFind(u, x) + Len(x) > RFind(u, y) + Len(y)
       \/ RFind(u, x) + Len(x) = RFind(u, y) + Len(y) /\ Len(x) > Len(y)

\* or neither does,
Ties(u, x, y) ==
    \/ x = Star /\ y = Star
    \/ /\ x # Star /\ y # Star
       /\ RFind(u, x) = RFind(u, y) /\ Len(x) = Len(y)

\* and the rest is compared on what is in front of the token.
Before(u, x) == IF x = Star \/ RFind(u, x) = NotFound THEN Len(u) ELSE RFind(u, x)

\* The beginning of a path.
LEMMA UptoPath ==
    ASSUME NEW u \in Path, NEW l \in 0..Len(u)
    PROVE  SubSeq(u, 1, l) \in Path /\ Len(SubSeq(u, 1, l)) = l
<1>1. Len(u) \in Nat /\ u \in Seq(Symbol)
  BY DEF Path
<1>2. SubSeq(u, 1, l) \in Path
  BY SubSeqPath
<1>3. Len(SubSeq(u, 1, l)) = l
  BY <1>1
<1> QED
  BY <1>2, <1>3

\* rfind gives a number in the path.
LEMMA RFindType ==
    ASSUME NEW u \in Path, NEW x \in Path
    PROVE  /\ RFind(u, x) \in -1..Len(u) /\ Before(u, x) \in 0..Len(u)
           /\ RFind(u, x) \in Int /\ Len(u) \in Nat /\ Len(x) \in Nat
<1> DEFINE at == Occurrences(u, x, 0)
<1>1. Len(u) \in Nat /\ Len(x) \in Nat
  BY DEF Path
<1>2. at \in SUBSET (0..Len(u))
  BY <1>1 DEF Occurrences
<1>3. RFind(u, x) = IF at = {} THEN -1 ELSE Max(at)
  BY DEF RFind, NotFound
<1> HIDE DEF at
<1>4. at # {} => Max(at) \in 0..Len(u)
  BY <1>1, <1>2, MaxOf
<1>5. RFind(u, x) \in -1..Len(u)
  BY <1>1, <1>3, <1>4
<1>6. RFind(u, x) \in Int
  BY <1>1, <1>5
<1> QED
  BY <1>1, <1>5, <1>6 DEF Before, NotFound

\* Of two tokens one beats the other at most, and those that tie are in one place.
LEMMA Ranks ==
    ASSUME NEW u \in Path, NEW x \in Path, NEW y \in Path
    PROVE  /\ ~(Beats(u, x, y) /\ Beats(u, y, x))
           /\ Ties(u, x, y) => ~Beats(u, x, y) /\ Ties(u, y, x)
           /\ Ties(u, x, y) => Before(u, x) = Before(u, y)
<1>1. /\ RFind(u, x) \in Int /\ RFind(u, y) \in Int
      /\ Len(x) \in Nat /\ Len(y) \in Nat
  BY RFindType
<1> QED
  BY <1>1 DEF Beats, Ties, Before

\* And a third token comes out between the two, or ties with both.
LEMMA RankedBetween ==
    ASSUME NEW u \in Path, NEW x \in Path, NEW y \in Path, NEW z \in Path
    PROVE  /\ Beats(u, x, z) => Beats(u, x, y) \/ Beats(u, y, z)
           /\ Ties(u, x, z) => \/ Beats(u, x, y) \/ Beats(u, y, z)
                               \/ Ties(u, x, y) /\ Ties(u, y, z)
<1>1. /\ RFind(u, x) \in Int /\ RFind(u, y) \in Int /\ RFind(u, z) \in Int
      /\ Len(x) \in Nat /\ Len(y) \in Nat /\ Len(z) \in Nat
  BY RFindType
<1> QED
  BY <1>1 DEF Beats, Ties

\* F[i][j][l]: the first i tokens of a against the first j of b, on the first l
\* symbols of uri.
Compares(F, uri, a, b) ==
    \A i \in 0..Len(a), j \in 0..Len(b), l \in 0..Len(uri) :
        LET u == SubSeq(uri, 1, l)
        IN F[i][j][l] <=>
             /\ i # 0
             /\ \/ j = 0
                \/ Beats(u, a[i], b[j])
                \/ /\ Ties(u, a[i], b[j])
                   /\ F[i - 1][j - 1][Before(u, a[i])]

\* BetterFrom, token by token.
LEMMA BetterRun ==
    ASSUME NEW uri \in Path, NEW a \in Seq(Path), NEW b \in Seq(Path)
    PROVE  \E F :
             BetterFrom(uri, a, b) = F[Len(a)][Len(b)][Len(uri)] /\ Compares(F, uri, a, b)
<1> DEFINE A == Len(a)
           B == Len(b)
           L == Len(uri)
           Turn(f, i, j, l) ==
                LET u == SubSeq(uri, 1, l)
                    posA == RFind(u, a[i])
                    posB == RFind(u, b[j])
                    diff == (posA + Len(a[i])) - (posB + Len(b[j]))
                IN IF i = 0 THEN FALSE
                   ELSE IF j = 0 THEN TRUE
                   ELSE IF a[i] = Star /\ b[j] = Star THEN f[j - 1][l]
                   ELSE IF a[i] = Star \/ b[j] = Star THEN b[j] = Star
                   ELSE IF diff # 0 THEN diff > 0
                   ELSE IF Len(a[i]) # Len(b[j]) THEN Len(a[i]) > Len(b[j])
                   ELSE f[j - 1][IF posA = NotFound THEN l ELSE posA]
           Row(f, i) == [j \in 0..B |-> [l \in 0..L |-> Turn(f, i, j, l)]]
           G(f) == [i \in 0..A |-> Row(f[i - 1], i)]
           R == CHOOSE f : f = G(f)
           T == [0..B -> [0..L -> BOOLEAN]]
           b0 == [j \in 0..B |-> [l \in 0..L |-> FALSE]]
           g == [w \in T \X (1..A) |-> Row(w[1], w[2])]
<1>1. A \in Nat /\ B \in Nat /\ L \in Nat
  BY DEF Path
<1>2. ASSUME NEW i \in 1..A, NEW j \in 1..B, NEW l \in 0..L
      PROVE  /\ a[i] \in Path /\ b[j] \in Path /\ SubSeq(uri, 1, l) \in Path
             /\ Len(SubSeq(uri, 1, l)) = l
  <2>1. a[i] \in Path /\ b[j] \in Path
    OBVIOUS
  <2>2. SubSeq(uri, 1, l) \in Path /\ Len(SubSeq(uri, 1, l)) = l
    BY UptoPath
  <2> QED
    BY <2>1, <2>2
<1>3. ASSUME NEW f, NEW i \in 1..A, NEW j \in 1..B, NEW l \in 0..L
      PROVE  LET u == SubSeq(uri, 1, l)
             IN /\ Before(u, a[i]) \in 0..L
                /\ Turn(f, i, j, l) =
                     IF Beats(u, a[i], b[j]) THEN TRUE
                     ELSE IF Ties(u, a[i], b[j]) THEN f[j - 1][Before(u, a[i])]
                     ELSE FALSE
  <2> DEFINE u == SubSeq(uri, 1, l)
             x == a[i]
             y == b[j]
  <2>1. x \in Path /\ y \in Path /\ u \in Path /\ Len(u) = l
    BY <1>2
  <2>2. Turn(f, i, j, l) =
             IF x = Star /\ y = Star THEN f[j - 1][l]
             ELSE IF x = Star \/ y = Star THEN y = Star
             ELSE IF (RFind(u, x) + Len(x)) - (RFind(u, y) + Len(y)) # 0
             THEN (RFind(u, x) + Len(x)) - (RFind(u, y) + Len(y)) > 0
             ELSE IF Len(x) # Len(y) THEN Len(x) > Len(y)
             ELSE f[j - 1][IF RFind(u, x) = NotFound THEN l ELSE RFind(u, x)]
    <3>1. ~(i = 0) /\ ~(j = 0)
      BY <1>1
    <3> QED
      BY <3>1
  <2> HIDE DEF u, x, y, Turn
  <2>3. /\ RFind(u, x) \in Int /\ RFind(u, y) \in Int /\ Before(u, x) \in 0..l
        /\ Len(x) \in Nat /\ Len(y) \in Nat
    BY <2>1, RFindType
  <2>4. Before(u, x) \in 0..L
    BY <1>1, <2>3
  <2>5. Before(u, x) = IF x = Star \/ RFind(u, x) = NotFound THEN l ELSE RFind(u, x)
    BY <2>1 DEF Before
  <2>6. Turn(f, i, j, l) = IF Beats(u, x, y) THEN TRUE
                           ELSE IF Ties(u, x, y) THEN f[j - 1][Before(u, x)]
                           ELSE FALSE
    <3>1. CASE x = Star \/ y = Star
      BY <2>2, <2>5, <3>1 DEF Beats, Ties
    <3>2. CASE x # Star /\ y # Star
      <4> DEFINE d == (RFind(u, x) + Len(x)) - (RFind(u, y) + Len(y))
                 last == f[j - 1][IF RFind(u, x) = NotFound THEN l ELSE RFind(u, x)]
      <4>4. Turn(f, i, j, l) = IF d # 0 THEN d > 0
                               ELSE IF Len(x) # Len(y) THEN Len(x) > Len(y) ELSE last
        <5> HIDE DEF d, last
        <5> QED
          BY <2>2, <3>2 DEF d, last
      <4>5. d \in Int /\ (d # 0 <=> RFind(u, x) + Len(x) # RFind(u, y) + Len(y))
            /\ (d > 0 <=> RFind(u, x) + Len(x) > RFind(u, y) + Len(y))
        <5> DEFINE P == RFind(u, x) + Len(x)
                   Q == RFind(u, y) + Len(y)
        <5>1. P \in Int /\ Q \in Int
          BY <2>3
        <5> HIDE DEF P, Q
        <5>2. P - Q \in Int /\ (P - Q # 0 <=> P # Q) /\ (P - Q > 0 <=> P > Q)
          BY <5>1
        <5> QED
          BY <5>2 DEF P, Q
      <4> HIDE DEF d, last
      <4>1. CASE RFind(u, x) + Len(x) # RFind(u, y) + Len(y)
        <5>1. Turn(f, i, j, l) = (d > 0)
          BY <4>1, <4>4, <4>5, Zenon
        <5>2. Beats(u, x, y) <=> d > 0
          BY <2>3, <3>2, <4>1, <4>5 DEF Beats
        <5>3. ~Ties(u, x, y)
          BY <3>2, <4>1 DEF Ties
        <5>4. CASE d > 0
          BY <5>1, <5>2, <5>4, Zenon
        <5>5. CASE ~(d > 0)
          <6>1. (d > 0) = FALSE
            BY <5>5
          <6>2. Turn(f, i, j, l) = FALSE
            BY <5>1, <6>1, Zenon
          <6> QED
            BY <5>2, <5>3, <5>5, <6>2, Zenon
        <5> QED
          BY <5>4, <5>5
      <4>2. CASE RFind(u, x) + Len(x) = RFind(u, y) + Len(y) /\ Len(x) # Len(y)
        <5>1. Turn(f, i, j, l) = (Len(x) > Len(y))
          BY <4>2, <4>4, <4>5, Zenon
        <5>2. Beats(u, x, y) <=> Len(x) > Len(y)
          BY <2>3, <3>2, <4>2 DEF Beats
        <5>3. ~Ties(u, x, y)
          BY <3>2, <4>2 DEF Ties
        <5>4. CASE Len(x) > Len(y)
          BY <5>1, <5>2, <5>4, Zenon
        <5>5. CASE ~(Len(x) > Len(y))
          <6>1. (Len(x) > Len(y)) = FALSE
            BY <5>5
          <6>2. Turn(f, i, j, l) = FALSE
            BY <5>1, <6>1, Zenon
          <6> QED
            BY <5>2, <5>3, <5>5, <6>2, Zenon
        <5> QED
          BY <5>4, <5>5
      <4>3. CASE RFind(u, x) + Len(x) = RFind(u, y) + Len(y) /\ Len(x) = Len(y)
        <5>1. ~Beats(u, x, y) /\ Ties(u, x, y)
          BY <2>3, <3>2, <4>3 DEF Beats, Ties
        <5>2. Turn(f, i, j, l) =
                f[j - 1][IF RFind(u, x) = NotFound THEN l ELSE RFind(u, x)]
          BY <4>3, <4>4, <4>5, Zenon DEF last
        <5> QED
          BY <2>5, <3>2, <5>1, <5>2
      <4> QED
        BY <4>1, <4>2, <4>3
    <3> QED
      BY <3>1, <3>2
  <2> QED
    BY <2>4, <2>6 DEF u, x, y
<1>4. \A f, j, l : Turn(f, 0, j, l) = FALSE
  OBVIOUS
<1>5. \A f, l : \A i \in 1..A : Turn(f, i, 0, l) = TRUE
  BY <1>1
<1> HIDE DEF Turn
<1>6. \A f : Row(f, 0) = b0
  BY <1>4
<1>7. \A f \in T, i \in 1..A : Row(f, i) \in T
  <2> SUFFICES ASSUME NEW f \in T, NEW i \in 1..A, NEW j \in 0..B, NEW l \in 0..L
               PROVE  Turn(f, i, j, l) \in BOOLEAN
    OBVIOUS
  <2>1. CASE j = 0
    BY <1>5, <2>1
  <2>2. CASE j # 0
    <3>1. j \in 1..B /\ j - 1 \in 0..B
      BY <1>1, <2>2
    <3>2. Before(SubSeq(uri, 1, l), a[i]) \in 0..L
      BY <1>3, <3>1
    <3>3. f[j - 1][Before(SubSeq(uri, 1, l), a[i])] \in BOOLEAN
      BY <3>1, <3>2
    <3> QED
      BY <1>3, <3>1, <3>3
  <2> QED
    BY <2>1, <2>2
<1>8. b0 \in T
  OBVIOUS
<1> HIDE DEF Row, T, b0, A, B, L
<1>9. \E f : f = G(f)
  <2>1. g \in [T \X (1..A) -> T]
    BY <1>7
  <2>2. PICK f : Iteration(f, T, A, b0, g)
    <3> HIDE DEF g
    <3> QED
      BY <1>1, <1>8, <2>1, Iterates
  <2>3. \A i \in 1..A : g[<<f[i - 1], i>>] = Row(f[i - 1], i)
    BY <1>1, <2>2 DEF Iteration
  <2> HIDE DEF g
  <2>4. \A i \in 0..A : f[i] = Row(f[i - 1], i)
    <3>1. \A i \in 0..A : i = 0 \/ i \in 1..A
      BY <1>1
    <3> QED
      BY <1>6, <2>2, <2>3, <3>1 DEF Iteration
  <2>5. f = G(f)
    BY <2>2, <2>4 DEF Iteration
  <2> QED
    BY <2>5
<1>10. R = G(R)
  BY <1>9
<1>11. BetterFrom(uri, a, b) = R[A][B][L]
  BY DEF BetterFrom, Turn, Row, A, B, L
<1> HIDE DEF R
<1>12. \A i \in 0..A, j \in 0..B, l \in 0..L : R[i][j][l] = Turn(R[i - 1], i, j, l)
  <2> SUFFICES ASSUME NEW i \in 0..A, NEW j \in 0..B, NEW l \in 0..L
               PROVE  R[i][j][l] = Turn(R[i - 1], i, j, l)
    OBVIOUS
  <2>1. R[i] = Row(R[i - 1], i)
    BY <1>10
  <2> QED
    BY <2>1 DEF Row
<1>13. ASSUME NEW i \in 0..A, NEW j \in 0..B, NEW l \in 0..L
       PROVE  LET u == SubSeq(uri, 1, l)
              IN R[i][j][l] <=>
                   /\ i # 0
                   /\ \/ j = 0
                      \/ Beats(u, a[i], b[j])
                      \/ /\ Ties(u, a[i], b[j])
                         /\ R[i - 1][j - 1][Before(u, a[i])]
  <2>1. CASE i = 0
    BY <1>4, <1>12, <2>1
  <2>2. CASE i # 0 /\ j = 0
    <3>1. i \in 1..A
      BY <1>1, <2>2
    <3> QED
      BY <1>5, <1>12, <2>2, <3>1
  <2>3. CASE i # 0 /\ j # 0
    <3>1. i \in 1..A /\ j \in 1..B
      BY <1>1, <2>3
    <3> DEFINE u == SubSeq(uri, 1, l)
               rest == R[i - 1][j - 1][Before(u, a[i])]
    <3>2. R[i][j][l] = IF Beats(u, a[i], b[j]) THEN TRUE
                       ELSE IF Ties(u, a[i], b[j]) THEN rest ELSE FALSE
      <4>1. R[i][j][l] = Turn(R[i - 1], i, j, l)
        BY <1>12
      <4>2. Turn(R[i - 1], i, j, l) = IF Beats(u, a[i], b[j]) THEN TRUE
                       ELSE IF Ties(u, a[i], b[j]) THEN rest ELSE FALSE
        BY <1>3, <3>1, Zenon
      <4> HIDE DEF u, rest
      <4> QED
        BY <4>1, <4>2, Zenon
    <3> HIDE DEF u, rest
    <3>3. CASE Beats(u, a[i], b[j])
      BY <2>3, <3>2, <3>3 DEF u
    <3>4. CASE ~Beats(u, a[i], b[j]) /\ Ties(u, a[i], b[j])
      <4>1. R[i][j][l] = rest
        BY <3>2, <3>4
      <4>2. R[i][j][l] <=> rest
        BY <4>1
      <4> QED
        BY <2>3, <3>4, <4>2 DEF u, rest
    <3>5. CASE ~Beats(u, a[i], b[j]) /\ ~Ties(u, a[i], b[j])
      <4>1. R[i][j][l] = FALSE
        BY <3>2, <3>5
      <4> QED
        BY <2>3, <3>5, <4>1 DEF u
    <3> QED
      BY <3>3, <3>4, <3>5
  <2> QED
    BY <2>1, <2>2, <2>3
<1>14. Compares(R, uri, a, b)
  BY <1>13 DEF Compares, A, B, L
<1> QED
  BY <1>11, <1>14 DEF A, B, L

\* A name that is better than one of two is better than the other, or the
\* other is better than the first: the comparison from the end is a ranking.
LEMMA BetterBetween ==
    ASSUME NEW uri \in Path, NEW a \in Seq(Path), NEW b \in Seq(Path),
           NEW c \in Seq(Path), BetterFrom(uri, a, c)
    PROVE  BetterFrom(uri, a, b) \/ BetterFrom(uri, b, c)
<1> DEFINE A == Len(a)
           B == Len(b)
           C == Len(c)
           L == Len(uri)
           U(l) == SubSeq(uri, 1, l)
<1>1. PICK F : BetterFrom(uri, a, c) = F[A][C][L] /\ Compares(F, uri, a, c)
  BY BetterRun
<1>2. PICK G : BetterFrom(uri, a, b) = G[A][B][L] /\ Compares(G, uri, a, b)
  BY BetterRun
<1>3. PICK H : BetterFrom(uri, b, c) = H[B][C][L] /\ Compares(H, uri, b, c)
  BY BetterRun
<1>4. A \in Nat /\ B \in Nat /\ C \in Nat /\ L \in Nat
  BY DEF Path
<1>5. \A l \in 0..L : U(l) \in Path /\ Len(U(l)) = l
  BY UptoPath
<1>6. /\ \A i \in 1..A : a[i] \in Path
      /\ \A i \in 1..B : b[i] \in Path
      /\ \A i \in 1..C : c[i] \in Path
  OBVIOUS
<1> DEFINE Bad == {i \in 0..A : \E j \in 0..B, k \in 0..C, l \in 0..L :
                        F[i][k][l] /\ ~G[i][j][l] /\ ~H[j][k][l]}
<1> HIDE DEF A, B, C, L, U
<1>7. Bad \in SUBSET (0..A) /\ 0 \notin Bad
  <2>1. \A k \in 0..C, l \in 0..L : ~F[0][k][l]
    BY <1>1, <1>4 DEF Compares, A, C, L, U
  <2> QED
    BY <2>1
<1>8. \A i \in 1..A : i \in Bad => i - 1 \in Bad
  <2> SUFFICES ASSUME NEW i \in 1..A, NEW j \in 0..B, NEW k \in 0..C, NEW l \in 0..L,
                      F[i][k][l], ~G[i][j][l], ~H[j][k][l]
               PROVE  i - 1 \in Bad
    OBVIOUS
  <2> DEFINE u == U(l)
             x == a[i]
             y == b[j]
             z == c[k]
             m == Before(u, x)
  <2>1. i # 0 /\ i \in 0..A /\ i - 1 \in 0..A
    BY <1>4
  <2>2. \/ k = 0
        \/ Beats(u, x, z)
        \/ Ties(u, x, z) /\ F[i - 1][k - 1][Before(u, x)]
    BY <1>1, <2>1 DEF Compares, A, C, L, U
  <2>3. /\ j # 0
        /\ ~Beats(u, x, y)
        /\ ~(Ties(u, x, y) /\ G[i - 1][j - 1][Before(u, x)])
    BY <1>2, <2>1 DEF Compares, A, B, L, U
  <2>4. /\ k # 0
        /\ ~Beats(u, y, z)
        /\ ~(Ties(u, y, z) /\ H[j - 1][k - 1][Before(u, y)])
    BY <1>3, <2>3 DEF Compares, B, C, L, U
  <2>5. u \in Path /\ x \in Path /\ y \in Path /\ z \in Path /\ Len(u) = l
    <3>1. j \in 1..B /\ k \in 1..C
      BY <1>4, <2>3, <2>4
    <3> QED
      BY <1>5, <1>6, <3>1
  <2> HIDE DEF u, x, y, z
  <2>6. Ties(u, x, z) /\ Ties(u, x, y) /\ Ties(u, y, z) /\ F[i - 1][k - 1][Before(u, x)]
    BY <2>2, <2>3, <2>4, <2>5, RankedBetween
  <2>7. Before(u, x) = Before(u, y) /\ Before(u, x) \in 0..L
    <3>1. Before(u, x) = Before(u, y)
      BY <2>5, <2>6, Ranks
    <3>2. Before(u, x) \in 0..l
      BY <2>5, RFindType
    <3> QED
      BY <1>4, <3>1, <3>2
  <2>8. ~G[i - 1][j - 1][m] /\ ~H[j - 1][k - 1][m] /\ F[i - 1][k - 1][m]
    BY <2>3, <2>4, <2>6, <2>7
  <2>9. j - 1 \in 0..B /\ k - 1 \in 0..C /\ m \in 0..L
    <3>1. j - 1 \in 0..B /\ k - 1 \in 0..C
      BY <1>4, <2>3, <2>4
    <3> QED
      BY <2>7, <3>1
  <2> HIDE DEF m
  <2> QED
    BY <2>1, <2>8, <2>9
<1>9. Bad = {}
  <2> HIDE DEF Bad
  <2> QED
    BY <1>4, <1>7, <1>8, NoFirst
<1>10. F[A][C][L] => G[A][B][L] \/ H[B][C][L]
  BY <1>4, <1>9
<1>11. F[A][C][L]
  BY <1>1
<1> QED
  BY <1>1, <1>2, <1>3, <1>10, <1>11

\* Of two names at most one is better.
LEMMA BetterOneWay ==
    ASSUME NEW uri \in Path, NEW a \in Seq(Path), NEW b \in Seq(Path),
           BetterFrom(uri, a, b)
    PROVE  ~BetterFrom(uri, b, a)
<1> DEFINE A == Len(a)
           B == Len(b)
           L == Len(uri)
           U(l) == SubSeq(uri, 1, l)
<1>1. PICK F : BetterFrom(uri, a, b) = F[A][B][L] /\ Compares(F, uri, a, b)
  BY BetterRun
<1>2. PICK G : BetterFrom(uri, b, a) = G[B][A][L] /\ Compares(G, uri, b, a)
  BY BetterRun
<1>4. A \in Nat /\ B \in Nat /\ L \in Nat
  BY DEF Path
<1>5. \A l \in 0..L : U(l) \in Path /\ Len(U(l)) = l
  BY UptoPath
<1>6. /\ \A i \in 1..A : a[i] \in Path
      /\ \A i \in 1..B : b[i] \in Path
  OBVIOUS
<1> DEFINE Bad == {i \in 0..A : \E j \in 0..B, l \in 0..L : F[i][j][l] /\ G[j][i][l]}
<1> HIDE DEF A, B, L, U
<1>7. Bad \in SUBSET (0..A) /\ 0 \notin Bad
  <2>1. \A j \in 0..B, l \in 0..L : ~F[0][j][l]
    BY <1>1, <1>4 DEF Compares, A, B, L, U
  <2> QED
    BY <2>1
<1>8. \A i \in 1..A : i \in Bad => i - 1 \in Bad
  <2> SUFFICES ASSUME NEW i \in 1..A, NEW j \in 0..B, NEW l \in 0..L,
                      F[i][j][l], G[j][i][l]
               PROVE  i - 1 \in Bad
    OBVIOUS
  <2> DEFINE u == U(l)
             x == a[i]
             y == b[j]
             m == Before(u, x)
  <2>1. i # 0 /\ i \in 0..A /\ i - 1 \in 0..A
    BY <1>4
  <2>2. /\ j # 0
        /\ \/ Beats(u, y, x)
           \/ Ties(u, y, x) /\ G[j - 1][i - 1][Before(u, y)]
    BY <1>2, <2>1 DEF Compares, A, B, L, U
  <2>3. \/ Beats(u, x, y)
        \/ Ties(u, x, y) /\ F[i - 1][j - 1][m]
    BY <1>1, <2>1, <2>2 DEF Compares, A, B, L, U
  <2>5. u \in Path /\ x \in Path /\ y \in Path /\ Len(u) = l
    <3>1. j \in 1..B
      BY <1>4, <2>2
    <3> QED
      BY <1>5, <1>6, <3>1
  <2> HIDE DEF u, x, y, m
  <2>6. /\ Ties(u, x, y) /\ F[i - 1][j - 1][m]
        /\ G[j - 1][i - 1][Before(u, y)]
    BY <2>2, <2>3, <2>5, Ranks
  <2>7. m = Before(u, y) /\ m \in 0..L
    <3>1. m = Before(u, y)
      BY <2>5, <2>6, Ranks DEF m
    <3>2. m \in 0..l
      BY <2>5, RFindType DEF m
    <3> QED
      BY <1>4, <3>1, <3>2
  <2>9. j - 1 \in 0..B
    BY <1>4, <2>2
  <2> QED
    BY <2>1, <2>6, <2>7, <2>9
<1>9. Bad = {}
  <2> HIDE DEF Bad
  <2> QED
    BY <1>4, <1>7, <1>8, NoFirst
<1>10. ~(F[A][B][L] /\ G[B][A][L])
  BY <1>4, <1>9
<1> QED
  BY <1>1, <1>2, <1>10

\* No name that matches is better than the one getObjectMatch ends with.
LEMMA ClosestName ==
    ASSUME NEW names \in Seq(Path), NEW uri \in Path, NEW e \in Range(names),
           e # GetObjectMatch(names, uri)
    PROVE  ~IsUriMatch(uri, e, GetObjectMatch(names, uri))
<1> DEFINE N == Len(names)
<1>1. PICK B \in [0..N -> Range(names) \union {<<>>}] :
          /\ GetObjectMatch(names, uri) = B[N]
          /\ B[0] = <<>>
          /\ \A n \in 1..N : B[n] = NextBest(uri, B[n - 1], names[n])
  BY BestRun
<1>2. N \in Nat /\ N \in 0..N /\ \A m \in 1..N : names[m] \in Path
  OBVIOUS
<1>3. \A n \in 0..N : B[n] \in Path
  <2>1. \A x \in Range(names) : x \in Path
    BY DEF Range
  <2>2. <<>> \in Path
    BY DEF Path
  <2> QED
    BY <2>1, <2>2
<1>4. PICK k \in 1..N : names[k] = e
  BY DEF Range
<1> HIDE DEF N
<1>5. \A x \in Path : Tokenize(x) \in Seq(Path)
  <2> SUFFICES ASSUME NEW x \in Path PROVE Tokenize(x) \in Seq(Path)
    OBVIOUS
  <2>1. Len(x) \in 0..Len(x)
    BY DEF Path
  <2>2. PICK f \in [0..Len(x) -> Seq(Path)] : Tokenize(x) = f[Len(x)]
    BY TokenizeRun
  <2> QED
    BY <2>1, <2>2
<1>6. ~Matches(uri, <<>>)
  BY NothingMatches
<1> DEFINE Held(n, m) == IF B[n] = <<>> THEN ~Matches(uri, names[m])
                         ELSE names[m] = B[n] \/ ~IsUriMatch(uri, names[m], B[n])
           Bad == {n \in 0..N : \E m \in 1..n : ~Held(n, m)}
<1>7. Bad \in SUBSET (0..N) /\ 0 \notin Bad
  OBVIOUS
<1>8. \A n \in 1..N : n \in Bad => n - 1 \in Bad
  <2> SUFFICES ASSUME NEW n \in 1..N, NEW m \in 1..n, ~Held(n, m),
                      m \in 1..(n - 1) => Held(n - 1, m)
               PROVE  FALSE
    BY <1>2
  <2> DEFINE o == B[n - 1]
             x == names[n]
             z == names[m]
  <2>1. /\ o \in Path /\ x \in Path /\ z \in Path
        /\ B[n] = NextBest(uri, o, x)
        /\ m = n \/ m \in 1..(n - 1)
    BY <1>1, <1>2, <1>3
  <2>2. m = n => z = x
    OBVIOUS
  <2>3. m # n => IF o = <<>> THEN ~Matches(uri, z) ELSE z = o \/ ~IsUriMatch(uri, z, o)
    BY <2>1
  <2>4. ~IF B[n] = <<>> THEN ~Matches(uri, z) ELSE z = B[n] \/ ~IsUriMatch(uri, z, B[n])
    OBVIOUS
  <2> HIDE DEF o, x, z, Held
  <2>5. CASE B[n] = o
    <3>1. m = n => IF o = <<>> THEN ~Matches(uri, z) ELSE z = o \/ ~IsUriMatch(uri, z, o)
      BY <2>1, <2>2, <2>5, <1>6 DEF NextBest
    <3> QED
      BY <2>3, <2>4, <2>5, <3>1
  <2>6. CASE B[n] # o
    <3>1. /\ B[n] = x /\ Matches(uri, x) /\ x # <<>>
          /\ o # <<>> => BetterFrom(uri, Tokenize(x), Tokenize(o))
      BY <1>6, <2>1, <2>6 DEF NextBest, IsUriMatch
    <3>2. /\ z # x /\ Matches(uri, z) /\ BetterFrom(uri, Tokenize(z), Tokenize(x))
      BY <2>4, <3>1 DEF IsUriMatch
    <3>3. m # n /\ o # <<>>
      BY <2>2, <2>3, <3>2
    <3>4. ~BetterFrom(uri, Tokenize(o), Tokenize(x))
      BY <1>5, <2>1, <3>1, <3>3, BetterOneWay
    <3>5. z # o
      BY <3>2, <3>4
    <3>6. ~BetterFrom(uri, Tokenize(z), Tokenize(o))
      BY <2>3, <3>2, <3>3, <3>5 DEF IsUriMatch
    <3> QED
      BY <1>5, <2>1, <3>2, <3>4, <3>6, BetterBetween
  <2> QED
    BY <2>5, <2>6
<1>9. Bad = {}
  <2> HIDE DEF Bad
  <2> QED
    BY <1>2, <1>7, <1>8, NoFirst
<1>10. Held(N, k)
  BY <1>2, <1>9
<1> QED
  BY <1>1, <1>4, <1>10 DEF IsUriMatch

\* The location is the closest one: whatever the order in which getObjectMatch
\* goes through the map of locations, no other name that matches the path is
\* better than the one it ends with, for any number of locations with any names.
THEOREM ClosestLocationAlways == Spec => []ClosestLocation
<1>1. RoutingInv => ClosestLocation
  <2> SUFFICES ASSUME RoutingInv,
                      NEW e \in Range(Names(host.locations)),
                      e # GetObjectMatch(Names(host.locations), request.path)
               PROVE  ~IsUriMatch(request.path, e,
                                  GetObjectMatch(Names(host.locations), request.path))
    BY DEF ClosestLocation
  <2>1. request.path \in Path /\ host \in Hosts
    BY DEF RoutingInv, RequestType
  <2>2. host.locations \in Seq(LocationType)
    BY <2>1, HostsAssumption
  <2>3. \A r \in LocationType : r.name \in Path
    BY StringsArePaths DEF LocationType
  <2>4. Names(host.locations) \in Seq(Path)
    BY <2>2, <2>3 DEF Names
  <2> QED
    BY <2>1, <2>4, ClosestName
<1> QED
  BY <1>1, RoutingInvariant, PTL

-----------------------------------------------------------------------------
(***************************************************************************)
(* What a name matches.  Glob goes through the name symbol by symbol and   *)
(* tries every end of a "*"; isMatch goes through its tokens and takes the *)
(* first.  The two are compared from the last token back.                  *)
(***************************************************************************)
\* G[k][i]: the expression from position k on stands for the uri from i on.
Stands(G, uri, e) ==
    \A k \in 0..Len(e), i \in 0..Len(uri) :
        G[k][i] <=> IF k = Len(e) THEN i = Len(uri)
                    ELSE IF e[k + 1] = "*" THEN \E j \in i..Len(uri) : G[k + 1][j]
                    ELSE i < Len(uri) /\ uri[i + 1] = e[k + 1] /\ G[k + 1][i + 1]

\* Glob, symbol by symbol.
LEMMA GlobRun ==
    ASSUME NEW uri \in Path, NEW e \in Path
    PROVE  \E G : Glob(uri, e) = G[0][0] /\ Stands(G, uri, e)
<1> DEFINE N == Len(e)
           L == Len(uri)
           Turn(r, k, i) ==
               IF k = N THEN i = L
               ELSE IF e[k + 1] = "*" THEN \E j \in i..L : r[j]
               ELSE i < L /\ uri[i + 1] = e[k + 1] /\ r[i + 1]
           Row(r, k) == [i \in 0..L |-> Turn(r, k, i)]
           F(f) == [k \in 0..N |-> Row(f[k + 1], k)]
           R == CHOOSE f : f = F(f)
           T == [0..L -> BOOLEAN]
           b == Row(<<>>, N)
           g == [w \in T \X (0..(N - 1)) |-> Row(w[1], w[2])]
<1>1. N \in Nat /\ L \in Nat
  BY DEF Path
<1>2. \A r, k, i : Turn(r, k, i) \in BOOLEAN
  OBVIOUS
<1>3. \A r, i : Turn(r, N, i) = Turn(<<>>, N, i)
  OBVIOUS
<1> HIDE DEF Turn, N, L
<1>4. \A r, k : Row(r, k) \in T
  BY <1>2
<1>5. b \in T /\ \A r : Row(r, N) = b
  BY <1>3, <1>4
<1> HIDE DEF T, b, Row
<1>6. \E f : f = F(f)
  <2>1. g \in [T \X (0..(N - 1)) -> T]
    BY <1>4
  <2>2. PICK f : IterationDown(f, T, N, b, g)
    <3> HIDE DEF g
    <3> QED
      BY <1>1, <1>5, <2>1, IteratesDown
  <2>3. ASSUME NEW k \in 0..(N - 1) PROVE f[k] = Row(f[k + 1], k)
    <3>1. k + 1 \in 0..N /\ f[k + 1] \in T
      BY <1>1, <2>2 DEF IterationDown
    <3>2. g[<<f[k + 1], k>>] = Row(f[k + 1], k)
      BY <3>1
    <3> QED
      <4> HIDE DEF g
      <4> QED
        BY <2>2, <3>2 DEF IterationDown
  <2> HIDE DEF g
  <2>4. \A k \in 0..N : f[k] = Row(f[k + 1], k)
    <3>1. \A k \in 0..N : k = N \/ k \in 0..(N - 1)
      BY <1>1
    <3> QED
      BY <1>5, <2>2, <2>3, <3>1 DEF IterationDown
  <2>5. f = F(f)
    BY <2>2, <2>4 DEF IterationDown
  <2> QED
    BY <2>5
<1>7. R = F(R)
  BY <1>6
<1>8. Glob(uri, e) = R[0][0]
  BY DEF Glob, Turn, Row, N, L
<1> HIDE DEF R
<1>9. Stands(R, uri, e)
  <2>1. ASSUME NEW k \in 0..N, NEW i \in 0..L PROVE R[k][i] = Turn(R[k + 1], k, i)
    <3>1. R[k] = Row(R[k + 1], k)
      BY <1>7
    <3> QED
      BY <3>1 DEF Row
  <2>2. ASSUME NEW k \in 0..N, NEW i \in 0..L PROVE R[k][i] <=> Turn(R[k + 1], k, i)
    BY <2>1
  <2> QED
    BY <2>2 DEF Stands, Turn, N, L
<1> QED
  BY <1>8, <1>9

\* A literal piece of the expression stands for itself.
LEMMA LiteralStands ==
    ASSUME NEW uri \in Path, NEW e \in Path, NEW G, Stands(G, uri, e),
           NEW t \in Path, NEW s \in Nat, s + Len(t) <= Len(e),
           \A m \in 1..Len(t) : t[m] = e[s + m] /\ t[m] # "*",
           NEW i \in 0..Len(uri)
    PROVE  G[s][i] <=> /\ i + Len(t) <= Len(uri)
                       /\ \A m \in 1..Len(t) : uri[i + m] = t[m]
                       /\ G[s + Len(t)][i + Len(t)]
<1> DEFINE W == Len(t)
           L == Len(uri)
           P(n) == /\ i + n <= L
                   /\ \A m \in 1..n : uri[i + m] = t[m]
                   /\ G[s + n][i + n]
           Bad == {n \in 0..W : ~(G[s][i] <=> P(n))}
<1>1. W \in Nat /\ L \in Nat /\ Len(e) \in Nat /\ i \in Nat /\ s + W <= Len(e)
  BY DEF Path
<1>2. Bad \in SUBSET (0..W) /\ 0 \notin Bad
  <2>1. P(0) <=> G[s][i]
    <3>1. s + 0 = s /\ i + 0 = i /\ i + 0 <= L /\ 1..0 = {}
      BY <1>1
    <3> QED
      BY <3>1
  <2> QED
    BY <2>1
<1>3. \A n \in 1..W : n \in Bad => n - 1 \in Bad
  <2> SUFFICES ASSUME NEW n \in 1..W PROVE P(n - 1) <=> P(n)
    BY <1>1
  <2> DEFINE k == s + (n - 1)
             j == i + (n - 1)
  <2>1. /\ k \in 0..Len(e) /\ k # Len(e) /\ k + 1 = s + n /\ j + 1 = i + n /\ j \in Nat
        /\ e[s + n] = t[n] /\ t[n] # "*"
    BY <1>1
  <2>2. j <= L => (G[k][j] <=> j < L /\ uri[i + n] = t[n] /\ G[s + n][i + n])
    <3>1. j <= L => j \in 0..L
      BY <1>1, <2>1
    <3>2. j \in 0..L => (G[k][j] <=> j < L /\ uri[j + 1] = e[k + 1] /\ G[k + 1][j + 1])
      <4> HIDE DEF k, j
      <4> QED
        BY <2>1 DEF Stands, L
    <3> QED
      BY <2>1, <3>1, <3>2
  <2>3. (\A m \in 1..n : uri[i + m] = t[m])
        <=> (\A m \in 1..(n - 1) : uri[i + m] = t[m]) /\ uri[i + n] = t[n]
    <3>1. \A m \in 1..n : m = n \/ m \in 1..(n - 1)
      OBVIOUS
    <3>2. n \in 1..n /\ \A m \in 1..(n - 1) : m \in 1..n
      OBVIOUS
    <3> QED
      BY <3>1, <3>2
  <2>4. i + n <= L <=> j < L
    BY <1>1, <2>1
  <2>5. P(n) <=> j < L /\ (\A m \in 1..(n - 1) : uri[i + m] = t[m])
                  /\ uri[i + n] = t[n] /\ G[s + n][i + n]
    BY <2>3, <2>4
  <2>6. P(n - 1) <=> j <= L /\ (\A m \in 1..(n - 1) : uri[i + m] = t[m]) /\ G[k][j]
    OBVIOUS
  <2>7. j < L => j <= L
    BY <1>1, <2>1
  <2> HIDE DEF P, k, j
  <2> QED
    BY <2>2, <2>5, <2>6, <2>7
<1>4. Bad = {}
  <2> HIDE DEF Bad
  <2> QED
    BY <1>1, <1>2, <1>3, NoFirst
<1>5. W \in 0..W
  BY <1>1
<1> QED
  BY <1>4, <1>5

\* t is e from behind a up to b, and has no "*" unless it is one.
Token(t, e, a, b) ==
    /\ Len(t) >= 1 /\ b = a + Len(t)
    /\ \A i \in 1..Len(t) : t[i] = e[a + i]
    /\ t # Star => \A i \in 1..Len(t) : t[i] # "*"

\* The tokens ts are the first m symbols of e: at[k] of them are before token k.
Cut(ts, at, e, m) ==
    /\ ts \in Seq(Path)
    /\ at[1] = 0 /\ at[Len(ts) + 1] = m
    /\ \A k \in 1..(Len(ts) + 1) : at[k] \in 0..m
    /\ \A k \in 1..Len(ts) : Token(ts[k], e, at[k], at[k + 1])
    /\ \A k \in 1..(Len(ts) - 1) : ts[k] = Star \/ ts[k + 1] = Star

\* Another token,
LEMMA CutAppend ==
    ASSUME NEW ts, NEW at, NEW e \in Path, NEW m \in Nat, m < Len(e), Cut(ts, at, e, m),
           ts = <<>> \/ ts[Len(ts)] = Star \/ e[m + 1] = "*"
    PROVE  \E to : Cut(Append(ts, <<e[m + 1]>>), to, e, m + 1)
<1> DEFINE N == Len(ts)
           s == e[m + 1]
           t == <<s>>
           new == Append(ts, t)
           to == [k \in 1..(N + 2) |-> IF k = N + 2 THEN m + 1 ELSE at[k]]
<1>1. N \in Nat /\ ts \in Seq(Path) /\ \A k \in 1..N : ts[k] \in Path /\ Len(ts[k]) \in Nat
  BY DEF Cut, Path
<1>2. s \in Symbol /\ t \in Path /\ Len(t) = 1 /\ t[1] = s /\ (t # Star => s # "*")
      /\ (s = "*" => t = Star)
  BY DEF Path, Star
<1>3. /\ new \in Seq(Path) /\ Len(new) = N + 1 /\ new[N + 1] = t
      /\ \A k \in 1..N : new[k] = ts[k]
  <2> HIDE DEF t
  <2> QED
    BY <1>1, <1>2
<1> HIDE DEF t, new, N, s
<1>4. /\ to[N + 2] = m + 1 /\ \A k \in 1..(N + 1) : to[k] = at[k]
  BY <1>1
<1> HIDE DEF to
<1>5. /\ at[1] = 0 /\ at[N + 1] = m /\ \A k \in 1..(N + 1) : at[k] \in 0..m
      /\ \A k \in 1..N : Token(ts[k], e, at[k], at[k + 1])
      /\ \A k \in 1..(N - 1) : ts[k] = Star \/ ts[k + 1] = Star
  BY DEF Cut, N
<1>6. /\ to[1] = 0 /\ to[Len(new) + 1] = m + 1
      /\ \A k \in 1..(Len(new) + 1) : to[k] \in 0..(m + 1)
  <2>1. Len(new) + 1 = N + 2 /\ 1 \in 1..(N + 1)
        /\ \A k \in 1..(Len(new) + 1) : k = N + 2 \/ k \in 1..(N + 1)
    BY <1>1, <1>3
  <2>2. 0..m \subseteq 0..(m + 1) /\ m + 1 \in 0..(m + 1)
    OBVIOUS
  <2> QED
    BY <1>4, <1>5, <2>1, <2>2
<1>7. ASSUME NEW k \in 1..Len(new)
      PROVE  Token(new[k], e, to[k], to[k + 1])
  <2>1. CASE k = N + 1
    <3>1. new[k] = t /\ to[k + 1] = m + 1 /\ to[k] = m
      <4>1. k + 1 = N + 2 /\ k \in 1..(N + 1)
        BY <1>1, <2>1
      <4> QED
        BY <1>3, <1>4, <1>5, <2>1, <4>1
    <3>2. \A i \in 1..1 : t[i] = e[m + i] /\ (t # Star => t[i] # "*")
      BY <1>2 DEF s
    <3>3. Token(t, e, m, m + 1)
      BY <1>2, <3>2 DEF Token
    <3> QED
      BY <3>1, <3>3
  <2>2. CASE k # N + 1
    <3>1. k \in 1..N /\ k \in 1..(N + 1) /\ k + 1 \in 1..(N + 1)
      BY <1>1, <1>3, <2>2
    <3> QED
      BY <1>3, <1>4, <1>5, <3>1
  <2> QED
    BY <2>1, <2>2
<1>8. ASSUME NEW k \in 1..(Len(new) - 1)
      PROVE  new[k] = Star \/ new[k + 1] = Star
  <2>1. k \in 1..N /\ (k = N \/ (k \in 1..(N - 1) /\ k + 1 \in 1..N))
    <3>1. Len(new) - 1 = N
      BY <1>1, <1>3
    <3>2. k \in 1..N
      BY <3>1
    <3>3. N \in Nat
      BY <1>1
    <3>4. \A x \in 1..N : x = N \/ (x \in 1..(N - 1) /\ x + 1 \in 1..N)
      BY <3>3
    <3> QED
      BY <3>2, <3>4
  <2>2. CASE k = N
    <3>1. ts # <<>> /\ new[k + 1] = t /\ new[k] = ts[N]
      BY <1>1, <1>3, <2>1, <2>2 DEF N
    <3> QED
      BY <1>2, <3>1 DEF N, s
  <2>3. CASE k \in 1..(N - 1) /\ k + 1 \in 1..N
    BY <1>3, <1>5, <2>1, <2>3
  <2> QED
    BY <2>1, <2>2, <2>3
<1>9. Cut(new, to, e, m + 1)
  BY <1>3, <1>6, <1>7, <1>8 DEF Cut
<1> QED
  BY <1>9 DEF new, t, s

\* or another symbol of the last one.
LEMMA CutExtend ==
    ASSUME NEW ts, NEW at, NEW e \in Path, NEW m \in Nat, m < Len(e), Cut(ts, at, e, m),
           ts # <<>>, ts[Len(ts)] # Star, e[m + 1] # "*"
    PROVE  \E to : Cut([ts EXCEPT ![Len(ts)] = Append(@, e[m + 1])], to, e, m + 1)
<1> DEFINE N == Len(ts)
           s == e[m + 1]
           l == ts[N]
           t == Append(l, s)
           new == [ts EXCEPT ![N] = t]
           to == [k \in 1..(N + 1) |-> IF k = N + 1 THEN m + 1 ELSE at[k]]
<1>1. N \in Nat \ {0} /\ ts \in Seq(Path)
      /\ \A k \in 1..N : ts[k] \in Path /\ Len(ts[k]) \in Nat
  BY DEF Cut, Path
<1>2. N \in 1..N /\ l \in Path /\ Len(l) \in Nat /\ s \in Symbol
  BY <1>1 DEF Path
<1>3. /\ at[1] = 0 /\ at[N + 1] = m /\ \A k \in 1..(N + 1) : at[k] \in 0..m
      /\ \A k \in 1..N : Token(ts[k], e, at[k], at[k + 1])
      /\ \A k \in 1..(N - 1) : ts[k] = Star \/ ts[k + 1] = Star
  BY DEF Cut, N
<1>4. /\ t \in Path /\ Len(t) = Len(l) + 1 /\ t[Len(l) + 1] = s
      /\ \A i \in 1..Len(l) : t[i] = l[i]
  <2> HIDE DEF l, s
  <2> QED
    BY <1>2 DEF Path
<1>5. t # Star
  <2>1. Len(l) >= 1 /\ Len(Star) = 1
    BY <1>2, <1>3 DEF Star, Token
  <2>2. Len(t) # Len(Star)
    <3> HIDE DEF l, t
    <3> QED
      BY <1>2, <1>4, <2>1
  <2> QED
    BY <2>2
<1> HIDE DEF t
<1>6. /\ new \in Seq(Path) /\ Len(new) = N /\ new[N] = t
      /\ \A k \in 1..N : k # N => new[k] = ts[k]
  BY <1>1, <1>2, <1>4
<1>7. to[N + 1] = m + 1 /\ \A k \in 1..N : to[k] = at[k]
  BY <1>1
<1> HIDE DEF to, new
<1>8. /\ at[N] + Len(l) = m /\ at[N] \in 0..m
      /\ \A i \in 1..Len(l) : l[i] = e[at[N] + i] /\ l[i] # "*"
  <2>1. Token(l, e, at[N], at[N + 1]) /\ at[N] \in 0..m
    <3>1. N \in 1..(N + 1)
      BY <1>1
    <3> QED
      BY <1>2, <1>3, <3>1
  <2> QED
    BY <1>3, <2>1 DEF Token
<1>9. /\ to[1] = 0 /\ to[Len(new) + 1] = m + 1
      /\ \A k \in 1..(Len(new) + 1) : to[k] \in 0..(m + 1)
  <2>1. 1 \in 1..N /\ \A k \in 1..(N + 1) : k = N + 1 \/ k \in 1..N
    BY <1>1
  <2>2. \A k \in 1..N : k \in 1..(N + 1)
    BY <1>1
  <2>3. 0..m \subseteq 0..(m + 1) /\ m + 1 \in 0..(m + 1)
    OBVIOUS
  <2> HIDE DEF N
  <2>4. to[1] = 0 /\ to[Len(new) + 1] = m + 1
    BY <1>3, <1>6, <1>7, <2>1
  <2>5. \A k \in 1..(N + 1) : to[k] \in 0..(m + 1)
    BY <1>3, <1>7, <2>1, <2>2, <2>3
  <2> QED
    BY <1>6, <2>4, <2>5
<1>10. ASSUME NEW k \in 1..Len(new)
       PROVE  Token(new[k], e, to[k], to[k + 1])
  <2>1. CASE k = N
    <3>1. new[k] = t /\ to[k + 1] = m + 1 /\ to[k] = at[N]
      BY <1>2, <1>6, <1>7, <2>1
    <3>2. at[N] + (Len(l) + 1) = m + 1 /\ Len(l) + 1 >= 1
      <4> DEFINE a == at[N]
                 w == Len(l)
      <4>1. a \in 0..m /\ w \in Nat /\ a + w = m
        BY <1>2, <1>8
      <4> HIDE DEF a, w
      <4>2. a + (w + 1) = m + 1 /\ w + 1 >= 1
        BY <4>1
      <4> QED
        BY <4>2 DEF a, w
    <3>3. ASSUME NEW i \in 1..Len(t) PROVE t[i] = e[at[N] + i] /\ t[i] # "*"
      <4>1. CASE i = Len(l) + 1
        <5>1. t[i] = s /\ at[N] + i = m + 1
          BY <1>4, <3>2, <4>1
        <5> QED
          BY <5>1
      <4>2. CASE i # Len(l) + 1
        <5>1. i \in 1..Len(l)
          BY <1>2, <1>4, <4>2
        <5> QED
          BY <1>4, <1>8, <5>1
      <4> QED
        BY <4>1, <4>2
    <3>4. Token(t, e, at[N], m + 1)
      <4> HIDE DEF l
      <4> QED
        BY <1>4, <3>2, <3>3 DEF Token
    <3> QED
      BY <3>1, <3>4
  <2>2. CASE k # N
    <3>1. k \in 1..N /\ k + 1 \in 1..N /\ new[k] = ts[k]
      BY <1>1, <1>6, <2>2
    <3> HIDE DEF N
    <3> QED
      BY <1>3, <1>7, <3>1
  <2> QED
    BY <2>1, <2>2
<1>11. ASSUME NEW k \in 1..(Len(new) - 1)
       PROVE  new[k] = Star \/ new[k + 1] = Star
  <2>1. k \in 1..(N - 1) /\ k \in 1..N /\ k + 1 \in 1..N /\ k # N
    BY <1>1, <1>6
  <2>2. ts[k] = Star \/ ts[k + 1] = Star
    BY <1>3, <2>1
  <2>3. CASE k + 1 = N
    BY <1>6, <2>1, <2>2, <2>3
  <2>4. CASE k + 1 # N
    BY <1>6, <2>1, <2>2, <2>4
  <2> QED
    BY <2>3, <2>4
<1>12. Cut(new, to, e, m + 1)
  BY <1>6, <1>9, <1>10, <1>11 DEF Cut
<1> QED
  BY <1>12 DEF new, t, l, s, N

\* The tokens of an expression are the expression, cut into pieces.
LEMMA TokensCut ==
    ASSUME NEW e \in Path
    PROVE  \E at : Cut(Tokenize(e), at, e, Len(e))
<1> DEFINE N == Len(e)
<1>1. PICK f \in [0..N -> Seq(Path)] :
          /\ Tokenize(e) = f[N]
          /\ f[0] = <<>>
          /\ \A n \in 1..N : f[n] = AddToken(f[n - 1], e[n])
  BY TokenizeRun
<1>2. N \in Nat
  BY DEF Path
<1> DEFINE Bad == {n \in 0..N : ~\E at : Cut(f[n], at, e, n)}
<1>3. Bad \in SUBSET (0..N) /\ 0 \notin Bad
  <2> DEFINE at0 == [k \in 1..1 |-> 0]
             nil == f[0]
  <2>1. /\ nil \in Seq(Path) /\ Len(nil) = 0 /\ at0[1] = 0 /\ at0[0 + 1] = 0
        /\ 1..0 = {} /\ 1..(0 - 1) = {}
        /\ \A k \in 1..(0 + 1) : at0[k] \in 0..0
    BY <1>1, <1>2
  <2> HIDE DEF nil, at0
  <2>2. Cut(nil, at0, e, 0)
    BY <2>1 DEF Cut
  <2> QED
    BY <2>2 DEF nil
<1>4. \A n \in 1..N : n \in Bad => n - 1 \in Bad
  <2> SUFFICES ASSUME NEW n \in 1..N, \E at : Cut(f[n - 1], at, e, n - 1)
               PROVE  \E at : Cut(f[n], at, e, n)
    <3>1. \A n \in 1..N : n - 1 \in 0..N
      BY <1>2
    <3> QED
      BY <3>1
  <2> DEFINE m == n - 1
             ts == f[m]
  <2>1. m \in Nat /\ m < N /\ m + 1 = n /\ m \in 0..N
    BY <1>2
  <2>2. ts \in Seq(Path) /\ f[n] = AddToken(ts, e[n]) /\ \E at : Cut(ts, at, e, m)
    BY <1>1, <2>1
  <2> HIDE DEF m, ts
  <2>3. PICK at : Cut(ts, at, e, m)
    BY <2>2
  <2>4. ts # <<>> => Last(ts) = ts[Len(ts)]
    BY DEF Last
  <2>5. CASE ts = <<>> \/ ts[Len(ts)] = Star \/ e[n] = "*"
    <3>1. f[n] = Append(ts, <<e[n]>>)
      BY <2>2, <2>4, <2>5 DEF AddToken
    <3>2. \E to : Cut(Append(ts, <<e[m + 1]>>), to, e, m + 1)
      BY <2>1, <2>3, <2>5, CutAppend
    <3> QED
      BY <2>1, <3>1, <3>2
  <2>6. CASE ~(ts = <<>> \/ ts[Len(ts)] = Star \/ e[n] = "*")
    <3>1. f[n] = [ts EXCEPT ![Len(ts)] = Append(@, e[n])]
      BY <2>2, <2>4, <2>6 DEF AddToken
    <3>2. \E to : Cut([ts EXCEPT ![Len(ts)] = Append(@, e[m + 1])], to, e, m + 1)
      BY <2>1, <2>3, <2>6, CutExtend
    <3> QED
      BY <2>1, <3>1, <3>2
  <2> QED
    BY <2>5, <2>6
<1>5. Bad = {}
  <2> HIDE DEF Bad
  <2> QED
    BY <1>2, <1>3, <1>4, NoFirst
<1>6. N \in 0..N
  BY <1>2
<1> QED
  BY <1>1, <1>5, <1>6

\* M[k][i]: isMatch goes on from token k at position i and ends with true.
Searches(M, uri, ts) ==
    \A k \in 1..(Len(ts) + 1), i \in 0..Len(uri) :
        M[k][i] <=>
            IF k = Len(ts) + 1 THEN i = Len(uri)
            ELSE IF i = Len(uri) THEN k = Len(ts) /\ ts[k] = Star
            ELSE IF ts[k] # Star
            THEN i \in Occurrences(uri, ts[k], i) /\ M[k + 1][i + Len(ts[k])]
            ELSE IF k = Len(ts) THEN TRUE
            ELSE /\ Find(uri, ts[k + 1], i) # NotFound
                 /\ M[k + 2][Find(uri, ts[k + 1], i) + Len(ts[k + 1])]

\* isMatch, token by token.
LEMMA MatchRun ==
    ASSUME NEW uri \in Path, NEW ts \in Seq(Path)
    PROVE  \E M : (IsMatch(uri, ts) <=> Len(ts) > 0 /\ M[1][0]) /\ Searches(M, uri, ts)
<1> DEFINE n == Len(ts)
           L == Len(uri)
           Turn(p, q, k, i) ==
               IF k = n + 1 THEN i = L
               ELSE IF i = L THEN k = n /\ ts[k] = Star
               ELSE IF ts[k] # Star
               THEN i \in Occurrences(uri, ts[k], i) /\ p[i + Len(ts[k])]
               ELSE IF k = n THEN TRUE
               ELSE LET j == Find(uri, ts[k + 1], i)
                    IN j # NotFound /\ q[j + Len(ts[k + 1])]
           Row(p, q, k) == [i \in 0..L |-> Turn(p, q, k, i)]
           F(f) == [k \in 1..(n + 1) |-> Row(f[k + 1], f[k + 2], k)]
           R == CHOOSE f : f = F(f)
           T == [0..L -> BOOLEAN]
           end == Row(<<>>, <<>>, n + 1)
           g == [w \in (T \X T) \X (0..n) |-> <<Row(w[1][1], w[1][2], w[2]), w[1][1]>>]
<1>1. n \in Nat /\ L \in Nat
  BY DEF Path
<1>2. \A p, q, k, i : Turn(p, q, k, i) \in BOOLEAN
  OBVIOUS
<1>3. \A p, q, i : Turn(p, q, n + 1, i) = Turn(<<>>, <<>>, n + 1, i)
  OBVIOUS
<1>4. \A p, q, r, i : Turn(p, q, n, i) = Turn(p, r, n, i)
  OBVIOUS
<1> HIDE DEF Turn, n, L
<1>5. \A p, q, k : Row(p, q, k) \in T
  BY <1>2
<1>6. \A p, q : Row(p, q, n + 1) = end
  BY <1>3
<1>7. \A p, q, r : Row(p, q, n) = Row(p, r, n)
  BY <1>4
<1>8. end \in T
  BY <1>5
<1> HIDE DEF T, Row, end
<1>9. \E f : f = F(f)
  <2> DEFINE N == n + 1
             P == T \X T
  <2>1. g \in [P \X (0..(N - 1)) -> P]
    <3>1. N - 1 = n
      BY <1>1
    <3>2. \A w \in P \X (0..n) : <<Row(w[1][1], w[1][2], w[2]), w[1][1]>> \in P
      BY <1>5
    <3> QED
      BY <3>1, <3>2
  <2>2. N \in Nat /\ <<end, end>> \in P
    BY <1>1, <1>8
  <2>3. PICK f : IterationDown(f, P, N, <<end, end>>, g)
    <3> HIDE DEF g, P, N
    <3> QED
      BY <2>1, <2>2, IteratesDown
  <2>4. f \in [0..N -> P] /\ f[N] = <<end, end>>
    BY <2>3 DEF IterationDown
  <2>5. ASSUME NEW k \in 0..n
        PROVE  f[k] = <<Row(f[k + 1][1], f[k + 1][2], k), f[k + 1][1]>>
    <3>1. k \in 0..(N - 1) /\ k + 1 \in 0..N
      BY <1>1
    <3>2. f[k + 1] \in P
      BY <2>4, <3>1
    <3>3. g[<<f[k + 1], k>>] = <<Row(f[k + 1][1], f[k + 1][2], k), f[k + 1][1]>>
      BY <3>2
    <3>4. f[k] = g[<<f[k + 1], k>>]
      <4> HIDE DEF g, P
      <4> QED
        BY <2>3, <3>1 DEF IterationDown
    <3> HIDE DEF g
    <3> QED
      BY <3>3, <3>4
  <2> HIDE DEF g, P
  <2> DEFINE h == [k \in 1..N |-> f[k][1]]
  <2>6. ASSUME NEW k \in 1..N PROVE h[k] = Row(h[k + 1], h[k + 2], k)
    <3>1. CASE k = N
      BY <1>6, <2>2, <2>4, <3>1
    <3>2. CASE k = n
      <4>1. k \in 0..n /\ k + 1 = N /\ k + 1 \in 1..N
        BY <1>1, <2>2, <3>2
      <4>2. h[k] = Row(f[k + 1][1], f[k + 1][2], k) /\ h[k + 1] = f[k + 1][1]
        BY <2>5, <4>1
      <4> HIDE DEF h
      <4> QED
        BY <1>7, <3>2, <4>2
    <3>3. CASE k # N /\ k # n
      <4>1. k \in 0..n /\ k + 1 \in 0..n /\ k + 1 \in 1..N /\ k + 2 \in 1..N
            /\ (k + 1) + 1 = k + 2
        BY <1>1, <3>3
      <4>2. h[k] = f[k][1] /\ h[k + 1] = f[k + 1][1] /\ h[k + 2] = f[k + 2][1]
        BY <4>1
      <4>3. f[k] = <<Row(f[k + 1][1], f[k + 1][2], k), f[k + 1][1]>>
        BY <2>5, <4>1
      <4>4. f[k + 1] = <<Row(f[k + 2][1], f[k + 2][2], k + 1), f[k + 2][1]>>
        BY <2>5, <4>1
      <4> HIDE DEF h
      <4> QED
        BY <4>2, <4>3, <4>4
    <3> QED
      BY <3>1, <3>2, <3>3
  <2>7. h = F(h)
    <3>1. \A k \in 1..N : h[k] = Row(h[k + 1], h[k + 2], k)
      BY <2>6
    <3> DEFINE m == h
    <3>2. m = [k \in 1..N |-> m[k]]
      OBVIOUS
    <3> HIDE DEF h
    <3> QED
      BY <3>1, <3>2
  <2> HIDE DEF h, F
  <2> QED
    BY <2>7
<1>10. R = F(R)
  BY <1>9
<1>11. IsMatch(uri, ts) <=> n > 0 /\ R[1][0]
  BY DEF IsMatch, Turn, Row, n, L
<1> HIDE DEF R
<1>12. Searches(R, uri, ts)
  <2>1. ASSUME NEW k \in 1..(n + 1), NEW i \in 0..L
        PROVE  R[k][i] <=> Turn(R[k + 1], R[k + 2], k, i)
    <3>1. R[k] = Row(R[k + 1], R[k + 2], k)
      BY <1>10
    <3>2. R[k][i] = Turn(R[k + 1], R[k + 2], k, i)
      BY <3>1 DEF Row
    <3> QED
      BY <3>2
  <2> QED
    BY <2>1 DEF Searches, Turn, n, L
<1> QED
  BY <1>11, <1>12 DEF n

\* What find gives.
LEMMA FindsFirst ==
    ASSUME NEW uri \in Path, NEW t \in Path, NEW i \in 0..Len(uri)
    PROVE  /\ Find(uri, t, i) # NotFound => Find(uri, t, i) \in Occurrences(uri, t, i)
           /\ Find(uri, t, i) = NotFound => Occurrences(uri, t, i) = {}
           /\ \A j \in Occurrences(uri, t, i) :
                 /\ j \in i..Len(uri) /\ j + Len(t) \in 0..Len(uri)
                 /\ j \in Occurrences(uri, t, 0) /\ j \in 0..Len(uri)
                 /\ \A m \in 1..Len(t) : uri[j + m] = t[m]
<1> DEFINE at == Occurrences(uri, t, i)
           L == Len(uri)
           W == Len(t)
<1>1. L \in Nat /\ W \in Nat /\ i \in Nat
  BY DEF Path
<1>2. ASSUME NEW j \in at
      PROVE  /\ j \in i..L /\ j + W \in 0..L /\ j \in Occurrences(uri, t, 0) /\ j \in 0..L
             /\ \A m \in 1..W : uri[j + m] = t[m]
  <2>1. j \in i..(L - W) /\ SubSeq(uri, j + 1, j + W) = t
    BY DEF Occurrences
  <2>2. j \in i..L /\ j + W \in 0..L /\ j \in 0..L /\ j \in 0..(L - W)
    BY <1>1, <2>1
  <2>3. j \in Occurrences(uri, t, 0)
    BY <2>1, <2>2 DEF Occurrences
  <2>4. ASSUME NEW m \in 1..W PROVE uri[j + m] = t[m]
    <3>1. uri \in Seq(Symbol) /\ j \in Nat
      BY <1>1, <2>2 DEF Path
    <3>2. SubSeq(uri, j + 1, j + W)[m] = uri[j + m]
      BY <1>1, <2>2, <3>1
    <3> QED
      BY <2>1, <3>2
  <2> QED
    BY <2>2, <2>3, <2>4
<1>3. at \subseteq Nat
  BY <1>1, <1>2
<1>4. Find(uri, t, i) = IF at = {} THEN NotFound ELSE Min(at)
  BY DEF Find
<1>5. at # {} => Min(at) \in at /\ Min(at) # NotFound
  <2>1. NotFound \notin Nat
    BY DEF NotFound
  <2> HIDE DEF at
  <2> QED
    BY <1>3, <2>1, MinOf
<1> HIDE DEF at
<1>6. /\ Find(uri, t, i) # NotFound => Find(uri, t, i) \in at
      /\ Find(uri, t, i) = NotFound => at = {}
  BY <1>4, <1>5
<1> QED
  BY <1>2, <1>6 DEF at

\* A literal is where its symbols are.
LEMMA OccursAt ==
    ASSUME NEW uri \in Path, NEW t \in Path, NEW j \in Nat, NEW i \in 0..j,
           j + Len(t) <= Len(uri), \A m \in 1..Len(t) : uri[j + m] = t[m]
    PROVE  j \in Occurrences(uri, t, i)
<1> DEFINE L == Len(uri)
           W == Len(t)
           p == SubSeq(uri, j + 1, j + W)
<1>1. L \in Nat /\ W \in Nat /\ i \in Nat /\ uri \in Seq(Symbol) /\ t \in Seq(Symbol)
  BY DEF Path
<1>2. j \in i..(L - W)
  BY <1>1
<1>3. /\ p \in Seq(Symbol) /\ Len(p) = W
      /\ \A m \in 1..W : p[m] = uri[j + m]
  BY <1>1, <1>2
<1>4. p = t
  <2> HIDE DEF p
  <2>1. Len(p) = Len(t) /\ \A m \in 1..Len(p) : p[m] = t[m]
    BY <1>3
  <2> QED
    BY <1>1, <1>3, <2>1, SeqEqual
<1> QED
  BY <1>2, <1>4 DEF Occurrences

\* Token t of an expression, between its positions s and q, stands for what the
\* uri has at i: a literal for itself, "*" for anything.
TokenAt(G, uri, t, s, q, i) ==
    /\ t # Star => (G[s][i] <=> /\ i + Len(t) <= Len(uri)
                                /\ \A m \in 1..Len(t) : uri[i + m] = t[m]
                                /\ G[q][i + Len(t)])
    /\ t = Star => (G[s][i] <=> \E j \in i..Len(uri) : G[q][j])

\* The tokens that an expression is cut into are such tokens.
LEMMA TokenStands ==
    ASSUME NEW uri \in Path, NEW e \in Path, NEW G, Stands(G, uri, e),
           NEW ts, NEW at, Cut(ts, at, e, Len(e)),
           NEW k \in 1..Len(ts), NEW i \in 0..Len(uri)
    PROVE  /\ ts[k] \in Path /\ Len(ts[k]) \in Nat \ {0}
           /\ TokenAt(G, uri, ts[k], at[k], at[k + 1], i)
<1> DEFINE n == Len(ts)
           t == ts[k]
           s == at[k]
           N == Len(e)
<1>1. ts \in Seq(Path) /\ n \in Nat /\ N \in Nat
  BY DEF Cut, Path
<1>2. t \in Path /\ Len(t) \in Nat /\ Token(t, e, s, at[k + 1])
  <2>1. t \in Path
    BY <1>1
  <2> HIDE DEF t
  <2>2. Len(t) \in Nat
    BY <2>1 DEF Path
  <2> QED
    BY <2>1, <2>2 DEF Cut, t
<1>3. s \in 0..N /\ at[k + 1] \in 0..N
  <2>1. k \in 1..(n + 1) /\ k + 1 \in 1..(n + 1)
    BY <1>1
  <2> QED
    BY <2>1 DEF Cut
<1>4. /\ Len(t) >= 1 /\ at[k + 1] = s + Len(t)
      /\ \A m \in 1..Len(t) : t[m] = e[s + m]
      /\ t # Star => \A m \in 1..Len(t) : t[m] # "*"
  BY <1>2 DEF Token
<1> HIDE DEF t, s
<1>5. s \in Nat /\ s + Len(t) <= N /\ Len(t) \in Nat \ {0}
  BY <1>1, <1>2, <1>3, <1>4
<1>6. ASSUME t # Star
      PROVE  G[s][i] <=> /\ i + Len(t) <= Len(uri)
                         /\ \A m \in 1..Len(t) : uri[i + m] = t[m]
                         /\ G[s + Len(t)][i + Len(t)]
  <2>1. \A m \in 1..Len(t) : t[m] = e[s + m] /\ t[m] # "*"
    BY <1>4, <1>6
  <2> QED
    BY <1>2, <1>5, <2>1, LiteralStands
<1>7. ASSUME t = Star
      PROVE  G[s][i] <=> \E j \in i..Len(uri) : G[at[k + 1]][j]
  <2>1. Len(t) = 1 /\ t[1] = "*"
    BY <1>7 DEF Star
  <2>2. e[s + 1] = "*" /\ at[k + 1] = s + 1 /\ s # N
    BY <1>1, <1>4, <1>5, <2>1
  <2>3. G[s][i] <=> \E j \in i..Len(uri) : G[s + 1][j]
    BY <1>3, <2>2 DEF Stands
  <2> QED
    BY <2>2, <2>3
<1>8. TokenAt(G, uri, t, s, at[k + 1], i)
  BY <1>4, <1>6, <1>7 DEF TokenAt
<1> QED
  BY <1>2, <1>5, <1>8 DEF t, s

\* A path that a name matches is one that the name stands for.
LEMMA MatchesStand ==
    ASSUME NEW uri \in Path, NEW e \in Path, Matches(uri, e)
    PROVE  Glob(uri, e)
<1> DEFINE ts == Tokenize(e)
           n == Len(ts)
           L == Len(uri)
<1>1. PICK G : Glob(uri, e) = G[0][0] /\ Stands(G, uri, e)
  BY GlobRun
<1>2. PICK at : Cut(ts, at, e, Len(e))
  BY TokensCut
<1>3. ts \in Seq(Path) /\ n \in Nat /\ L \in Nat
  BY <1>2 DEF Cut, Path
<1>4. PICK M : (IsMatch(uri, ts) <=> n > 0 /\ M[1][0]) /\ Searches(M, uri, ts)
  BY <1>3, MatchRun
<1>5. at[1] = 0 /\ at[n + 1] = Len(e) /\ Len(e) \in Nat
  BY <1>2 DEF Cut, Path
<1>6. n > 0 /\ M[1][0]
  BY <1>4 DEF Matches
<1> DEFINE Bad == {k \in 0..(n + 1) : k # 0 /\ \E i \in 0..L : M[k][i] /\ ~G[at[k]][i]}
<1> HIDE DEF ts, n, L
<1>7. Bad = {}
  <2> SUFFICES ASSUME Bad # {} PROVE FALSE
    OBVIOUS
  <2>1. Bad \in SUBSET (0..(n + 1)) /\ n + 1 \in Nat
    BY <1>3
  <2>2. PICK k \in Bad : \A x \in Bad : k >= x
    <3> HIDE DEF Bad
    <3> QED
      BY <2>1, Greatest
  <2>3. PICK i \in 0..L : M[k][i] /\ ~G[at[k]][i]
    BY <2>2
  <2>4. k \in 1..(n + 1) /\ k \in Nat
    BY <1>3, <2>2
  <2>5. \A x \in 1..(n + 1) : x > k => \A j \in 0..L : M[x][j] => G[at[x]][j]
    <3> SUFFICES ASSUME NEW x \in 1..(n + 1), x > k, NEW j \in 0..L, M[x][j], ~G[at[x]][j]
                 PROVE  FALSE
      OBVIOUS
    <3>1. x \in Bad
      BY <1>3
    <3>2. k >= x
      BY <2>2, <3>1
    <3> QED
      BY <1>3, <2>4, <3>2
  <2>6. M[k][i] <=>
            IF k = n + 1 THEN i = L
            ELSE IF i = L THEN k = n /\ ts[k] = Star
            ELSE IF ts[k] # Star
            THEN i \in Occurrences(uri, ts[k], i) /\ M[k + 1][i + Len(ts[k])]
            ELSE IF k = n THEN TRUE
            ELSE /\ Find(uri, ts[k + 1], i) # NotFound
                 /\ M[k + 2][Find(uri, ts[k + 1], i) + Len(ts[k + 1])]
    BY <1>4, <2>4 DEF Searches, n, L
  <2>7. \A j \in 0..L : G[Len(e)][j] <=> j = L
    <3>1. Len(e) \in 0..Len(e)
      BY <1>5
    <3> QED
      BY <1>1, <3>1 DEF Stands, L
  <2> HIDE DEF Bad
  <2>8. CASE k = n + 1
    BY <1>5, <2>3, <2>6, <2>7, <2>8
  <2>9. CASE k # n + 1
    <3>1. k \in 1..n /\ k + 1 \in 1..(n + 1) /\ k + 1 > k
      BY <1>3, <2>4, <2>9
    <3> DEFINE t == ts[k]
               W == Len(t)
    <3>2. /\ t \in Path /\ W \in Nat \ {0}
          /\ t # Star => (G[at[k]][i] <=> /\ i + W <= L
                                          /\ \A m \in 1..W : uri[i + m] = t[m]
                                          /\ G[at[k + 1]][i + W])
          /\ t = Star => (G[at[k]][i] <=> \E j \in i..L : G[at[k + 1]][j])
      <4>1. t \in Path /\ W \in Nat \ {0} /\ TokenAt(G, uri, t, at[k], at[k + 1], i)
        BY <1>1, <1>2, <3>1, TokenStands DEF n, L
      <4> HIDE DEF t
      <4> QED
        BY <4>1 DEF TokenAt, L
    <3>3. CASE t # Star
      <4>1. i # L /\ i \in Occurrences(uri, t, i) /\ M[k + 1][i + W]
        BY <2>3, <2>6, <2>9, <3>3
      <4>2. i + W \in 0..L /\ \A m \in 1..W : uri[i + m] = t[m]
        BY <3>2, <4>1, FindsFirst DEF L
      <4>3. G[at[k + 1]][i + W]
        BY <2>5, <3>1, <4>1, <4>2
      <4>4. i + W <= L
        BY <1>3, <4>2
      <4> HIDE DEF t, W
      <4> QED
        BY <2>3, <3>2, <3>3, <4>2, <4>3, <4>4
    <3>4. CASE t = Star /\ k = n
      <4>1. L \in i..L /\ G[at[k + 1]][L]
        BY <1>3, <1>5, <2>7, <3>4
      <4> QED
        BY <2>3, <3>2, <3>4, <4>1
    <3>5. CASE t = Star /\ k # n
      <4> DEFINE x == ts[k + 1]
                 V == Len(x)
                 j == Find(uri, x, i)
      <4>1. i # L /\ j # NotFound /\ M[k + 2][j + V]
        BY <2>3, <2>6, <2>9, <3>5
      <4>2. k + 1 \in 1..n /\ k + 2 \in 1..(n + 1) /\ k + 2 > k /\ (k + 1) + 1 = k + 2
        BY <1>3, <3>1, <3>5
      <4>3. x \in Path /\ V \in Nat \ {0}
        BY <1>1, <1>2, <4>2, TokenStands DEF n, L
      <4>4. /\ j \in i..L /\ j + V \in 0..L /\ j \in 0..L
            /\ \A m \in 1..V : uri[j + m] = x[m]
        BY <4>1, <4>3, FindsFirst DEF L
      <4>5. G[at[k + 2]][j + V]
        BY <2>5, <4>1, <4>2, <4>4
      <4>6. G[at[k + 1]][j]
        <5> HIDE DEF j
        <5>1. /\ x # Star => (G[at[k + 1]][j] <=> /\ j + V <= L
                                                  /\ \A m \in 1..V : uri[j + m] = x[m]
                                                  /\ G[at[k + 2]][j + V])
              /\ x = Star => (G[at[k + 1]][j] <=> \E y \in j..L : G[at[k + 2]][y])
          <6>1. TokenAt(G, uri, x, at[k + 1], at[(k + 1) + 1], j)
            BY <1>1, <1>2, <4>2, <4>4, TokenStands DEF n, L
          <6>2. TokenAt(G, uri, x, at[k + 1], at[k + 2], j)
            BY <4>2, <6>1
          <6> HIDE DEF x
          <6> QED
            BY <6>2 DEF TokenAt, L
        <5>2. j + V <= L /\ j + V \in j..L
          BY <1>3, <4>3, <4>4
        <5> HIDE DEF x, V
        <5> QED
          BY <4>4, <4>5, <5>1, <5>2
      <4> HIDE DEF j
      <4> QED
        BY <2>3, <3>2, <3>5, <4>4, <4>6
    <3> QED
      BY <3>3, <3>4, <3>5
  <2> QED
    BY <2>8, <2>9
<1>8. 1 \in 0..(n + 1) /\ 0 \in 0..L
  BY <1>3
<1>9. G[at[1]][0]
  BY <1>6, <1>7, <1>8
<1> QED
  BY <1>1, <1>5, <1>9

\* Two tokens "*" in a row are two symbols "*" in a row.
LEMMA SingleStars ==
    ASSUME NEW e \in Path, NEW ts, NEW at, Cut(ts, at, e, Len(e)), ~Doubled(e),
           NEW k \in 1..(Len(ts) - 1), ts[k] = Star
    PROVE  ts[k + 1] # Star
<1> SUFFICES ASSUME ts[k + 1] = Star PROVE FALSE
  OBVIOUS
<1>1. Len(ts) \in Nat /\ Len(e) \in Nat
  BY DEF Cut, Path
<1>2. /\ k \in 1..Len(ts) /\ k + 1 \in 1..Len(ts) /\ (k + 1) + 1 \in 1..(Len(ts) + 1)
      /\ k \in 1..(Len(ts) + 1)
  BY <1>1
<1>3. /\ Token(Star, e, at[k], at[k + 1]) /\ Token(Star, e, at[k + 1], at[(k + 1) + 1])
      /\ at[k] \in 0..Len(e) /\ at[(k + 1) + 1] \in 0..Len(e)
  BY <1>2 DEF Cut
<1>4. Len(Star) = 1 /\ Star[1] = "*"
  BY DEF Star
<1>5. /\ at[k + 1] = at[k] + 1 /\ at[(k + 1) + 1] = at[k + 1] + 1
      /\ e[at[k] + 1] = "*" /\ e[at[k + 1] + 1] = "*"
  BY <1>3, <1>4 DEF Token
<1> DEFINE i == at[k] + 1
<1>6. i \in 1..(Len(e) - 1) /\ e[i] = "*" /\ e[i + 1] = "*"
  BY <1>1, <1>3, <1>5
<1> HIDE DEF i
<1> QED
  BY <1>6 DEF Doubled

\* A name matches what it stands for, unless it is ambiguous or has "**".
LEMMA StandsMatches ==
    ASSUME NEW uri \in Path, NEW e \in Path, Glob(uri, e), e # <<>>,
           ~Ambiguous(uri, e), ~Doubled(e)
    PROVE  Matches(uri, e)
<1> DEFINE ts == Tokenize(e)
           n == Len(ts)
           L == Len(uri)
<1>1. PICK G : Glob(uri, e) = G[0][0] /\ Stands(G, uri, e)
  BY GlobRun
<1>2. PICK at : Cut(ts, at, e, Len(e))
  BY TokensCut
<1>3. ts \in Seq(Path) /\ n \in Nat /\ L \in Nat
  BY <1>2 DEF Cut, Path
<1>4. PICK M : (IsMatch(uri, ts) <=> n > 0 /\ M[1][0]) /\ Searches(M, uri, ts)
  BY <1>3, MatchRun
<1>5. at[1] = 0 /\ at[n + 1] = Len(e) /\ Len(e) \in Nat /\ Len(e) # 0
  BY <1>2 DEF Cut, Path
<1>6. n > 0
  BY <1>3, <1>5
<1>7. \A k \in 1..n : ts[k] # Star =>
          \A i, j \in Occurrences(uri, ts[k], 0) : i = j
  <2>1. \A k \in 1..n : ts[k] \in Range(ts)
    BY <1>3 DEF Range
  <2> QED
    BY <2>1 DEF Ambiguous
<1> DEFINE Bad == {k \in 0..(n + 1) : k # 0 /\ \E i \in 0..L : G[at[k]][i] /\ ~M[k][i]}
<1> HIDE DEF ts, n, L
<1>8. Bad = {}
  <2> SUFFICES ASSUME Bad # {} PROVE FALSE
    OBVIOUS
  <2>1. Bad \in SUBSET (0..(n + 1)) /\ n + 1 \in Nat
    BY <1>3
  <2>2. PICK k \in Bad : \A x \in Bad : k >= x
    <3> HIDE DEF Bad
    <3> QED
      BY <2>1, Greatest
  <2>3. PICK i \in 0..L : G[at[k]][i] /\ ~M[k][i]
    BY <2>2
  <2>4. k \in 1..(n + 1) /\ k \in Nat
    BY <1>3, <2>2
  <2>5. \A x \in 1..(n + 1) : x > k => \A j \in 0..L : G[at[x]][j] => M[x][j]
    <3> SUFFICES ASSUME NEW x \in 1..(n + 1), x > k, NEW j \in 0..L, G[at[x]][j], ~M[x][j]
                 PROVE  FALSE
      OBVIOUS
    <3>1. x \in Bad
      BY <1>3
    <3>2. k >= x
      BY <2>2, <3>1
    <3> QED
      BY <1>3, <2>4, <3>2
  <2>6. M[k][i] <=>
            IF k = n + 1 THEN i = L
            ELSE IF i = L THEN k = n /\ ts[k] = Star
            ELSE IF ts[k] # Star
            THEN i \in Occurrences(uri, ts[k], i) /\ M[k + 1][i + Len(ts[k])]
            ELSE IF k = n THEN TRUE
            ELSE /\ Find(uri, ts[k + 1], i) # NotFound
                 /\ M[k + 2][Find(uri, ts[k + 1], i) + Len(ts[k + 1])]
    BY <1>4, <2>4 DEF Searches, n, L
  <2>7. \A j \in 0..L : G[Len(e)][j] <=> j = L
    <3>1. Len(e) \in 0..Len(e)
      BY <1>5
    <3> QED
      BY <1>1, <3>1 DEF Stands, L
  <2> HIDE DEF Bad
  <2>8. CASE k = n + 1
    BY <1>5, <2>3, <2>6, <2>7, <2>8
  <2>9. CASE k # n + 1
    <3>1. k \in 1..n /\ k + 1 \in 1..(n + 1) /\ k + 1 > k
      BY <1>3, <2>4, <2>9
    <3> DEFINE t == ts[k]
               W == Len(t)
    <3>2. /\ t \in Path /\ W \in Nat \ {0}
          /\ t # Star => (G[at[k]][i] <=> /\ i + W <= L
                                          /\ \A m \in 1..W : uri[i + m] = t[m]
                                          /\ G[at[k + 1]][i + W])
          /\ t = Star => (G[at[k]][i] <=> \E j \in i..L : G[at[k + 1]][j])
      <4>1. t \in Path /\ W \in Nat \ {0} /\ TokenAt(G, uri, t, at[k], at[k + 1], i)
        BY <1>1, <1>2, <3>1, TokenStands DEF n, L
      <4> HIDE DEF t
      <4> QED
        BY <4>1 DEF TokenAt, L
    <3>3. CASE t # Star
      <4>1. i + W <= L /\ (\A m \in 1..W : uri[i + m] = t[m]) /\ G[at[k + 1]][i + W]
        BY <2>3, <3>2, <3>3
      <4>2. i \in Nat /\ i \in 0..i /\ i # L /\ i + W \in 0..L
        BY <1>3, <3>2, <4>1
      <4>3. i \in Occurrences(uri, t, i)
        BY <3>2, <4>1, <4>2, OccursAt DEF L
      <4>4. M[k + 1][i + W]
        BY <2>5, <3>1, <4>1, <4>2
      <4> QED
        BY <2>3, <2>6, <2>9, <3>3, <4>2, <4>3, <4>4
    <3>4. CASE t = Star /\ k = n
      BY <2>3, <2>6, <2>9, <3>4
    <3>5. CASE t = Star /\ k # n
      <4> DEFINE x == ts[k + 1]
                 V == Len(x)
      <4>1. k + 1 \in 1..n /\ k + 2 \in 1..(n + 1) /\ k + 2 > k /\ (k + 1) + 1 = k + 2
            /\ k \in 1..(n - 1)
        BY <1>3, <3>1, <3>5
      <4>2. x \in Path /\ V \in Nat \ {0} /\ x # Star
        <5>1. x \in Path /\ V \in Nat \ {0}
          BY <1>1, <1>2, <4>1, TokenStands DEF n, L
        <5>2. x # Star
          BY <1>2, <3>5, <4>1, SingleStars DEF n
        <5> QED
          BY <5>1, <5>2
      <4>3. PICK j \in i..L : G[at[k + 1]][j]
        BY <2>3, <3>2, <3>5
      <4>4. j \in 0..L /\ j \in Nat /\ i \in 0..j /\ 0 \in 0..j
        BY <1>3
      <4>5. /\ j + V <= L /\ (\A m \in 1..V : uri[j + m] = x[m])
            /\ G[at[k + 2]][j + V]
        <5>1. TokenAt(G, uri, x, at[k + 1], at[(k + 1) + 1], j)
          BY <1>1, <1>2, <4>1, <4>4, TokenStands DEF n, L
        <5>2. TokenAt(G, uri, x, at[k + 1], at[k + 2], j)
          BY <4>1, <5>1
        <5> HIDE DEF x
        <5> QED
          BY <4>2, <4>3, <5>2 DEF TokenAt, L
      <4>6. i # L /\ j + V \in 0..L
        BY <1>3, <4>2, <4>4, <4>5
      <4>7. j \in Occurrences(uri, x, i) /\ j \in Occurrences(uri, x, 0)
        BY <4>2, <4>4, <4>5, OccursAt DEF L
      <4> DEFINE f == Find(uri, x, i)
      <4>8. f # NotFound /\ f \in Occurrences(uri, x, 0)
        <5>1. f = NotFound => Occurrences(uri, x, i) = {}
          BY <4>2, FindsFirst DEF L
        <5>2. f # NotFound
          BY <4>7, <5>1
        <5>3. f \in Occurrences(uri, x, i)
          BY <4>2, <5>2, FindsFirst DEF L
        <5>4. \A y \in Occurrences(uri, x, i) : y \in Occurrences(uri, x, 0)
          BY <4>2, FindsFirst DEF L
        <5> QED
          BY <5>2, <5>3, <5>4
      <4>9. f = j
        BY <1>7, <4>1, <4>2, <4>7, <4>8
      <4>10. M[k + 2][j + V]
        BY <2>5, <4>1, <4>5, <4>6
      <4> QED
        BY <2>3, <2>6, <2>9, <3>5, <4>6, <4>8, <4>9, <4>10
    <3> QED
      BY <3>3, <3>4, <3>5
  <2> QED
    BY <2>8, <2>9
<1>9. 1 \in 0..(n + 1) /\ 0 \in 0..L /\ G[at[1]][0]
  <2>1. G[0][0]
    BY <1>1
  <2> QED
    BY <1>3, <1>5, <2>1
<1>10. M[1][0]
  BY <1>8, <1>9
<1> QED
  BY <1>4, <1>6, <1>10 DEF Matches, ts

\* A location or a CGI block applies to a path only if its name stands for it,
\* with "*" standing for anything, and to every such path unless its name has
\* "**" or a literal piece that the path has twice: for all names and paths.
THEOREM MatchIsGlobAlways == Spec => []MatchIsGlob
<1>1. RoutingInv => MatchIsGlob
  <2> SUFFICES ASSUME RoutingInv,
                      NEW e \in Range(Names(host.locations)) \union Range(Names(host.cgis))
               PROVE  /\ Matches(request.path, e) => Glob(request.path, e)
                      /\ Glob(request.path, e) =>
                            \/ Matches(request.path, e)
                            \/ Ambiguous(request.path, e)
                            \/ Doubled(e) \/ e = <<>>
    BY DEF MatchIsGlob
  <2>1. request.path \in Path /\ host \in Hosts
    BY DEF RoutingInv, RequestType
  <2>2. host.locations \in Seq(LocationType) /\ host.cgis \in Seq(CgiType)
    BY <2>1, HostsAssumption
  <2>3. /\ \A r \in LocationType : r.name \in Path
        /\ \A r \in CgiType : r.name \in Path
    BY StringsArePaths DEF LocationType, CgiType
  <2>4. Names(host.locations) \in Seq(Path) /\ Names(host.cgis) \in Seq(Path)
    <3>1. Names(host.locations) \in Seq(Path)
      BY <2>2, <2>3 DEF Names
    <3>2. Names(host.cgis) \in Seq(Path)
      BY <2>2, <2>3 DEF Names
    <3> QED
      BY <3>1, <3>2
  <2>5. e \in Path
    BY <2>4 DEF Range
  <2> QED
    BY <2>1, <2>5, MatchesStand, StandsMatches
<1> QED
  BY <1>1, RoutingInvariant, PTL

-----------------------------------------------------------------------------
(***************************************************************************)
(* A file behind a folder.  parseURI reads the uri with the default uri    *)
(* behind it from the start: each of its passes works on the front, which  *)
(* it has accepted before, or leaves the end of the file alone.            *)
(***************************************************************************)
\* A path stands for a folder if nothing is behind its last slash.
LEMMA LastPiece ==
    ASSUME NEW p \in Path
    PROVE  Last(Segments(p)) = <<>> <=> IsDir(p)
<1>1. CASE p = <<>>
  BY <1>1, SegmentsNothing DEF Last, IsDir
<1>2. CASE p # <<>>
  <2> DEFINE N == Len(p)
             q == SubSeq(p, 1, N - 1)
             s == p[N]
  <2>1. N \in Nat /\ N \in 1..N /\ p \in Seq(Symbol) /\ Last(p) = s
    BY <1>2 DEF Path, Last
  <2>2. q \in Seq(Symbol) /\ s \in Symbol /\ SubSeq(p, 1, N) = Append(q, s)
    BY <2>1, Beginnings
  <2>3. SubSeq(p, 1, N) = p
    BY <2>1
  <2>4. p = Append(q, s) /\ q \in Path
    BY <2>2, <2>3 DEF Path
  <2> HIDE DEF q, s, N
  <2>5. Segments(p) = AddSymbol(Segments(q), s) /\ Segments(q) \in NonEmpty
    BY <2>2, <2>4, SegmentsAppend, SegmentsType
  <2> DEFINE v == Front(Segments(q))
             x == Last(Segments(q))
  <2>6. Segments(q) = Append(v, x) /\ v \in Pieces /\ x \in Word
    BY <2>5, AppendFront
  <2> HIDE DEF v, x
  <2>7. CASE s = "/"
    <3>1. Segments(p) = Append(Append(v, x), <<>>)
      BY <2>2, <2>5, <2>6, <2>7, AddSymbolAppend
    <3>2. Append(v, x) \in Pieces /\ <<>> \in Word
      BY <2>6 DEF Pieces, Word
    <3>3. Last(Segments(p)) = <<>>
      BY <3>1, <3>2, FrontAppend
    <3> QED
      BY <2>1, <2>7, <3>3 DEF IsDir
  <2>8. CASE s # "/"
    <3>1. Segments(p) = Append(v, Append(x, s))
      BY <2>2, <2>5, <2>6, <2>8, AddSymbolAppend
    <3>2. Append(x, s) \in Word /\ Append(x, s) # <<>>
      BY <2>2, <2>6, <2>8 DEF Word
    <3>3. Last(Segments(p)) # <<>>
      BY <2>6, <3>1, <3>2, FrontAppend
    <3> QED
      BY <1>2, <2>1, <2>8, <3>3 DEF IsDir
  <2> QED
    BY <2>7, <2>8
<1> QED
  BY <1>1, <1>2

\* The passes of checkPath keep the last piece.
LEMMA LastKept ==
    ASSUME NEW ss \in NonEmpty
    PROVE  /\ Last(DropDot(ss)) = Last(ss)
           /\ Last(Compact(ss)) = Last(ss)
<1> DEFINE N == Len(ss)
<1>1. N \in Nat \ {0} /\ ss \in Seq(Word) /\ N \in 1..N /\ ss[N] \in Word
  BY DEF NonEmpty, Pieces
<1>2. Last(ss) = ss[N]
  BY DEF Last
<1>3. Last(DropDot(ss)) = Last(ss)
  <2>1. CASE N > 1
    <3>1. Len(Tail(ss)) = N - 1 /\ Tail(ss)[N - 1] = ss[N]
      BY <1>1, <2>1
    <3>2. Last(Tail(ss)) = ss[N]
      BY <3>1 DEF Last
    <3> QED
      BY <1>2, <3>2 DEF DropDot
  <2>2. CASE ~(N > 1)
    BY <2>2 DEF DropDot
  <2> QED
    BY <2>1, <2>2
<1>4. PICK f \in [0..N -> Pieces] :
          /\ Compact(ss) = f[N]
          /\ f[0] = <<>>
          /\ \A n \in 1..N : f[n] =
               IF n \in 2..(N - 1) /\ ss[n] \in {<<>>, <<".">>}
               THEN f[n - 1] ELSE Append(f[n - 1], ss[n])
  BY CompactRun
<1>5. Compact(ss) = Append(f[N - 1], ss[N]) /\ f[N - 1] \in Pieces
  <2>1. N \notin 2..(N - 1) /\ N - 1 \in 0..N
    BY <1>1
  <2> QED
    BY <1>1, <1>4, <2>1
<1>6. Last(Compact(ss)) = ss[N]
  BY <1>1, <1>5, FrontAppend
<1> QED
  BY <1>2, <1>3, <1>6

\* A path that is accepted stands for a folder after checkPath if it did before.
LEMMA DirKept ==
    ASSUME NEW p \in Path, CheckPath(p).ok
    PROVE  IsDir(CheckPath(p).path) <=> IsDir(p)
<1> DEFINE a == Segments(p)
           b == DropDot(a)
           ss == Compact(b)
           v == Climb(ss).v
           xs == Append(v, Last(ss))
<1>1. a \in NonEmpty
  BY SegmentsType
<1>2. b \in NonEmpty /\ Last(b) = Last(a)
  <2> HIDE DEF a
  <2> QED
    BY <1>1, WalkDropDot, LastKept
<1>3. /\ ss \in NonEmpty /\ Last(ss) = Last(a) /\ Dense(Front(ss))
  <2> HIDE DEF b
  <2> QED
    BY <1>2, WalkCompact, LastKept
<1>4. Climb(ss).ok /\ CheckPath(p).path = Join(xs)
  BY DEF CheckPath
<1>5. v \in Pieces
  <2> HIDE DEF ss
  <2> QED
    BY <1>3, <1>4, WalkClimb
<1>6. Last(ss) \in Word
  <2> HIDE DEF ss
  <2> QED
    BY <1>3, AppendFront
<1>7. xs \in NonEmpty /\ Last(xs) = Last(ss)
  <2> DEFINE l == Last(ss)
  <2> HIDE DEF l, v
  <2>1. v \in Seq(Word) /\ l \in Word
    BY <1>5, <1>6 DEF l, Pieces
  <2>2. Append(v, l) \in Seq(Word) /\ Append(v, l) # <<>>
    BY <2>1, AppendProperties
  <2>3. Last(Append(v, l)) = l
    BY <1>5, <2>1, FrontAppend
  <2> QED
    BY <2>2, <2>3 DEF NonEmpty, Pieces, l
<1>8. Segments(Join(xs)) = xs
  <2> HIDE DEF xs
  <2> QED
    BY <1>7, SegmentsJoin
<1>9. CheckPath(p).path \in Path
  BY CheckPathType
<1> HIDE DEF xs, ss, b
<1>10. Last(Segments(CheckPath(p).path)) = Last(Segments(p))
  BY <1>3, <1>4, <1>7, <1>8 DEF a
<1> HIDE DEF a
<1> QED
  BY <1>9, <1>10, LastPiece

\* A file: behind a folder, parseURI makes a file of it.
File(w) ==
    /\ w \in Path /\ w # <<>> /\ Last(w) # "/" /\ "?" \notin Range(w)

\* A file behind a path is no folder, if checkPath accepts it.
LEMMA FileAccepted ==
    ASSUME NEW p \in Path, NEW d, File(d), CheckPath(p \o d).ok
    PROVE  ~IsDir(CheckPath(p \o d).path)
<1>1. p \o d \in Path /\ ~IsDir(p \o d)
  <2>1. p \in Seq(Symbol) /\ d \in Seq(Symbol) /\ d # <<>> /\ d[Len(d)] # "/"
    BY DEF File, Path, Last
  <2>2. /\ p \o d \in Seq(Symbol) /\ p \o d # <<>>
        /\ (p \o d)[Len(p \o d)] = d[Len(d)]
    BY <2>1
  <2> QED
    BY <2>1, <2>2 DEF Path, IsDir, Last
<1> QED
  BY <1>1, DirKept

\* The end of a file's path is one.
LEMMA FileEnd ==
    ASSUME NEW w, File(w), NEW i \in 0..(Len(w) - 1)
    PROVE  File(SubSeq(w, i + 1, Len(w)))
<1> DEFINE e == SubSeq(w, i + 1, Len(w))
           N == Len(w)
<1>1. w \in Seq(Symbol) /\ N \in Nat \ {0} /\ w[N] # "/"
  BY DEF File, Path, Last
<1>2. /\ e \in Seq(Symbol) /\ Len(e) = N - i
      /\ \A j \in 1..(N - i) : e[j] = w[i + j]
  BY <1>1
<1>3. e # <<>> /\ e[Len(e)] = w[N] /\ \A j \in 1..Len(e) : i + j \in 1..N
  <2>1. N - i \in 1..(N - i) /\ i + (N - i) = N
    BY <1>1
  <2>2. \A j \in 1..(N - i) : i + j \in 1..N
    BY <1>1
  <2> HIDE DEF e
  <2> QED
    BY <1>2, <2>1, <2>2
<1> HIDE DEF e
<1>4. Range(e) \subseteq Range(w)
  <2>1. DOMAIN e = 1..Len(e) /\ DOMAIN w = 1..N
    BY <1>1, <1>2
  <2> QED
    BY <1>2, <1>3, <2>1 DEF Range
<1>5. File(e)
  BY <1>1, <1>2, <1>3, <1>4 DEF File, Path, Last
<1> QED
  BY <1>5 DEF e

\* What pruneDelim leaves of a file.
LEMMA FilePruned ==
    ASSUME NEW w, File(w), NEW s
    PROVE  File(PruneDelim(w, s))
<1> DEFINE i == First(w, s)
<1>1. w \in Path /\ i \in 0..Len(w) /\ Len(w) \in Nat \ {0}
  BY FirstAt DEF File, Path
<1>2. PruneDelim(w, s) = IF i # 0 /\ i # Len(w) THEN SubSeq(w, i + 1, Len(w)) ELSE w
  BY DEF PruneDelim
<1> HIDE DEF i
<1>3. CASE i # 0 /\ i # Len(w)
  <2>1. i \in 0..(Len(w) - 1)
    BY <1>1, <1>3
  <2> QED
    BY <1>2, <1>3, <2>1, FileEnd
<1>4. CASE ~(i # 0 /\ i # Len(w))
  BY <1>2, <1>4
<1> QED
  BY <1>3, <1>4

\* No member of a set is less than the least.
LEMMA MinLeast ==
    ASSUME NEW S, S \subseteq Nat, S # {}
    PROVE  Min(S) \in S /\ \A j \in S : Min(S) <= j
BY Least DEF Min

\* Two sequences, one behind the other.
LEMMA Behind ==
    ASSUME NEW T, NEW u \in Seq(T), NEW d \in Seq(T)
    PROVE  LET w == u \o d
           IN /\ w \in Seq(T) /\ Len(w) = Len(u) + Len(d)
              /\ \A m \in 1..Len(u) : w[m] = u[m]
              /\ \A m \in 1..Len(d) : w[Len(u) + m] = d[m]
OBVIOUS

\* The first of a symbol.
LEMMA FirstIs ==
    ASSUME NEW u \in Path, NEW s
    PROVE  /\ First(u, s) = 0 <=> s \notin Range(u)
           /\ First(u, s) # 0 =>
                 /\ u[First(u, s)] = s
                 /\ \A j \in 1..Len(u) : u[j] = s => First(u, s) <= j
<1> DEFINE S == {i \in DOMAIN u : u[i] = s}
<1>1. Len(u) \in Nat /\ DOMAIN u = 1..Len(u) /\ S \subseteq Nat
  BY DEF Path
<1>2. s \in Range(u) <=> S # {}
  BY DEF Range
<1>3. S # {} => Min(S) \in S /\ \A j \in S : Min(S) <= j
  <2> HIDE DEF S
  <2> QED
    BY <1>1, MinLeast
<1>4. First(u, s) = IF s \in Range(u) THEN Min(S) ELSE 0
  BY DEF First
<1>5. \A j \in S : j # 0 /\ u[j] = s
  BY <1>1
<1>6. \A j \in 1..Len(u) : u[j] = s => j \in S
  BY <1>1
<1> HIDE DEF S
<1> QED
  BY <1>2, <1>3, <1>4, <1>5, <1>6

\* pruneDelim on a path with a file behind it: it prunes the path, or leaves a
\* file.
LEMMA PruneAppend ==
    ASSUME NEW u \in Path, NEW d, File(d), NEW s
    PROVE  \/ PruneDelim(u \o d, s) = PruneDelim(u, s) \o d
           \/ File(PruneDelim(u \o d, s))
<1> DEFINE w == u \o d
           U == Len(u)
           D == Len(d)
           N == Len(w)
           i == First(u, s)
           k == First(w, s)
<1>1. /\ u \in Seq(Symbol) /\ d \in Seq(Symbol) /\ w \in Seq(Symbol)
      /\ U \in Nat /\ D \in Nat \ {0} /\ N = U + D
      /\ \A j \in 1..U : w[j] = u[j]
      /\ \A j \in 1..D : w[U + j] = d[j]
  BY DEF File, Path
<1>2. w \in Path /\ i \in 0..U /\ k \in 0..N
  BY <1>1, FirstAt DEF Path
<1>3. PruneDelim(w, s) = IF k # 0 /\ k # N THEN SubSeq(w, k + 1, N) ELSE w
  BY DEF PruneDelim
<1>4. PruneDelim(u, s) = IF i # 0 /\ i # U THEN SubSeq(u, i + 1, U) ELSE u
  BY DEF PruneDelim
<1>5. /\ k # 0 => w[k] = s /\ \A j \in 1..N : w[j] = s => k <= j
      /\ k = 0 => \A j \in 1..N : w[j] # s
  <2>1. k = 0 <=> s \notin Range(w)
    BY <1>2, FirstIs
  <2>2. \A j \in 1..N : w[j] \in Range(w)
    <3>1. DOMAIN w = 1..N
      BY <1>1
    <3> HIDE DEF w
    <3> QED
      BY <3>1 DEF Range
  <2>3. k # 0 => w[k] = s /\ \A j \in 1..N : w[j] = s => k <= j
    BY <1>2, FirstIs
  <2> HIDE DEF w
  <2> QED
    BY <2>1, <2>2, <2>3
<1>6. /\ i # 0 => u[i] = s /\ \A j \in 1..U : u[j] = s => i <= j
      /\ i = 0 => \A j \in 1..U : u[j] # s
  <2>1. i = 0 <=> s \notin Range(u)
    BY FirstIs
  <2>2. \A j \in 1..U : u[j] \in Range(u)
    BY <1>1 DEF Range
  <2>3. i # 0 => u[i] = s /\ \A j \in 1..U : u[j] = s => i <= j
    BY FirstIs
  <2> QED
    BY <2>1, <2>2, <2>3
<1>7. ASSUME NEW j \in 0..(D - 1)
      PROVE  SubSeq(w, (U + j) + 1, N) = SubSeq(d, j + 1, D)
  BY <1>1
<1>8. ASSUME NEW j \in 0..U
      PROVE  SubSeq(w, j + 1, N) = SubSeq(u, j + 1, U) \o d
  <2> DEFINE a == SubSeq(w, j + 1, N)
             e == SubSeq(u, j + 1, U)
             b == e \o d
  <2>1. /\ a \in Seq(Symbol) /\ Len(a) = N - j
        /\ \A m \in 1..(N - j) : a[m] = w[j + m]
    <3>1. w \in Seq(Symbol) /\ j \in 0..Len(w)
      BY <1>1
    <3> HIDE DEF w
    <3> QED
      BY <3>1, EndOf
  <2>2. /\ e \in Seq(Symbol) /\ Len(e) = U - j
        /\ \A m \in 1..(U - j) : e[m] = u[j + m]
    BY <1>1
  <2> HIDE DEF e
  <2>3. /\ b \in Seq(Symbol) /\ Len(b) = (U - j) + D
        /\ \A m \in 1..(U - j) : b[m] = e[m]
        /\ \A m \in 1..D : b[(U - j) + m] = d[m]
    <3>1. e \in Seq(Symbol) /\ d \in Seq(Symbol)
      BY <1>1, <2>2
    <3>2. /\ b \in Seq(Symbol) /\ Len(b) = Len(e) + D
          /\ \A m \in 1..Len(e) : b[m] = e[m]
          /\ \A m \in 1..D : b[Len(e) + m] = d[m]
      BY <3>1, Behind
    <3> HIDE DEF b, D, U
    <3> QED
      BY <2>2, <3>2
  <2> HIDE DEF a, b, w, U, D, N
  <2>4. ASSUME NEW m \in 1..(N - j) PROVE a[m] = b[m]
    <3>1. CASE m \in 1..(U - j)
      <4>1. j + m \in 1..U
        BY <1>1, <3>1
      <4> QED
        BY <1>1, <2>1, <2>2, <2>3, <3>1, <4>1
    <3>2. CASE m \notin 1..(U - j)
      <4> DEFINE q == m - (U - j)
      <4>1. q \in 1..D /\ (U - j) + q = m /\ U + q = j + m
        BY <1>1, <3>2
      <4> HIDE DEF q
      <4>2. b[m] = d[q] /\ w[j + m] = d[q]
        <5>1. b[(U - j) + q] = d[q] /\ w[U + q] = d[q]
          BY <1>1, <2>3, <4>1
        <5> QED
          BY <4>1, <5>1
      <4> QED
        BY <2>1, <4>2
    <3> QED
      BY <3>1, <3>2
  <2>5. Len(a) = Len(b) /\ \A m \in 1..Len(a) : a[m] = b[m]
    BY <1>1, <2>1, <2>3, <2>4
  <2>6. a = b
    BY <2>1, <2>3, <2>5, SeqEqual
  <2> QED
    BY <2>6 DEF a, b, e
<1> HIDE DEF w, U, D, N, i, k
<1>9. CASE i # 0 /\ i # U
  <2>1. k = i
    <3>1. i \in 1..U /\ i \in 1..N /\ w[i] = s
      BY <1>1, <1>2, <1>6, <1>9
    <3>2. k # 0 /\ k <= i /\ w[k] = s
      BY <1>5, <3>1
    <3>3. k \in 1..U
      BY <1>1, <1>2, <3>1, <3>2
    <3>4. i <= k
      BY <1>1, <1>6, <1>9, <3>2, <3>3
    <3> QED
      BY <1>1, <1>2, <3>2, <3>4
  <2>2. k # N
    BY <1>1, <1>2, <2>1
  <2> QED
    BY <1>2, <1>3, <1>4, <1>8, <1>9, <2>1, <2>2 DEF w
<1>10. CASE ~(i # 0 /\ i # U)
  <2>1. CASE k = 0 \/ k = N
    BY <1>3, <1>4, <1>10, <2>1 DEF w
  <2>2. CASE k # 0 /\ k # N
    <3>1. k \in 1..N /\ w[k] = s
      BY <1>1, <1>2, <1>5, <2>2
    <3>2. k >= U
      <4> SUFFICES ASSUME k < U PROVE FALSE
        BY <1>1, <1>2
      <4>1. k \in 1..U /\ u[k] = s
        BY <1>1, <3>1
      <4>2. i # 0 /\ i <= k
        BY <1>6, <4>1
      <4> QED
        BY <1>1, <1>2, <1>10, <4>1, <4>2
    <3> DEFINE j == k - U
    <3>3. j \in 0..(D - 1) /\ U + j = k
      BY <1>1, <1>2, <2>2, <3>2
    <3> HIDE DEF j
    <3>4. PruneDelim(w, s) = SubSeq(d, j + 1, D)
      BY <1>3, <1>7, <2>2, <3>3
    <3>5. File(SubSeq(d, j + 1, D))
      BY <3>3, FileEnd DEF D
    <3> QED
      BY <3>4, <3>5 DEF w
  <2> QED
    BY <2>1, <2>2
<1> QED
  BY <1>9, <1>10

\* pruneScheme looks at the front only, and finds no scheme in a file.
LEMMA SchemeAppend ==
    ASSUME NEW u \in Path, NEW d \in Path, d # <<>>, Range(d) \intersect Schemes = {}
    PROVE  /\ PruneScheme(u \o d) = PruneScheme(u) \o d
           /\ BadScheme(u \o d) => BadScheme(u)
<1> DEFINE w == u \o d
<1>1. /\ u \in Seq(Symbol) /\ d \in Seq(Symbol) /\ Len(d) \in Nat \ {0}
      /\ Len(u) \in Nat /\ DOMAIN d = 1..Len(d) /\ DOMAIN u = 1..Len(u)
  BY DEF Path
<1>2. /\ w \in Seq(Symbol) /\ Len(w) = Len(u) + Len(d)
      /\ \A m \in 1..Len(u) : w[m] = u[m]
      /\ \A m \in 1..Len(d) : w[Len(u) + m] = d[m]
  BY <1>1, Behind
<1>3. \A m \in 1..Len(d) : d[m] \notin Schemes
  BY <1>1 DEF Range
<1>4. "http://" \in Schemes
  BY DEF Schemes
<1>5. PruneScheme(w) = PruneScheme(u) \o d
  <2>1. CASE u = <<>>
    <3>1. w = d /\ d[1] # "http://" /\ <<>> \o d = d
      BY <1>1, <1>3, <1>4, <2>1
    <3> QED
      BY <2>1, <3>1 DEF PruneScheme
  <2>2. CASE u # <<>>
    <3>1. w # <<>> /\ w[1] = u[1] /\ Tail(w) = Tail(u) \o d
      BY <1>1, <2>2
    <3> QED
      BY <2>2, <3>1 DEF PruneScheme
  <2> QED
    BY <2>1, <2>2
<1> HIDE DEF w
<1>6. ASSUME BadScheme(w) PROVE BadScheme(u)
  <2>1. DOMAIN w = 1..Len(w)
    BY <1>2
  <2>2. PICK i \in 1..Len(w) :
           /\ w[i] \in Schemes
           /\ \A j \in 1..(i - 1) : w[j] \notin Schemes
           /\ ~(i = 1 /\ w[1] = "http://")
    BY <1>6, <2>1 DEF BadScheme
  <2>3. i \in 1..Len(u)
    <3> SUFFICES ASSUME i \notin 1..Len(u) PROVE FALSE
      OBVIOUS
    <3> DEFINE m == i - Len(u)
    <3>1. m \in 1..Len(d) /\ Len(u) + m = i
      BY <1>1, <1>2
    <3> HIDE DEF m
    <3>2. w[i] = d[m]
      BY <1>2, <3>1
    <3> QED
      BY <1>3, <2>2, <3>1, <3>2
  <2>5. \A j \in 1..(i - 1) : j \in 1..Len(u)
    BY <1>1, <2>3
  <2>4. /\ u[i] \in Schemes /\ ~(i = 1 /\ u[1] = "http://")
        /\ \A j \in 1..(i - 1) : u[j] \notin Schemes
    BY <1>2, <2>2, <2>3, <2>5
  <2> QED
    BY <1>1, <2>3, <2>4 DEF BadScheme
<1> QED
  BY <1>5, <1>6 DEF w

\* A default uri that names a file makes a file of the uri of a folder, or
\* climbs out of the root with it.
LEMMA FileAppended ==
    ASSUME NEW u \in Path, "?" \notin Range(u), ~BadScheme(u),
           NEW d \in Path, NamesFile(d)
    PROVE  /\ ~BadScheme(u \o d)
           /\ \/ ClimbsOut(u \o d)
              \/ ~IsDir(CheckPath(UriPath(u \o d)).path)
<1> DEFINE u1 == PruneScheme(u)
           u2 == PruneDelim(u1, "@")
           u3 == PruneDelim(u2, "/")
           w1 == PruneScheme(u \o d)
           w2 == PruneDelim(w1, "@")
           w3 == PruneDelim(w2, "/")
<1>1. File(d) /\ Range(d) \intersect Schemes = {} /\ d # <<>>
  BY DEF NamesFile, File
<1>2. w1 = u1 \o d /\ ~BadScheme(u \o d)
  BY <1>1, SchemeAppend
<1>3. u1 \in Path /\ "?" \notin Range(u1)
  BY Pruned
<1> HIDE DEF u1, w1
<1>4. u2 \in Path /\ "?" \notin Range(u2)
  BY <1>3, Pruned
<1>5. w2 = u2 \o d \/ File(w2)
  BY <1>1, <1>2, <1>3, PruneAppend
<1> HIDE DEF u2, w2
<1>6. u3 \in Path /\ "?" \notin Range(u3)
  BY <1>4, Pruned
<1>7. w3 = u3 \o d \/ File(w3)
  BY <1>1, <1>4, <1>5, PruneAppend, FilePruned
<1> HIDE DEF u3, w3
<1>9. UriPath(u \o d) = ExtractPath(w3)
  BY DEF UriPath, w1, w2, w3
<1>10. CASE w3 = u3 \o d
  <2>1. "?" \notin Range(u3 \o d) /\ u3 \o d \in Path
    <3>1. /\ u3 \in Seq(Symbol) /\ d \in Seq(Symbol)
          /\ "?" \notin Range(u3) /\ "?" \notin Range(d)
      BY <1>1, <1>6 DEF Path, File
    <3>2. Range(u3 \o d) = Range(u3) \union Range(d)
      BY <3>1, RangeConcatenation
    <3> QED
      BY <3>1, <3>2 DEF Path
  <2>2. UriPath(u \o d) = u3 \o d
    BY <1>9, <1>10, <2>1, Pruned
  <2> QED
    BY <1>1, <1>2, <1>6, <2>2, FileAccepted DEF ClimbsOut
<1>11. CASE File(w3)
  <2>1. w3 \in Path /\ "?" \notin Range(w3) /\ <<>> \o w3 = w3
    BY <1>11 DEF File, Path
  <2>2. UriPath(u \o d) = w3
    BY <1>9, <2>1, Pruned
  <2>3. <<>> \in Path
    BY DEF Path
  <2> QED
    BY <1>2, <1>11, <2>1, <2>2, <2>3, FileAccepted DEF ClimbsOut
<1> QED
  BY <1>7, <1>10, <1>11

-----------------------------------------------------------------------------
(***************************************************************************)
(* Folders and their default uri.                                          *)
(***************************************************************************)
\* The property, said of a request.
NotListed(q, h) ==
    q.folder # 0 /\ NamesFile(h.locations[q.folder].defaultUri)
    => q.type # "dir" \/ "?" \in Range(q.uri) \/ ClimbsOut(q.uri)

\* What is known of a request at step p: up to checkDirRessource, that parseURI
\* has accepted the scheme of its uri; from there on, what it leaves.
FolderState(q, h, p) ==
    /\ p \in {"match", "redir", "dir"} => ~BadScheme(q.uri)
    /\ p \in {"location", "cgi", "resource", "done"} => NotListed(q, h)

FolderInv == (pc = "done" /\ res # 0) \/ FolderState(request, host, pc)

\* Each step keeps the invariant: it goes on with what is known at the next one.
LEMMA GoFolder ==
    ASSUME NEW r, NEW next, Go(r, next), r.res = 0 => FolderState(r.q, host, next)
    PROVE  FolderInv'
<1>1. /\ request' = r.q /\ res' = r.res /\ host' = host
      /\ pc' = IF r.res = 0 THEN next ELSE "done"
  BY DEF Go
<1>2. CASE r.res = 0
  <2>1. FolderState(request', host', pc')
    BY <1>1, <1>2
  <2> QED
    BY <2>1 DEF FolderInv
<1>3. CASE r.res # 0
  BY <1>1, <1>3 DEF FolderInv
<1> QED
  BY <1>2, <1>3

\* matchRequest calls a folder what parseURI has read as one.
LEMMA MatchDir ==
    ASSUME NEW q \in RequestType, NEW h \in Hosts
    PROVE  LET m == MatchRequest(q, h)
           IN /\ m.q.uri = q.uri /\ m.q.folder = q.folder
              /\ m.q.type = "dir" => q.dir
<1> DEFINE l == MatchRules(h.locations, q.path)
           k == MatchRules(h.cgis, q.path)
           e == [q EXCEPT !.loc = l, !.cgi = k]
           t == IF e.dir THEN "dir" ELSE "static"
           n == [e EXCEPT !.status = 404, !.type = "none"]
           s == [e EXCEPT !.type = "cgi"]
           u == [e EXCEPT !.type = t]
           m == MatchRequest(q, h)
<1>1. l \in Nat /\ k \in Nat
  BY LocationFound DEF RequestType
<1>2. m = IF e.loc = 0 /\ e.cgi = 0 THEN [q |-> n, res |-> 404]
          ELSE IF e.cgi # 0 /\ ScriptEnd(e, h) > Len(e.path)
          THEN [q |-> s, res |-> Thrown]
          ELSE IF e.cgi # 0 THEN [q |-> ExtractPathInfo(s, h), res |-> 0]
          ELSE [q |-> u, res |-> 0]
  BY DEF MatchRequest
<1> HIDE DEF l, k
<1>3. e \in RequestType /\ e.uri = q.uri /\ e.folder = q.folder /\ e.dir = q.dir
  BY <1>1 DEF RequestType
<1> HIDE DEF e
<1>4. n.uri = q.uri /\ n.folder = q.folder /\ n.type = "none"
  BY <1>3 DEF RequestType
<1>5. u.uri = q.uri /\ u.folder = q.folder /\ u.type = t /\ u.dir = q.dir
  BY <1>3 DEF RequestType
<1>6. s \in RequestType /\ s.uri = q.uri /\ s.folder = q.folder /\ s.type = "cgi"
  BY <1>3 DEF RequestType, Types
<1> HIDE DEF n, u, s
<1> DEFINE x == ExtractPathInfo(s, h)
<1>7. x.uri = q.uri /\ x.folder = q.folder /\ x.type = "cgi"
  <2> DEFINE end == ScriptEnd(s, h)
             a == SubSeq(s.path, 1, end)
             i == SubSeq(s.path, end + 1, Len(s.path))
             d == [s EXCEPT !.path = a, !.dir = FALSE, !.pathInfo = i]
             y == MatchRules(h.locations, d.path)
  <2>1. x = IF "/" \in Range(d.pathInfo) THEN [d EXCEPT !.loc = y] ELSE d
    BY DEF ExtractPathInfo, RequestType
  <2> HIDE DEF a, i, end
  <2>2. /\ d.uri = q.uri /\ d.folder = q.folder /\ d.type = "cgi"
        /\ DOMAIN d = DOMAIN s
        /\ {"uri", "folder", "type", "loc"} \subseteq DOMAIN s
    BY <1>6 DEF RequestType
  <2> HIDE DEF d, y
  <2>3. /\ [d EXCEPT !.loc = y].uri = q.uri /\ [d EXCEPT !.loc = y].folder = q.folder
        /\ [d EXCEPT !.loc = y].type = "cgi"
    BY <2>2
  <2> QED
    BY <2>1, <2>2, <2>3
<1> HIDE DEF x, m
<1>8. m.q \in {n, s, x, u}
  BY <1>2 DEF x
<1>9. t = "dir" <=> q.dir
  BY <1>3 DEF RequestType
<1> HIDE DEF t
<1>10. /\ m.q.uri = q.uri /\ m.q.folder = q.folder
       /\ m.q.type = "dir" => q.dir
  BY <1>4, <1>5, <1>6, <1>7, <1>8, <1>9
<1> QED
  BY <1>10 DEF m

\* parseURI reads the uri,
LEMMA ParseFolder == RoutingInv /\ Parse => FolderInv'
<1> SUFFICES ASSUME RoutingInv, Parse PROVE FolderInv'
  OBVIOUS
<1> DEFINE r == ParseURI(request)
<1>1. Go(r, "match") /\ request \in RequestType
  BY DEF Parse, RoutingInv
<1>2. r.res = 0 => ~BadScheme(request.uri) /\ r.q.uri = request.uri
  BY <1>1, ParseURICases
<1> HIDE DEF r
<1>3. r.res = 0 => FolderState(r.q, host, "match")
  BY <1>2 DEF FolderState
<1> QED
  BY <1>1, <1>3, GoFolder

\* matchRequest calls it a folder or not,
LEMMA MatchFolder == RoutingInv /\ FolderInv /\ Match => FolderInv'
<1> SUFFICES ASSUME RoutingInv, FolderInv, Match PROVE FolderInv'
  OBVIOUS
<1> DEFINE r == MatchRequest(request, host)
<1>1. /\ Go(r, "redir") /\ request \in RequestType /\ host \in Hosts
      /\ ~BadScheme(request.uri)
  BY DEF Match, RoutingInv, FolderInv, FolderState
<1>2. r.q.uri = request.uri
  BY <1>1, MatchDir
<1> HIDE DEF r
<1>3. FolderState(r.q, host, "redir")
  BY <1>1, <1>2 DEF FolderState
<1> QED
  BY <1>1, <1>3, GoFolder

\* A check that passes changes nothing.
LEMMA RefuseFolder ==
    ASSUME NEW st, NEW next, Go(Refuse(st), next), FolderState(request, host, next)
    PROVE  FolderInv'
<1> DEFINE r == Refuse(st)
<1>1. r.res = 0 => r.q = request
  BY DEF Refuse
<1> HIDE DEF r
<1>2. r.res = 0 => FolderState(r.q, host, next)
  BY <1>1
<1>3. Go(r, next)
  BY DEF r
<1> QED
  BY <1>2, <1>3, GoFolder

\* the checks refuse or leave it as it is,
LEMMA ChecksFolder ==
    FolderInv /\ (Redirect \/ LocationCheck \/ CgiCheck) => FolderInv'
<1>1. ASSUME FolderInv, Redirect PROVE FolderInv'
  <2>1. /\ pc = "redir"
        /\ Go(Refuse(IF request.loc # 0 THEN Location(request, host).redir ELSE 0), "dir")
    BY <1>1 DEF Redirect
  <2>2. FolderState(request, host, "dir")
    BY <1>1, <2>1 DEF FolderInv, FolderState
  <2> QED
    BY <2>1, <2>2, RefuseFolder
<1>2. ASSUME FolderInv, LocationCheck PROVE FolderInv'
  <2>1. /\ pc = "location"
        /\ Go(Refuse(IF request.loc # 0 THEN LocationRules(request, host) ELSE 0), "cgi")
    BY <1>2 DEF LocationCheck
  <2>2. FolderState(request, host, "cgi")
    BY <1>2, <2>1 DEF FolderInv, FolderState
  <2> QED
    BY <2>1, <2>2, RefuseFolder
<1>3. ASSUME FolderInv, CgiCheck PROVE FolderInv'
  <2>1. /\ pc = "cgi"
        /\ Go(Refuse(IF request.type = "cgi" THEN CgiRules(request, host) ELSE 0), "resource")
    BY <1>3 DEF CgiCheck
  <2>2. FolderState(request, host, "resource")
    BY <1>3, <2>1 DEF FolderInv, FolderState
  <2> QED
    BY <2>1, <2>2, RefuseFolder
<1> QED
  BY <1>1, <1>2, <1>3

\* checkDirRessource appends the default uri,
LEMMA DirFolder == RoutingInv /\ FolderInv /\ Dir => FolderInv'
<1> SUFFICES ASSUME RoutingInv, FolderInv, Dir PROVE FolderInv'
  OBVIOUS
<1>1. /\ request \in RequestType /\ host \in Hosts /\ Located(request, host)
      /\ pc = "dir"
  BY DEF RoutingInv, Dir, Checked, Passed
<1>2. CASE request.type # "dir"
  <2>1. Go(Refuse(0), "location") /\ FolderState(request, host, "location")
    BY <1>2 DEF Dir, FolderState, NotListed
  <2> QED
    BY <2>1, RefuseFolder
<1>3. CASE request.type = "dir"
  <2> DEFINE q == [request EXCEPT !.folder = request.loc]
             d == Location(request, host).defaultUri
             a == AppendDefault(q, host)
             b == ParseURI(a)
             m == MatchRequest(b.q, host)
             f == [q EXCEPT !.status = 403]
             r == CheckDir(q, host)
  <2>1. Go(r, "location") /\ ~BadScheme(request.uri)
    BY <1>1, <1>3 DEF Dir, FolderInv, FolderState
  <2>2. /\ q \in RequestType /\ q.uri = request.uri /\ q.folder = request.loc
        /\ q.loc = request.loc
    BY <1>1 DEF RequestType
  <2>3. /\ d \in Path
        /\ d = host.locations[request.loc].defaultUri
    <3>1. /\ request.loc \in DOMAIN host.locations
          /\ Location(request, host) \in LocationType
      BY <1>1, RulesType DEF Located
    <3>2. d \in Path
      BY <3>1, StringsArePaths DEF LocationType
    <3> QED
      BY <3>2 DEF Location
  <2>4. Location(q, host).defaultUri = d
    BY <2>2 DEF Location
  <2>5. f.folder = request.loc
    <3> HIDE DEF q
    <3> QED
      BY <2>2 DEF RequestType
  <2>6. IF d # <<>> THEN r = m ELSE r.q \in {f, q}
    BY <2>4 DEF CheckDir
  <2>7. a \in RequestType /\ a.uri = request.uri \o d /\ a.folder = request.loc
    <3>1. a = [q EXCEPT !.uri = @ \o d]
      BY <2>4 DEF AppendDefault
    <3> HIDE DEF q, d, a
    <3>2. q.uri \o d \in Path
      BY <2>2, <2>3 DEF RequestType, Path
    <3> QED
      BY <2>2, <3>1, <3>2 DEF RequestType
  <2> HIDE DEF a, q, d, f, r
  <2>8. CASE ~NamesFile(d)
    <3>1. b.q \in RequestType /\ b.q.folder = a.folder
      <4>1. b.q \in RequestType
        BY <2>7, ParseURIType
      <4>2. b.q.folder = a.folder
        BY <2>7, ParseURICases
      <4> QED
        BY <4>1, <4>2
    <3> HIDE DEF b
    <3>2. m.q.folder = request.loc
      BY <1>1, <2>7, <3>1, MatchDir
    <3>3. r.q.folder = request.loc
      BY <2>2, <2>5, <2>6, <3>2
    <3>4. FolderState(r.q, host, "location")
      BY <2>3, <2>8, <3>3 DEF FolderState, NotListed
    <3> QED
      BY <2>1, <3>4, GoFolder
  <2>9. CASE NamesFile(d)
    <3>1. r = m
      BY <2>6, <2>9 DEF NamesFile
    <3> DEFINE c == CheckPath(UriPath(a.uri))
    <3>3. b.q \in RequestType /\ b.q.uri = a.uri
      BY <2>7, ParseURIType, ParseURICases
    <3>4. CASE "?" \in Range(request.uri)
      <4>1. "?" \in Range(a.uri)
        <5>1. request.uri \in Seq(Symbol) /\ d \in Seq(Symbol)
          BY <1>1, <2>3 DEF RequestType, Path
        <5>2. Range(request.uri \o d) = Range(request.uri) \union Range(d)
          BY <5>1, RangeConcatenation
        <5> QED
          BY <2>7, <3>4, <5>2
      <4> HIDE DEF b
      <4>2. m.q.uri = a.uri
        BY <1>1, <3>3, MatchDir
      <4>3. FolderState(r.q, host, "location")
        BY <3>1, <4>1, <4>2 DEF FolderState, NotListed
      <4> QED
        BY <2>1, <4>3, GoFolder
    <3>5. CASE "?" \notin Range(request.uri)
      <4>1. ~BadScheme(a.uri) /\ (ClimbsOut(a.uri) \/ ~IsDir(c.path))
        <5>1. request.uri \in Path
          BY <1>1 DEF RequestType
        <5> QED
          BY <2>1, <2>3, <2>7, <2>9, <3>5, <5>1, FileAppended
      <4>2. ClimbsOut(a.uri) <=> ~c.ok
        BY DEF ClimbsOut
      <4>3. c.ok => b.q.dir = IsDir(c.path)
        BY <2>7, <4>1, ParseURICases
      <4> HIDE DEF b, c
      <4>4. m.q.type = "dir" => b.q.dir
        BY <1>1, <3>3, MatchDir
      <4>5. m.q.uri = a.uri
        BY <1>1, <3>3, MatchDir
      <4> HIDE DEF m
      <4>6. m.q.type # "dir" \/ ClimbsOut(m.q.uri)
        BY <4>1, <4>2, <4>3, <4>4, <4>5
      <4>7. FolderState(r.q, host, "location")
        BY <3>1, <4>6 DEF FolderState, NotListed
      <4> QED
        BY <2>1, <4>7, GoFolder
    <3> QED
      BY <3>4, <3>5
  <2> QED
    BY <2>8, <2>9
<1> QED
  BY <1>2, <1>3

\* and the last check looks only at the disk.
LEMMA ResourceFolder == RoutingInv /\ FolderInv /\ Resource => FolderInv'
<1> SUFFICES ASSUME RoutingInv, FolderInv, Resource PROVE FolderInv'
  OBVIOUS
<1>1. PICK f \in Found :
        Go([q |-> [request EXCEPT !.status = RessourceExistence(request, f)],
            res |-> RessourceExistence(request, f)], "done")
  BY DEF Resource
<1> DEFINE q == [request EXCEPT !.status = RessourceExistence(request, f)]
<1>2. NotListed(request, host)
  BY DEF Resource, FolderInv, FolderState
<1>3. q.folder = request.folder /\ q.type = request.type /\ q.uri = request.uri
  BY DEF RoutingInv, RequestType
<1> HIDE DEF q
<1>4. NotListed(q, host)
  BY <1>2, <1>3 DEF NotListed
<1>5. FolderState(q, host, "done")
  BY <1>4 DEF FolderState
<1> DEFINE r == [q |-> q, res |-> RessourceExistence(request, f)]
<1>6. Go(r, "done") /\ r.q = q
  BY <1>1 DEF q
<1> HIDE DEF r
<1> QED
  BY <1>5, <1>6, GoFolder

\* A folder whose default uri names a file is answered with that file and never
\* listed, unless its uri has a query or climbs out of the root with the default
\* uri: for every host, every default uri, every URI and any number of local
\* redirections.
THEOREM FolderGetsDefaultAlways == Spec => []FolderGetsDefault
<1>1. Init => FolderInv
  BY DEF Init, FolderInv, FolderState
<1>2. RoutingInv /\ FolderInv /\ [Next]_vars => FolderInv'
  <2> SUFFICES ASSUME RoutingInv, FolderInv, [Next]_vars PROVE FolderInv'
    OBVIOUS
  <2>1. CASE LocalRedirect
    BY <2>1 DEF LocalRedirect, FolderInv, FolderState
  <2>2. CASE UNCHANGED vars
    BY <2>2 DEF vars, FolderInv, FolderState, NotListed
  <2> QED
    BY <2>1, <2>2, ParseFolder, MatchFolder, ChecksFolder, DirFolder, ResourceFolder
       DEF Next
<1>3. FolderInv => FolderGetsDefault
  BY DEF FolderInv, FolderState, NotListed, FolderGetsDefault, Accepted
<1> QED
  BY <1>1, <1>2, <1>3, RoutingInvariant, PTL DEF Spec
=============================================================================
