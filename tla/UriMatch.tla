------------------------------ MODULE UriMatch ------------------------------
(***************************************************************************)
(* How a URI path is matched with the names of locations and CGI blocks:   *)
(* tokenize, isMatch and isUriMatch of format.cpp and the search           *)
(* Host::getObjectMatch.  A path is a sequence of symbols ("/", a name, an *)
(* extension), a name of the configuration such a sequence with "*" in it. *)
(* Positions count from 0, as in the code.                                 *)
(***************************************************************************)
EXTENDS Integers, Sequences, SequencesExt

Star == <<"*">>

\* The expression cut into "*" and the literal pieces between.
AddToken(ts, s) ==
    IF s = "*" \/ ts = <<>> \/ Last(ts) = Star
    THEN Append(ts, <<s>>)
    ELSE [ts EXCEPT ![Len(ts)] = Append(@, s)]
Tokenize(expression) ==
    LET T[n \in 0..Len(expression)] ==
            IF n = 0 THEN <<>> ELSE AddToken(T[n - 1], expression[n])
    IN T[Len(expression)]

\* Where token occurs in uri from position i on.
Occurrences(uri, token, i) ==
    {j \in i..(Len(uri) - Len(token)) :
        SubSeq(uri, j + 1, j + Len(token)) = token}

NotFound == -1

\* std::string::find and std::string::rfind.
Find(uri, token, i) ==
    LET at == Occurrences(uri, token, i)
    IN IF at = {} THEN NotFound ELSE Min(at)
RFind(uri, token) ==
    LET at == Occurrences(uri, token, 0)
    IN IF at = {} THEN NotFound ELSE Max(at)

\* Mutant: what is left of the uri after the last token is ignored.
MutIsMatch(uri, tokens) ==
    LET n == Len(tokens)
        M[k \in 1..(n + 1)] == [i \in 0..Len(uri) |->
            IF k = n + 1 THEN TRUE
            ELSE IF i = Len(uri) THEN k = n /\ tokens[k] = Star
            ELSE IF tokens[k] # Star
            THEN i \in Occurrences(uri, tokens[k], i)
                 /\ M[k + 1][i + Len(tokens[k])]
            ELSE IF k = n THEN TRUE
            ELSE LET j == Find(uri, tokens[k + 1], i)
                 IN j # NotFound /\ M[k + 2][j + Len(tokens[k + 1])]]
    IN n > 0 /\ M[1][0]

(***************************************************************************)
(* isMatch: a literal token must be where the last one ended, the token    *)
(* after a "*" is taken at its first occurrence from there.  At the end of *)
(* the uri one last "*" may be left over.                                  *)
(***************************************************************************)
IsMatch(uri, tokens) ==
    LET n == Len(tokens)
        M[k \in 1..(n + 1)] == [i \in 0..Len(uri) |->
            IF k = n + 1 THEN i = Len(uri)
            ELSE IF i = Len(uri) THEN k = n /\ tokens[k] = Star
            ELSE IF tokens[k] # Star
            THEN i \in Occurrences(uri, tokens[k], i)
                 /\ M[k + 1][i + Len(tokens[k])]
            ELSE IF k = n THEN TRUE
            ELSE LET j == Find(uri, tokens[k + 1], i)
                 IN j # NotFound /\ M[k + 2][j + Len(tokens[k + 1])]]
    IN n > 0 /\ M[1][0]

(***************************************************************************)
(* The second half of isUriMatch: is the match with the tokens of a better *)
(* than the one with those of b?  They are compared from the end, on the   *)
(* first l symbols of the uri: a literal beats "*", then the literal that  *)
(* ends later, then the longer one.                                        *)
(***************************************************************************)
BetterFrom(uri, a, b) ==
    LET F[i \in 0..Len(a)] ==
            [j \in 0..Len(b) |-> [l \in 0..Len(uri) |->
                LET u == SubSeq(uri, 1, l)
                    posA == RFind(u, a[i])
                    posB == RFind(u, b[j])
                    diff == (posA + Len(a[i])) - (posB + Len(b[j]))
                IN IF i = 0 THEN FALSE
                   ELSE IF j = 0 THEN TRUE
                   ELSE IF a[i] = Star /\ b[j] = Star THEN F[i - 1][j - 1][l]
                   ELSE IF a[i] = Star \/ b[j] = Star THEN b[j] = Star
                   ELSE IF diff # 0 THEN diff > 0
                   ELSE IF Len(a[i]) # Len(b[j]) THEN Len(a[i]) > Len(b[j])
                   ELSE F[i - 1][j - 1][IF posA = NotFound THEN l ELSE posA]]]
    IN F[Len(a)][Len(b)][Len(uri)]

Matches(uri, expression) == IsMatch(uri, Tokenize(expression))

\* isUriMatch against a previous match, which must be one.
IsUriMatch(uri, expression, previous) ==
    /\ Matches(uri, expression)
    /\ BetterFrom(uri, Tokenize(expression), Tokenize(previous))

\* Mutant: the last match wins.
MutGetObjectMatch(names, uri) ==
    FoldLeft(LAMBDA best, e : IF Matches(uri, e) THEN e ELSE best,
             <<>>, names)

\* Host::getObjectMatch over the names in the order of the map; <<>> is NULL.
GetObjectMatch(names, uri) ==
    LET B[n \in 0..Len(names)] ==
            IF n = 0 THEN <<>>
            ELSE LET best == B[n - 1]
                 IN IF IF best = <<>> THEN Matches(uri, names[n])
                       ELSE IsUriMatch(uri, names[n], best)
                    THEN names[n] ELSE best
    IN B[Len(names)]

-----------------------------------------------------------------------------
(***************************************************************************)
(* Reference: what a wildcard means.                                       *)
(***************************************************************************)
Glob(uri, e) ==
    LET G[k \in 0..Len(e)] == [i \in 0..Len(uri) |->
            IF k = Len(e) THEN i = Len(uri)
            ELSE IF e[k + 1] = "*" THEN \E j \in i..Len(uri) : G[k + 1][j]
            ELSE i < Len(uri) /\ uri[i + 1] = e[k + 1] /\ G[k + 1][i + 1]]
    IN G[0][0]

\* A literal piece of the expression occurs in the uri twice: the first
\* occurrence that isMatch takes may not be the one that leads to a match.
Ambiguous(uri, e) ==
    \E t \in Range(Tokenize(e)) :
        t # Star /\ \E i, j \in Occurrences(uri, t, 0) : i # j

\* Two "*" in a row: isMatch looks for the second one in the uri.
Doubled(e) == \E i \in 1..(Len(e) - 1) : e[i] = "*" /\ e[i + 1] = "*"
=============================================================================
