----------------------------- MODULE MCRouting ------------------------------
(* Hosts and URIs to check Routing with. *)
EXTENDS Routing

Loc(name) ==
    [name |-> name, methods |-> {"GET", "HEAD"}, dirListing |-> FALSE,
     defaultUri |-> <<>>, upload |-> FALSE, redir |-> 0]

Everything == Loc(Star)
Index == [Everything EXCEPT !.defaultUri = <<"a", ".py">>, !.dirListing = TRUE]
Uploadable == [Loc(<<"b", "/", "*">>) EXCEPT !.methods = Methods, !.upload = TRUE]
Listed == [Loc(<<"a", "/", "*">>) EXCEPT !.dirListing = TRUE]
ReadOnly == [Loc(<<"*", ".py">>) EXCEPT !.methods = {"GET"}]
Strict == [Loc(<<"a", ".py">>) EXCEPT !.methods = {"POST"}]
Moved == [Loc(<<"a", "/", "b", "*">>) EXCEPT !.redir = 301]
Deep == [Loc(<<"*", "/", "b", "/", "*">>) EXCEPT !.methods = {"PUT"},
                                                  !.defaultUri = <<"b">>]
Twice == Loc(<<"*", "b", "*", "b">>)
Doubly == Loc(<<"b", "*", "*">>)
Above == [Index EXCEPT !.defaultUri = <<"..", "/", "a">>]

Script == [name |-> <<"*", ".py", "*">>, methods |-> {"GET", "POST"},
           extension |-> ".py", short |-> 2]
ScriptOfA == [Script EXCEPT !.name = <<"a", "/", "*", ".py", "*">>,
                            !.methods = {"GET"}]
\* Its name says nothing of its identifier.
ScriptOfB == [Script EXCEPT !.name = <<"b", "*">>, !.methods = {"PUT"}]

MCHosts ==
    [locations : {<<Everything, Uploadable, Listed, Moved>>,
                  <<Index, ReadOnly, Deep, Strict>>,
                  <<Deep, Twice, Listed, Index>>,
                  <<Strict, Uploadable, Doubly, Everything>>,
                  <<Listed, Above, Strict>>},
     cgis : {<<>>, <<Script>>, <<ScriptOfA, Script>>, <<Script, ScriptOfA>>,
             <<Script, ScriptOfB>>}]

Paths == UNION {[1..n -> {"/", "a", "b", ".py", "..", "."}] : n \in 0..4}

\* Two names never touch; "." and ".." are pieces of their own; an extension
\* follows a name.
WellFormed(p) ==
    \A i \in 1..(Len(p) - 1) :
        \/ p[i] = "/" /\ p[i + 1] # ".py"
        \/ p[i + 1] = "/"
        \/ p[i] \in {"a", "b"} /\ p[i + 1] = ".py"
        \/ p[i] = ".py" /\ p[i + 1] = "b"

Plain == {<<"/">> \o p : p \in {p \in Paths : WellFormed(p)}}

MCUris ==
    Plain \union
    {<<"/", "?", "a">>, <<"/", "b", "/", "?", "a">>,
     <<"http://", "b", "/", "a">>, <<"ftp://", "b", "/", "a">>,
     <<"/", "a", "/", "http://", "b">>, <<"b", "@", "a", "/", "b">>,
     <<"http://", "b", "/", "ftp://", "a">>,
     <<"/", "%2e%2e", "/", "a">>, <<"/", "b", "/", "%2e", "/", "b">>,
     <<"/", "b", "%2f", "a">>, <<"/", "a", "/", "..", "/", "%2e%2e", "/">>,
     <<"/", "%61", ".py">>, <<"/", "b", "/", "..", "/", "%61", "/", "b">>,
     <<"/", "b", "/", "a", ".py", "/", "b">>,
     <<"/", "a", "/", "b", "/", "b", ".py">>}

MCTargets == {<<"/", "a", ".py">>, <<"/", "b", "/", "a">>, <<"/", "a", "/">>}
=============================================================================
