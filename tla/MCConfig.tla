------------------------------ MODULE MCConfig ------------------------------
(* A configuration of two hosts, and its edits, to check Config with. *)
EXTENDS Config

Preamble == <<"default_error_pages", "err", ";">>

Header1 ==
    <<"server", "{", "\n", "listen", "80", "81", ";", "#", "note", "\n",
      "server_name", "s1", "s2", ";">>
Default1 == <<"location", "*", "{", "root", "r", ";", "methods", ";", "}", ";">>
Moved1 ==
    <<"location", "m", "{", "root", "r", ";", "return", "301", "x", ";",
      "dir_listing", "on", ";", "}", ";">>
Script1 == <<"cgi", "py", "{", "root", "c", ";", "identifier", "py", ";", "}", ";">>

Header2 ==
    <<"server", "{", "\n", "host", "localhost", ";", "listen", "80", ";", "server_name", "s3",
      ";", "body_max_size", "80", ";">>
Default2 == <<"location", "*", "{", "root", "s", ";", "}", ";">>

Footer == <<"}", ";">>

Host1 == Header1 \o Default1 \o Moved1 \o Script1 \o Footer
Host2 == Header2 \o Default2 \o Footer

MCBase == Preamble \o Host1 \o Host2

\* The braces of a block with some tokens before it and others up to its ";".
Span(before, toks) ==
    [open |-> Len(before) + SelectInSeq(toks, LAMBDA t : t = "{"),
     close |-> Len(before) + Len(toks) - 1]

SpanOf(before, toks, names) ==
    [open |-> Span(before, toks).open, close |-> Span(before, toks).close,
     names |-> names]

Star == "*"

MCExpected ==
    <<[open |-> Span(Preamble, Host1).open, close |-> Span(Preamble, Host1).close,
       host |-> [NewHost EXCEPT
                    !.ports = {"80", "81"}, !.errors = <<"err">>, !.names = <<"s1", "s2">>,
                    !.locations = [n \in {Star, "m"} |->
                        IF n = Star THEN [NewLocation EXCEPT !.root = <<"r">>, !.methods = {}]
                        ELSE [NewLocation EXCEPT !.root = <<"r">>, !.redir = 301,
                                  !.addr_redir = <<"x">>, !.dir_listing = TRUE]],
                    !.cgis = [n \in {"py"} |->
                        [NewCGIConfig EXCEPT !.root = <<"c">>, !.extension = <<"py">>]]],
       blocks |->
          {SpanOf(Preamble \o Header1, Default1, {Star}),
           SpanOf(Preamble \o Header1 \o Default1, Moved1, {"m"}),
           SpanOf(Preamble \o Header1 \o Default1 \o Moved1, Script1, {"py"})}],
      [open |-> Span(Preamble \o Host1, Host2).open,
       close |-> Span(Preamble \o Host1, Host2).close,
       host |-> [NewHost EXCEPT
                    !.ports = {"80"}, !.errors = <<"err">>, !.names = <<"s3">>,
                    !.size = 80,
                    !.locations = [n \in {Star} |-> [NewLocation EXCEPT !.root = <<"s">>]]],
       blocks |-> {SpanOf(Preamble \o Host1 \o Header2, Default2, {Star})}]>>

MCNumber == [n \in {"80", "81", "301"} |->
                CASE n = "80" -> 80 [] n = "81" -> 81 [] n = "301" -> 301]

\* What is put in: each delimiter, the comment, directives of each level and
\* values of each kind.
Tokens == {"{", "}", ";", "#", "\n", "server", "listen", "location", "cgi", "root",
           "host", "methods", "upload", "exec", "error_pages", "off", "81", "301", "s1", "s3", "a"}

MCEdits ==
    [at : {1}, kind : {"none"}, token : {""}]
    \union [at : DOMAIN MCBase, kind : {"remove"}, token : {""}]
    \union [at : DOMAIN MCBase, kind : {"replace"}, token : Tokens]
    \union [at : 1..(Len(MCBase) + 1), kind : {"insert"}, token : Tokens]
    \union [at : 1..(Len(MCBase) - 1), kind : {"swap"}, token : {""}]

MCUnbindable == {<<"host", "80">>, <<"localhost", "301">>}
MCUnlistenable == {<<"a", "80">>, <<"localhost", "81">>}
=============================================================================
