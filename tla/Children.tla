------------------------------ MODULE Children ------------------------------
(***************************************************************************)
(* The server process and the children it forks for scripts, seen across   *)
(* clients: what fork copies, what a child that fails to become its script *)
(* does with the copies, who is killed, who is waited for, and what        *)
(* becomes of the uploads of other clients.                                *)
(*                                                                         *)
(* A child that cannot reach execv throws child_exit_exception; main       *)
(* catches it and runs cleanExit in the child, which terminates the        *)
(* child's copies of all clients: it kills the scripts they wait for,      *)
(* flushes their upload streams into the files it shares with the server,  *)
(* and removes the files of theirs that it finds.                          *)
(*                                                                         *)
(* What a connection does between two requests is Connection's; here a     *)
(* client uploads, waits for a script, or is idle with an answer.          *)
(***************************************************************************)
EXTENDS Integers, Sequences, SequencesExt

CONSTANTS
    Clients,
    Pids,           \* process ids the system can give to children
    Pieces,         \* pieces of an upload; bound
    MaxFile         \* length of a file at which no child fails any more; bound

ASSUME ChildrenAssumption ==
    /\ Clients # {}
    /\ Pids \subseteq Nat \ {0}
    /\ Pieces \in Nat \ {0}
    /\ MaxFile \in Nat

VARIABLES
    client,         \* the server's clients
    file,           \* what is in the file of each client's upload
    proc,           \* the children
    out             \* pids of the launches whose output file exists

vars == <<client, file, proc, out>>

\* pid is CGIProcess::_pid, 0 for none; buf is what _bodyStream holds in
\* memory, and sent counts the pieces received.  body is the temporary file a
\* script's body goes to, "removed" once a child has unlinked it, and "none" for
\* an upload to its target.  The answers to scripts are Connection's.
Idle == [job |-> "idle", pid |-> 0, sent |-> 0, buf |-> <<>>, body |-> "none"]

\* What a child knows of a client: the pid it waits for, whether the output file
\* of that pid is still the one the copy names, the buffered upload, and whether
\* that goes to a temporary file of the request the client is still at.
NoCopy == [pid |-> 0, named |-> FALSE, buf |-> <<>>, body |-> FALSE]

\* A child from fork to execv ("fork"), as the script, in cleanExit, ended and
\* not waited for; todo are the copies cleanExit has yet to terminate, and
\* here says that the child is still in the server's working directory.
Free ==
    [state |-> "free", owner |-> CHOOSE c \in Clients : TRUE, late |-> FALSE,
     todo |-> {}, copy |-> [c \in Clients |-> NoCopy], here |-> TRUE]

Living == {"fork", "script", "cleanup"}

-----------------------------------------------------------------------------
Init ==
    /\ client = [c \in Clients |-> Idle]
    /\ file = [c \in Clients |-> <<>>]
    /\ proc = [p \in Pids |-> Free]
    /\ out = {}

\* A child that ends, by itself or by a signal.
Exited(child) == [Free EXCEPT !.state = "exited", !.owner = child.owner]

\* kill(p, SIGKILL): a child that has ended already is left as it is.
Kill(ps, p) ==
    IF p # 0 /\ ps[p].state \in Living
    THEN [ps EXCEPT ![p] = Exited(@)]
    ELSE ps

\* waitpid frees the pid.  The name of its output file is never given again, so
\* that no copy leads to a file of the pid's next owner.
Reap(p) ==
    [q \in Pids |->
        IF q = p THEN Free
        ELSE [proc[q] EXCEPT !.copy = [c \in Clients |->
                 IF @[c].pid = p THEN [@[c] EXCEPT !.named = FALSE] ELSE @[c]]]]

\* What c's upload has put in its file is not looked at any more, nor what
\* copies hold of it; kept says that the file itself is still the request's.
Forget(ps, c, kept) ==
    [p \in Pids |->
        [ps[p] EXCEPT !.copy[c].buf = <<>>, !.copy[c].body = @ /\ kept]]

\* setBodyFile opens the file, and truncates it; a request whose body is for a
\* script goes on with the script.
StartUpload(c) ==
    /\ client[c].job \in {"idle", "stored"}
    /\ client[c].job = "stored" => client[c].body = "none"
    /\ \E b \in {"none", "kept"} :
          client' = [client EXCEPT ![c] = [Idle EXCEPT !.job = "upload", !.body = b]]
    /\ file' = [file EXCEPT ![c] = <<>>]
    /\ proc' = Forget(proc, c, FALSE)
    /\ UNCHANGED out

\* Mutant: closing the stream drops what it holds.
MutLossyReadBody(c) ==
    LET n == client[c].sent + 1
    IN /\ client[c].job = "upload"
       /\ file' = [file EXCEPT ![c] = IF n = Pieces THEN Append(@, n) ELSE @]
       /\ client' = [client EXCEPT
              ![c].sent = n,
              ![c].buf = IF n = Pieces THEN <<>> ELSE Append(@, n),
              ![c].job = IF n = Pieces THEN "stored" ELSE "upload"]
       /\ UNCHANGED <<proc, out>>

\* A piece of the body: the stream keeps it in memory, or writes all it holds;
\* behind the last piece the stream is closed.
ReadBody(c) ==
    LET n == client[c].sent + 1
        held == Append(client[c].buf, n)
    IN /\ client[c].job = "upload"
       /\ \E flush \in BOOLEAN :
              /\ n = Pieces => flush
              /\ file' = [file EXCEPT ![c] = IF flush THEN @ \o held ELSE @]
              /\ client' = [client EXCEPT
                     ![c].sent = n,
                     ![c].buf = IF flush THEN <<>> ELSE held,
                     ![c].job = IF n = Pieces THEN "stored" ELSE "upload"]
       /\ UNCHANGED <<proc, out>>

\* execCGI: the child gets copies of all clients; in its own copy _pid is 0.
Launch(c) ==
    /\ client[c].job \in {"idle", "stored"}
    /\ \E p \in {q \in Pids : proc[q].state = "free"} :
          /\ client' = [client EXCEPT ![c] =
                 [Idle EXCEPT !.job = "script", !.pid = p, !.body = client[c].body]]
          /\ proc' = Forget([proc EXCEPT ![p] =
                 [Free EXCEPT !.state = "fork", !.owner = c,
                              !.copy = [d \in Clients |->
                                  [pid |-> IF d = c THEN 0 ELSE client[d].pid,
                                   named |-> d # c /\ client[d].pid # 0,
                                   buf |-> client[d].buf,
                                   body |-> client[d].body # "none"]]]], c, TRUE)
    /\ file' = [file EXCEPT ![c] = <<>>]
    /\ UNCHANGED out

\* fork fails: the request is answered with 500, and nothing else happens.
ForkFails(c) ==
    /\ client[c].job \in {"idle", "stored"}
    /\ \A p \in Pids : proc[p].state # "free"
    /\ client' = [client EXCEPT ![c] = Idle]
    /\ file' = [file EXCEPT ![c] = <<>>]
    /\ proc' = Forget(proc, c, FALSE)
    /\ UNCHANGED out

\* _launchCGI opens the output file first, and the body of the request, without
\* which there is no script; execv drops the copies.
ChildExec(p) ==
    /\ proc[p].state = "fork"
    /\ client[proc[p].owner].body # "removed"
    /\ out' = out \union {p}
    /\ proc' = [proc EXCEPT ![p].state = "script", ![p].copy = Free.copy]
    /\ UNCHANGED <<client, file>>

\* chdir fails, or something behind it: open, dup2 or execv.  Copies of clients
\* that neither wait nor upload leave nothing to terminate.
ChildFails(p) ==
    /\ proc[p].state = "fork"
    /\ \A c \in Clients : Len(file[c]) <= MaxFile
    /\ out' = out \union {p}
    /\ \E here \in BOOLEAN :
          proc' = [proc EXCEPT
                      ![p].state = "cleanup", ![p].here = here,
                      ![p].todo = {c \in Clients : \/ c = proc[p].owner
                                                   \/ proc[p].copy[c] # NoCopy}]
    /\ UNCHANGED <<client, file>>

\* cleanExit in the child: Client::terminate on its copy of c, which removes
\* the outputs it names and a temporary body, as they are of no more use to
\* the copy.  The paths are relative, so that the files of the server are found
\* from its own directory only.
ChildTerminates(p, c) ==
    LET copy == proc[p].copy[c]
        outs == (IF c = proc[p].owner THEN {p} ELSE {})
                \union (IF copy.named THEN {copy.pid} ELSE {})
    IN /\ proc[p].state = "cleanup"
       /\ c \in proc[p].todo
       /\ proc' = Kill([proc EXCEPT ![p].todo = @ \ {c}], copy.pid)
       /\ file' = [file EXCEPT ![c] = @ \o copy.buf]
       /\ out' = IF proc[p].here THEN out \ outs ELSE out
       /\ client' = IF proc[p].here /\ copy.body
                    THEN [client EXCEPT ![c].body = "removed"] ELSE client

\* main returns 1, behind the last copy.
ChildExits(p) ==
    /\ proc[p].state = "cleanup"
    /\ proc[p].todo = {}
    /\ proc' = [proc EXCEPT ![p] = Exited(@)]
    /\ UNCHANGED <<client, file, out>>

ScriptEnds(p) ==
    /\ proc[p].state = "script"
    /\ proc' = [proc EXCEPT ![p] = Exited(@)]
    /\ UNCHANGED <<client, file, out>>

\* CGI_TIME_OUT passes.
TimeOut(p) ==
    /\ proc[p].state \in Living
    /\ ~proc[p].late
    /\ proc' = [proc EXCEPT ![p].late = TRUE]
    /\ UNCHANGED <<client, file, out>>

\* Mutant: only the end of the child is looked at, never its time.
MutCheckEnd(c) ==
    LET p == client[c].pid
    IN /\ client[c].job = "script"
       /\ proc[p].state = "exited"
       /\ proc' = Forget(Reap(p), c, FALSE)
       /\ client' = [client EXCEPT ![c] = Idle]
       /\ out' = out \ {p}
       /\ UNCHANGED file

\* Mutant: a child that was waited for leaves its number in _pid.
MutKeptCheckEnd(c) ==
    LET p == client[c].pid
    IN /\ client[c].job = "script"
       /\ \/ proc[p].state = "exited" /\ proc' = Forget(Reap(p), c, FALSE)
          \/ /\ proc[p].state \in Living /\ proc[p].late
             /\ proc' = Forget(Kill(proc, p), c, FALSE)
       /\ client' = [client EXCEPT ![c] = [Idle EXCEPT !.pid = p]]
       /\ out' = out \ {p}
       /\ UNCHANGED file

\* checkEnd: an ended child is waited for; one that is late is killed and not
\* waited for.  Either way deleteCGIProcess removes the output file, behind the
\* answer made from it.
CheckEnd(c) ==
    LET p == client[c].pid
    IN /\ client[c].job = "script"
       /\ \/ proc[p].state = "exited" /\ proc' = Forget(Reap(p), c, FALSE)
          \/ /\ proc[p].state \in Living /\ proc[p].late
             /\ proc' = Forget(Kill(proc, p), c, FALSE)
       /\ client' = [client EXCEPT ![c] = Idle]
       /\ out' = out \ {p}
       /\ UNCHANGED file

\* Mutant: the child is left to itself.
MutTerminate(c) ==
    /\ client[c].job # "idle"
    /\ proc' = Forget(proc, c, FALSE)
    /\ file' = [file EXCEPT ![c] = <<>>]
    /\ out' = out \ {client[c].pid}
    /\ client' = [client EXCEPT ![c] = Idle]

\* Client::terminate in the server, and another connection in its place: the
\* child is killed and not waited for, the output file is removed; the part of
\* an upload that came stays in its file.
Terminate(c) ==
    /\ client[c].job # "idle"
    /\ proc' = Forget(Kill(proc, client[c].pid), c, FALSE)
    /\ file' = [file EXCEPT ![c] = <<>>]
    /\ out' = out \ {client[c].pid}
    /\ client' = [client EXCEPT ![c] = Idle]

ChildStep(p) ==
    \/ ChildExec(p) \/ ChildFails(p) \/ ChildExits(p)
    \/ \E c \in Clients : ChildTerminates(p, c)

Next ==
    \/ \E c \in Clients :
          \/ StartUpload(c) \/ ReadBody(c) \/ Launch(c) \/ ForkFails(c)
          \/ CheckEnd(c) \/ Terminate(c)
    \/ \E p \in Pids : ChildStep(p) \/ ScriptEnds(p) \/ TimeOut(p)

\* The clock goes on, and main runs handleCGIProcess on every client that can
\* be written to, which a client that waits is.  Nothing makes a script end.
Fairness ==
    /\ \A p \in Pids : WF_vars(TimeOut(p))
    /\ \A c \in Clients : WF_vars(CheckEnd(c))

Spec == Init /\ [][Next]_vars /\ Fairness

-----------------------------------------------------------------------------
ClientType ==
    [job : {"idle", "upload", "stored", "script"}, pid : Pids \union {0},
     sent : 0..Pieces, buf : Seq(1..Pieces), body : {"none", "kept", "removed"}]

CopyType ==
    [pid : Pids \union {0}, named : BOOLEAN, buf : Seq(1..Pieces), body : BOOLEAN]

ProcType ==
    [state : Living \union {"free", "exited"}, owner : Clients, late : BOOLEAN,
     todo : SUBSET Clients, copy : [Clients -> CopyType], here : BOOLEAN]

\* The state keeps its shape.
TypeOK ==
    /\ client \in [Clients -> ClientType]
    /\ file \in [Clients -> Seq(1..Pieces)]
    /\ proc \in [Pids -> ProcType]
    /\ out \in SUBSET Pids

\* A pid that the server holds is the pid of that client's own child, running or
\* not yet waited for: Client::terminate and checkEnd never kill a process that
\* got the number of an earlier one.
PidOwned ==
    \A c \in Clients :
        /\ client[c].job = "script" <=> client[c].pid # 0
        /\ client[c].pid # 0 =>
              /\ proc[client[c].pid].state # "free"
              /\ proc[client[c].pid].owner = c

\* The output file of a script goes with the CGIProcess that named it, whenever
\* the child is killed: even one that had not opened it yet.
OutOwned == \A p \in out : \E c \in Clients : client[c].pid = p

\* A stored upload holds every piece in order, whatever children do to the file
\* in the meantime, short of removing it: that happens to the body of a script
\* that was on its way when a child failed to leave the server's directory.
NothingLost ==
    \A c \in Clients :
        client[c].job = "stored" /\ client[c].body # "removed" =>
            \E at \in [1..Pieces -> DOMAIN file[c]] :
                /\ \A n \in 1..Pieces : file[c][at[n]] = n
                /\ \A n \in 1..(Pieces - 1) : at[n] < at[n + 1]

\* A client that waits for a script gets an answer or is gone: CGI_TIME_OUT ends
\* the wait for a script that does not end.
ScriptsAnswered ==
    \A c \in Clients : client[c].job = "script" ~> client[c].job # "script"
=============================================================================
