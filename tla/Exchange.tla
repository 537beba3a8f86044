------------------------------ MODULE Exchange ------------------------------
(***************************************************************************)
(* What a connection promises a peer that asks for no "100 Continue",      *)
(* without parser, files or scripts: requests are taken one at a time,     *)
(* each gets one answer, which is sent to its end before the next request  *)
(* is taken, and after an answer that is not a success the connection      *)
(* serves nothing more.  Connection implements it.                         *)
(***************************************************************************)
EXTENDS Integers

VARIABLES
    stage,      \* where the exchange is
    response,   \* the status of the answer being sent, NoAnswer without one
    left        \* the pieces of it still to send

vars == <<stage, response, left>>

NoAnswer == -1

Stages == {"idle", "reading", "working", "answering", "closed"}

Init == stage = "idle" /\ response = NoAnswer /\ left = 0

-----------------------------------------------------------------------------
\* Stage s without an answer.
Enter(s) == stage' = s /\ response' = NoAnswer /\ left' = 0

\* An answer is made.
StartAnswer ==
    /\ stage' = "answering"
    /\ response' \in Nat
    /\ left' \in Nat \ {0}

\* A piece of a request arrives, and is not enough to answer it.
Take == stage = "idle" /\ Enter("reading")

\* The whole request goes to a script.
Work == stage \in {"idle", "reading"} /\ Enter("working")

Answer == stage \in {"idle", "reading"} /\ StartAnswer

\* One piece of the answer leaves, and it is not the last one.
Send ==
    /\ stage = "answering"
    /\ left > 1
    /\ left' = left - 1
    /\ UNCHANGED <<stage, response>>

\* After a success the next request may have arrived already; it is then
\* taken on in the same step.
GoOn ==
    \/ \E s \in {"idle", "reading", "working"} : Enter(s)
    \/ StartAnswer

\* The last piece of a success leaves.
Deliver ==
    /\ stage = "answering"
    /\ left = 1
    /\ response \in 200..299
    /\ GoOn

\* The script is done, its answer is made and the first piece leaves at once.
\* When that was the only piece the exchange is over.
Finish == stage = "working" /\ GoOn

\* The peer or the server ends the connection.
Close == stage # "closed" /\ Enter("closed")

Next == Take \/ Work \/ Answer \/ Send \/ Deliver \/ Finish \/ Close

Spec == Init /\ [][Next]_vars
=============================================================================
