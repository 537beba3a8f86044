--------------------------- MODULE ChildrenProofs ---------------------------
(***************************************************************************)
(* For any number of clients and of pids, the server never holds a pid     *)
(* that is not its client's own child, no output file is left behind, and  *)
(* no piece of a stored upload is missing, as long as the file is there.   *)
(*                                                                         *)
(* OutOwned is not inductive: a child opens its output file after the      *)
(* fork, so it must still be waited for then.  LivingHeld says so for      *)
(* every child that runs, and holds because the server gives up a pid only *)
(* with a kill or behind the end of the child.  TypeOK needs Sending: the  *)
(* stream of an upload is closed with its last piece.  NothingLost needs   *)
(* UploadsKept: file and stream together hold the pieces received.         *)
(***************************************************************************)
EXTENDS Children, TLAPS

LivingHeld ==
    \A p \in Pids : proc[p].state \in Living => client[proc[p].owner].pid = p

Core == PidOwned /\ OutOwned /\ LivingHeld

Sending == \A c \in Clients : client[c].job = "upload" => client[c].sent < Pieces

ChildrenInv == TypeOK /\ Core /\ Sending

\* The records a child starts from and ends with have their type.
LEMMA FreeType ==
    /\ Free \in ProcType
    /\ Free.state = "free"
    /\ NoCopy \in CopyType
<1>1. NoCopy \in CopyType
  BY DEF NoCopy, CopyType
<1>2. (CHOOSE c \in Clients : TRUE) \in Clients
  BY ChildrenAssumption
<1>3. [c \in Clients |-> NoCopy] \in [Clients -> CopyType]
  BY <1>1
<1> HIDE DEF NoCopy
<1> QED
  BY <1>1, <1>2, <1>3 DEF Free, ProcType, Living

\* An ended child keeps its owner.
LEMMA ExitedType ==
    ASSUME NEW child \in ProcType
    PROVE  /\ Exited(child) \in ProcType
           /\ Exited(child).state = "exited"
           /\ Exited(child).owner = child.owner
BY FreeType DEF Exited, ProcType

\* kill ends at most the one child, and no child changes hands.
LEMMA KillFacts ==
    ASSUME NEW ps \in [Pids -> ProcType], NEW p \in Pids \union {0}
    PROVE  /\ Kill(ps, p) \in [Pids -> ProcType]
           /\ \A q \in Pids :
                 /\ Kill(ps, p)[q].owner = ps[q].owner
                 /\ Kill(ps, p)[q].state = "free" <=> ps[q].state = "free"
                 /\ Kill(ps, p)[q].state \in Living => ps[q].state \in Living /\ q # p
<1>1. CASE p # 0 /\ ps[p].state \in Living
  <2>1. p \in Pids /\ ps[p] \in ProcType
    BY <1>1
  <2>2. Kill(ps, p) = [ps EXCEPT ![p] = Exited(ps[p])]
    BY <1>1 DEF Kill
  <2>3. /\ Exited(ps[p]) \in ProcType
        /\ Exited(ps[p]).state = "exited"
        /\ Exited(ps[p]).owner = ps[p].owner
    BY <2>1, ExitedType
  <2>4. ps[p].state # "free"
    BY <1>1 DEF Living
  <2>5. "exited" \notin Living
    BY DEF Living
  <2> QED
    BY <2>1, <2>2, <2>3, <2>4, <2>5
<1>2. CASE ~(p # 0 /\ ps[p].state \in Living)
  <2>1. Kill(ps, p) = ps
    BY <1>2 DEF Kill
  <2>2. 0 \notin Pids
    BY ChildrenAssumption
  <2> QED
    BY <1>2, <2>1, <2>2
<1> QED
  BY <1>1, <1>2

\* Forgetting an upload changes what copies hold of it only.
LEMMA ForgetFacts ==
    ASSUME NEW ps \in [Pids -> ProcType], NEW c \in Clients, NEW kept \in BOOLEAN
    PROVE  /\ Forget(ps, c, kept) \in [Pids -> ProcType]
           /\ \A q \in Pids : /\ Forget(ps, c, kept)[q].owner = ps[q].owner
                              /\ Forget(ps, c, kept)[q].state = ps[q].state
<1> DEFINE Less(q) == [ps[q].copy[c] EXCEPT !.buf = <<>>, !.body = @ /\ kept]
           Copies(q) == [ps[q].copy EXCEPT ![c] = Less(q)]
<1>1. ASSUME NEW q \in Pids
      PROVE  ps[q].copy \in [Clients -> CopyType] /\ Less(q) \in CopyType
  <2>1. ps[q] \in ProcType
    OBVIOUS
  <2>2. ps[q].copy \in [Clients -> CopyType]
    BY <2>1 DEF ProcType
  <2> DEFINE r == ps[q].copy[c]
             b == r.body /\ kept
  <2>3. r \in CopyType
    BY <2>2
  <2> HIDE DEF r
  <2>4. <<>> \in Seq(1..Pieces) /\ b \in BOOLEAN
    BY <2>3 DEF CopyType
  <2> HIDE DEF b
  <2>5. [r EXCEPT !.buf = <<>>, !.body = b] \in CopyType
    BY <2>3, <2>4 DEF CopyType
  <2>6. Less(q) = [r EXCEPT !.buf = <<>>, !.body = b]
    BY <2>3 DEF r, b, CopyType
  <2> QED
    BY <2>2, <2>5, <2>6
<1>2. \A q \in Pids : Forget(ps, c, kept)[q] = [ps[q] EXCEPT !.copy = Copies(q)]
  <2>1. \A q \in Pids : [ps[q] EXCEPT !.copy[c].buf = <<>>, !.copy[c].body = @ /\ kept]
                          = [ps[q] EXCEPT !.copy = Copies(q)]
    BY <1>1 DEF ProcType, CopyType
  <2> HIDE DEF Copies
  <2> QED
    BY <2>1 DEF Forget
<1>3. \A q \in Pids : Copies(q) \in [Clients -> CopyType]
  <2> HIDE DEF Less
  <2> QED
    BY <1>1
<1> HIDE DEF Copies
<1>4. ASSUME NEW q \in Pids
      PROVE  /\ [ps[q] EXCEPT !.copy = Copies(q)] \in ProcType
             /\ [ps[q] EXCEPT !.copy = Copies(q)].owner = ps[q].owner
             /\ [ps[q] EXCEPT !.copy = Copies(q)].state = ps[q].state
  <2>1. ps[q] \in ProcType
    OBVIOUS
  <2> QED
    BY <1>3, <2>1 DEF ProcType
<1>5. Forget(ps, c, kept) = [q \in Pids |-> Forget(ps, c, kept)[q]]
  BY DEF Forget
<1> QED
  BY <1>2, <1>4, <1>5

\* waitpid frees the one pid.
LEMMA ReapFacts ==
    ASSUME proc \in [Pids -> ProcType], NEW p \in Pids
    PROVE  /\ Reap(p) \in [Pids -> ProcType]
           /\ Reap(p)[p].state = "free"
           /\ \A q \in Pids \ {p} : /\ Reap(p)[q].owner = proc[q].owner
                                    /\ Reap(p)[q].state = proc[q].state
<1> DEFINE Stale(q) == [c \in Clients |->
              IF proc[q].copy[c].pid = p THEN [proc[q].copy[c] EXCEPT !.named = FALSE]
                                         ELSE proc[q].copy[c]]
<1>1. ASSUME NEW q \in Pids
      PROVE  Stale(q) \in [Clients -> CopyType]
  <2>1. proc[q].copy \in [Clients -> CopyType]
    BY DEF ProcType
  <2> QED
    BY <2>1 DEF CopyType
<1>2. ASSUME NEW q \in Pids \ {p}
      PROVE  Reap(p)[q] = [proc[q] EXCEPT !.copy = Stale(q)]
  BY DEF Reap
<1>3. Reap(p)[p] = Free /\ DOMAIN Reap(p) = Pids
  BY DEF Reap
<1>4. Reap(p) = [q \in Pids |-> Reap(p)[q]]
  BY DEF Reap
<1> HIDE DEF Stale
<1>5. ASSUME NEW q \in Pids \ {p}
      PROVE  /\ Reap(p)[q] \in ProcType
             /\ Reap(p)[q].owner = proc[q].owner
             /\ Reap(p)[q].state = proc[q].state
  <2>1. proc[q] \in ProcType /\ Stale(q) \in [Clients -> CopyType]
    BY <1>1
  <2> QED
    BY <2>1, <1>2 DEF ProcType
<1> QED
  BY <1>3, <1>4, <1>5, FreeType

-----------------------------------------------------------------------------
\* A client with its files and streams reset has its type,
LEMMA IdleType == Idle \in ClientType /\ Idle.pid = 0 /\ Idle.job = "idle"
<1>1. <<>> \in Seq(1..Pieces) /\ 0 \in 0..Pieces
  BY ChildrenAssumption
<1> QED
  BY <1>1 DEF Idle, ClientType

\* with the file of an upload,
LEMMA UploadType ==
    ASSUME NEW b \in {"none", "kept"}
    PROVE  LET r == [Idle EXCEPT !.job = "upload", !.body = b]
           IN /\ r \in ClientType /\ r.pid = 0 /\ r.job = "upload" /\ r.sent = 0
              /\ r.buf = <<>>
<1>1. <<>> \in Seq(1..Pieces) /\ 0 \in 0..Pieces
  BY ChildrenAssumption
<1> QED
  BY <1>1 DEF Idle, ClientType

\* or with a script.
LEMMA ScriptType ==
    ASSUME NEW p \in Pids, NEW b \in {"none", "kept", "removed"}
    PROVE  LET r == [Idle EXCEPT !.job = "script", !.pid = p, !.body = b]
           IN r \in ClientType /\ r.pid = p /\ r.job = "script"
<1>1. <<>> \in Seq(1..Pieces) /\ 0 \in 0..Pieces
  BY ChildrenAssumption
<1> QED
  BY <1>1 DEF Idle, ClientType

\* The child that Launch forks.
LEMMA ForkedType ==
    ASSUME TypeOK, NEW c \in Clients
    PROVE  LET child == [Free EXCEPT !.state = "fork", !.owner = c,
                              !.copy = [d \in Clients |->
                                  [pid |-> IF d = c THEN 0 ELSE client[d].pid,
                                   named |-> d # c /\ client[d].pid # 0,
                                   buf |-> client[d].buf,
                                   body |-> client[d].body # "none"]]]
           IN child \in ProcType /\ child.state = "fork" /\ child.owner = c
<1> DEFINE copy == [d \in Clients |->
                       [pid |-> IF d = c THEN 0 ELSE client[d].pid,
                        named |-> d # c /\ client[d].pid # 0,
                        buf |-> client[d].buf,
                        body |-> client[d].body # "none"]]
<1>1. copy \in [Clients -> CopyType]
  BY DEF TypeOK, ClientType, CopyType
<1>2. "fork" \in Living \union {"free", "exited"}
  BY DEF Living
<1> HIDE DEF copy
<1>3. [Free EXCEPT !.state = "fork", !.owner = c, !.copy = copy] \in ProcType
  BY <1>1, <1>2, FreeType DEF ProcType
<1>4. /\ [Free EXCEPT !.state = "fork", !.owner = c, !.copy = copy].state = "fork"
      /\ [Free EXCEPT !.state = "fork", !.owner = c, !.copy = copy].owner = c
  BY FreeType DEF ProcType
<1> QED
  BY <1>3, <1>4 DEF copy

\* A step that takes no pid from a client and frees none keeps Core; a child
\* that runs may open its output file.
LEMMA CoreKept ==
    ASSUME TypeOK, Core,
           \A c \in Clients : /\ client'[c].pid = client[c].pid
                              /\ client'[c].job = "script" <=> client[c].job = "script",
           \A q \in Pids : /\ proc'[q].owner = proc[q].owner
                           /\ proc'[q].state = "free" <=> proc[q].state = "free"
                           /\ proc'[q].state \in Living => proc[q].state \in Living,
           out' \subseteq out \union {p \in Pids : proc[p].state \in Living}
    PROVE  Core'
<1>1. \A q \in Pids : proc[q].owner \in Clients
  BY DEF TypeOK, ProcType
<1>2. \A c \in Clients : client[c].pid # 0 => client[c].pid \in Pids
  BY DEF TypeOK, ClientType
<1>3. PidOwned'
  BY <1>2 DEF Core, PidOwned
<1>4. LivingHeld'
  BY <1>1 DEF Core, LivingHeld
<1>5. OutOwned'
  <2>1. ASSUME NEW p \in out'
        PROVE  \E c \in Clients : client[c].pid = p
    <3>1. CASE p \in out
      BY <3>1 DEF Core, OutOwned
    <3>2. CASE p \in Pids /\ proc[p].state \in Living
      BY <3>2, <1>1 DEF Core, LivingHeld
    <3> QED
      BY <3>1, <3>2
  <2> QED
    BY <2>1 DEF OutOwned
<1> QED
  BY <1>3, <1>4, <1>5 DEF Core

\* The server gives up the pid of c, when the child does not run any more: the
\* output file goes too.
LEMMA CoreDropped ==
    ASSUME TypeOK, Core, NEW c \in Clients,
           client' = [client EXCEPT ![c] = Idle],
           \A q \in Pids \ {client[c].pid} :
               /\ proc'[q].owner = proc[q].owner
               /\ proc'[q].state = "free" <=> proc[q].state = "free",
           \A q \in Pids : proc'[q].state \in Living =>
               proc[q].state \in Living /\ q # client[c].pid,
           out' = out \ {client[c].pid}
    PROVE  Core'
<1>1. \A q \in Pids : proc[q].owner \in Clients
  BY DEF TypeOK, ProcType
<1>2. \A d \in Clients : client[d].pid # 0 => client[d].pid \in Pids
  BY DEF TypeOK, ClientType
<1>3. /\ client'[c].pid = 0 /\ client'[c].job # "script"
      /\ \A d \in Clients \ {c} : client'[d] = client[d]
  BY IdleType DEF TypeOK
<1>4. \A d \in Clients \ {c} : client[d].pid # 0 => client[d].pid # client[c].pid
  BY DEF Core, PidOwned
<1>5. PidOwned'
  BY <1>2, <1>3, <1>4 DEF Core, PidOwned
<1>6. LivingHeld'
  <2>1. ASSUME NEW q \in Pids, proc'[q].state \in Living
        PROVE  client'[proc'[q].owner].pid = q
    <3>1. proc[q].state \in Living /\ q # client[c].pid
      BY <2>1
    <3>2. client[proc[q].owner].pid = q
      BY <3>1 DEF Core, LivingHeld
    <3>3. proc[q].owner \in Clients \ {c}
      BY <3>1, <3>2, <1>1
    <3> QED
      BY <3>1, <3>2, <3>3, <1>3
  <2> QED
    BY <2>1 DEF LivingHeld
<1>7. OutOwned'
  <2>1. ASSUME NEW p \in out'
        PROVE  \E d \in Clients : client'[d].pid = p
    <3>1. p \in out /\ p # client[c].pid
      OBVIOUS
    <3>2. PICK d \in Clients : client[d].pid = p
      BY <3>1 DEF Core, OutOwned
    <3> QED
      BY <3>1, <3>2, <1>3
  <2> QED
    BY <2>1 DEF OutOwned
<1> QED
  BY <1>5, <1>6, <1>7 DEF Core

\* fork takes a pid that nobody holds, for a client that holds none.
LEMMA LaunchInv ==
    ASSUME ChildrenInv, NEW c \in Clients, Launch(c)
    PROVE  ChildrenInv'
<1> DEFINE child == [Free EXCEPT !.state = "fork", !.owner = c,
                         !.copy = [d \in Clients |->
                             [pid |-> IF d = c THEN 0 ELSE client[d].pid,
                              named |-> d # c /\ client[d].pid # 0,
                              buf |-> client[d].buf,
                              body |-> client[d].body # "none"]]]
<1>1. PICK p \in Pids :
          /\ proc[p].state = "free"
          /\ client' = [client EXCEPT ![c] =
                 [Idle EXCEPT !.job = "script", !.pid = p, !.body = client[c].body]]
          /\ proc' = Forget([proc EXCEPT ![p] = child], c, TRUE)
  BY DEF Launch
<1>2. child \in ProcType /\ child.state = "fork" /\ child.owner = c
  BY ForkedType DEF ChildrenInv
<1>3. client[c].job \in {"idle", "stored"} /\ file' = [file EXCEPT ![c] = <<>>] /\ out' = out
  BY DEF Launch
<1> HIDE DEF child
<1>4. [proc EXCEPT ![p] = child] \in [Pids -> ProcType]
  BY <1>2 DEF ChildrenInv, TypeOK
<1>5. /\ proc' \in [Pids -> ProcType]
      /\ proc'[p].state = "fork" /\ proc'[p].owner = c
      /\ \A q \in Pids \ {p} : /\ proc'[q].state = proc[q].state
                               /\ proc'[q].owner = proc[q].owner
  BY <1>1, <1>2, <1>4, ForgetFacts DEF ChildrenInv, TypeOK
<1>6. /\ client' \in [Clients -> ClientType]
      /\ client'[c].pid = p /\ client'[c].job = "script"
      /\ \A d \in Clients \ {c} : client'[d] = client[d]
  <2>1. client[c].body \in {"none", "kept", "removed"}
    BY DEF ChildrenInv, TypeOK, ClientType
  <2> QED
    BY <1>1, <2>1, ScriptType DEF ChildrenInv, TypeOK
<1>7. TypeOK'
  <2>1. file' \in [Clients -> Seq(1..Pieces)]
    BY <1>3 DEF ChildrenInv, TypeOK
  <2> QED
    BY <1>3, <1>5, <1>6, <2>1 DEF ChildrenInv, TypeOK
<1>8. client[c].pid = 0
  BY <1>3 DEF ChildrenInv, Core, PidOwned
<1>9. 0 \notin Pids
  BY ChildrenAssumption
<1>10. \A d \in Clients : client[d].pid # p
  BY <1>1, <1>9 DEF ChildrenInv, Core, PidOwned
<1>11. PidOwned'
  <2>1. \A d \in Clients : client[d].pid # 0 => client[d].pid \in Pids
    BY DEF ChildrenInv, TypeOK, ClientType
  <2>2. "fork" # "free"
    OBVIOUS
  <2> QED
    BY <1>5, <1>6, <1>9, <1>10, <2>1, <2>2 DEF ChildrenInv, Core, PidOwned
<1>12. LivingHeld'
  <2>1. ASSUME NEW q \in Pids, proc'[q].state \in Living
        PROVE  client'[proc'[q].owner].pid = q
    <3>1. CASE q = p
      BY <3>1, <1>5, <1>6
    <3>2. CASE q # p
      <4>1. proc[q].state \in Living /\ proc'[q].owner = proc[q].owner
        BY <2>1, <3>2, <1>5
      <4>2. client[proc[q].owner].pid = q /\ proc[q].owner \in Clients
        BY <4>1 DEF ChildrenInv, Core, LivingHeld, TypeOK, ProcType
      <4>3. proc[q].owner # c
        BY <4>2, <1>8, <1>9
      <4> QED
        BY <4>1, <4>2, <4>3, <1>6
    <3> QED
      BY <3>1, <3>2
  <2> QED
    BY <2>1 DEF LivingHeld
<1>13. OutOwned'
  <2>1. ASSUME NEW q \in out'
        PROVE  \E d \in Clients : client'[d].pid = q
    <3>1. q \in Pids
      BY <1>3 DEF ChildrenInv, TypeOK
    <3>2. PICK d \in Clients : client[d].pid = q
      BY <1>3 DEF ChildrenInv, Core, OutOwned
    <3> QED
      BY <3>1, <3>2, <1>6, <1>8, <1>9
  <2> QED
    BY <2>1 DEF OutOwned
<1>14. Sending'
  BY <1>6 DEF ChildrenInv, Sending
<1> QED
  BY <1>7, <1>11, <1>12, <1>13, <1>14 DEF ChildrenInv, Core

\* An upload begins with an empty file.
LEMMA StartUploadInv ==
    ASSUME ChildrenInv, NEW c \in Clients, StartUpload(c)
    PROVE  ChildrenInv'
<1>1. /\ client[c].job \in {"idle", "stored"}
      /\ file' = [file EXCEPT ![c] = <<>>]
      /\ proc' = Forget(proc, c, FALSE) /\ out' = out
  BY DEF StartUpload
<1> DEFINE Upload(b) == [Idle EXCEPT !.job = "upload", !.body = b]
<1>9. PICK b \in {"none", "kept"} : client' = [client EXCEPT ![c] = Upload(b)]
  BY DEF StartUpload
<1> DEFINE r == Upload(b)
<1>10. /\ r \in ClientType /\ r.pid = 0 /\ r.job = "upload" /\ r.sent = 0
  BY UploadType
<1> HIDE DEF r
<1>2. /\ proc' \in [Pids -> ProcType]
      /\ \A q \in Pids : proc'[q].owner = proc[q].owner /\ proc'[q].state = proc[q].state
  BY <1>1, ForgetFacts DEF ChildrenInv, TypeOK
<1>3. /\ client' \in [Clients -> ClientType]
      /\ client'[c] = r
      /\ \A d \in Clients \ {c} : client'[d] = client[d]
  BY <1>9, <1>10 DEF ChildrenInv, TypeOK, r
<1>4. TypeOK'
  <2>1. file' \in [Clients -> Seq(1..Pieces)]
    BY <1>1 DEF ChildrenInv, TypeOK
  <2> QED
    BY <1>1, <1>2, <1>3, <2>1 DEF ChildrenInv, TypeOK
<1>5. client[c].pid = 0 /\ client[c].job # "script"
  BY <1>1 DEF ChildrenInv, Core, PidOwned
<1>6. /\ client'[c].pid = 0 /\ client'[c].job = "upload" /\ client'[c].sent = 0
  BY <1>3, <1>10
<1>7. Core'
  BY <1>1, <1>2, <1>3, <1>5, <1>6, CoreKept DEF ChildrenInv
<1>8. Sending'
  <2>1. client'[c].sent < Pieces
    BY <1>6, ChildrenAssumption
  <2>2. \A d \in Clients \ {c} : client'[d].job = "upload" => client'[d].sent < Pieces
    BY <1>3 DEF ChildrenInv, Sending
  <2> QED
    BY <2>1, <2>2 DEF Sending
<1> QED
  BY <1>4, <1>7, <1>8 DEF ChildrenInv

\* A piece of an upload goes to memory or to the file, the last one to the file.
LEMMA ReadBodyInv ==
    ASSUME ChildrenInv, NEW c \in Clients, ReadBody(c)
    PROVE  ChildrenInv'
<1> DEFINE n == client[c].sent + 1
           held == Append(client[c].buf, n)
<1>1. PICK flush \in BOOLEAN :
          /\ file' = [file EXCEPT ![c] = IF flush THEN @ \o held ELSE @]
          /\ client' = [client EXCEPT
                 ![c].sent = n,
                 ![c].buf = IF flush THEN <<>> ELSE held,
                 ![c].job = IF n = Pieces THEN "stored" ELSE "upload"]
  BY DEF ReadBody
<1>2. client[c].job = "upload" /\ proc' = proc /\ out' = out
  BY DEF ReadBody
<1>3. client[c] \in ClientType /\ file[c] \in Seq(1..Pieces)
  BY DEF ChildrenInv, TypeOK
<1>4. n \in 1..Pieces
  BY <1>2, <1>3, ChildrenAssumption DEF ChildrenInv, Sending, ClientType
<1>5. held \in Seq(1..Pieces) /\ file[c] \o held \in Seq(1..Pieces)
  <2>1. client[c].buf \in Seq(1..Pieces)
    BY <1>3 DEF ClientType
  <2>2. held \in Seq(1..Pieces)
    BY <2>1, <1>4
  <2> QED
    BY <2>2, <1>3
<1>6. <<>> \in Seq(1..Pieces)
  OBVIOUS
<1> HIDE DEF held
<1>7. file' \in [Clients -> Seq(1..Pieces)]
  BY <1>1, <1>3, <1>5 DEF ChildrenInv, TypeOK
<1>8. client'[c] \in ClientType
  <2>1. client'[c] = [client[c] EXCEPT
                         !.sent = n,
                         !.buf = IF flush THEN <<>> ELSE held,
                         !.job = IF n = Pieces THEN "stored" ELSE "upload"]
    BY <1>1 DEF ChildrenInv, TypeOK
  <2>2. (IF flush THEN <<>> ELSE held) \in Seq(1..Pieces)
    BY <1>5, <1>6, Zenon
  <2>3. (IF n = Pieces THEN "stored" ELSE "upload")
            \in {"idle", "upload", "stored", "script"}
    OBVIOUS
  <2>4. n \in 0..Pieces
    BY <1>4, ChildrenAssumption
  <2> HIDE DEF n
  <2> QED
    BY <2>1, <2>2, <2>3, <2>4, <1>3 DEF ClientType
<1>9. /\ client' \in [Clients -> ClientType]
      /\ \A d \in Clients \ {c} : client'[d] = client[d]
  BY <1>1, <1>8 DEF ChildrenInv, TypeOK
<1>10. /\ client'[c].pid = client[c].pid /\ client'[c].sent = n
       /\ client'[c].job = IF n = Pieces THEN "stored" ELSE "upload"
  BY <1>1, <1>3 DEF ClientType, ChildrenInv, TypeOK
<1>11. TypeOK'
  BY <1>2, <1>7, <1>9 DEF ChildrenInv, TypeOK
<1>12. Core'
  BY <1>2, <1>9, <1>10, CoreKept DEF ChildrenInv
<1>13. Sending'
  <2>1. client'[c].job = "upload" => client'[c].sent < Pieces
    BY <1>4, <1>10, ChildrenAssumption
  <2> QED
    BY <2>1, <1>9 DEF ChildrenInv, Sending
<1> QED
  BY <1>11, <1>12, <1>13 DEF ChildrenInv

\* A fork that fails answers a client that holds no pid.
LEMMA ForkFailsInv ==
    ASSUME ChildrenInv, NEW c \in Clients, ForkFails(c)
    PROVE  ChildrenInv'
<1>1. /\ client[c].job \in {"idle", "stored"}
      /\ client' = [client EXCEPT ![c] = Idle]
      /\ file' = [file EXCEPT ![c] = <<>>]
      /\ proc' = Forget(proc, c, FALSE) /\ out' = out
  BY DEF ForkFails
<1>2. /\ proc' \in [Pids -> ProcType]
      /\ \A q \in Pids : proc'[q].owner = proc[q].owner /\ proc'[q].state = proc[q].state
  BY <1>1, ForgetFacts DEF ChildrenInv, TypeOK
<1>3. /\ client' \in [Clients -> ClientType]
      /\ client'[c] = Idle
      /\ \A d \in Clients \ {c} : client'[d] = client[d]
  BY <1>1, IdleType DEF ChildrenInv, TypeOK
<1>4. TypeOK'
  <2>1. file' \in [Clients -> Seq(1..Pieces)]
    BY <1>1 DEF ChildrenInv, TypeOK
  <2> QED
    BY <1>1, <1>2, <1>3, <2>1 DEF ChildrenInv, TypeOK
<1>5. client[c].pid = 0 /\ client[c].job # "script"
  BY <1>1 DEF ChildrenInv, Core, PidOwned
<1>6. Core'
  BY <1>1, <1>2, <1>3, <1>5, IdleType, CoreKept DEF ChildrenInv
<1>7. Sending'
  BY <1>3, IdleType DEF ChildrenInv, Sending
<1> QED
  BY <1>4, <1>6, <1>7 DEF ChildrenInv

\* checkEnd gives up a pid behind the end of the child, or with a kill.
LEMMA CheckEndInv ==
    ASSUME ChildrenInv, NEW c \in Clients, CheckEnd(c)
    PROVE  ChildrenInv'
<1> DEFINE p == client[c].pid
<1>1. /\ client[c].job = "script"
      /\ client' = [client EXCEPT ![c] = Idle]
      /\ out' = out \ {p} /\ file' = file
      /\ \/ proc[p].state = "exited" /\ proc' = Forget(Reap(p), c, FALSE)
         \/ proc[p].state \in Living /\ proc' = Forget(Kill(proc, p), c, FALSE)
  BY DEF CheckEnd
<1>2. p \in Pids /\ proc \in [Pids -> ProcType]
  BY <1>1 DEF ChildrenInv, Core, PidOwned, TypeOK, ClientType
<1> HIDE DEF p
<1>3. /\ proc' \in [Pids -> ProcType]
      /\ \A q \in Pids \ {p} : /\ proc'[q].owner = proc[q].owner
                               /\ proc'[q].state = "free" <=> proc[q].state = "free"
      /\ \A q \in Pids : proc'[q].state \in Living => proc[q].state \in Living /\ q # p
  <2>1. CASE proc' = Forget(Reap(p), c, FALSE)
    <3>1. "free" \notin Living
      BY DEF Living
    <3> DEFINE ps == Reap(p)
    <3>2. /\ ps \in [Pids -> ProcType] /\ ps[p].state = "free"
          /\ \A q \in Pids \ {p} : /\ ps[q].owner = proc[q].owner
                                   /\ ps[q].state = proc[q].state
      BY <1>2, ReapFacts
    <3> HIDE DEF ps
    <3>3. /\ proc' \in [Pids -> ProcType]
          /\ \A q \in Pids : /\ proc'[q].owner = ps[q].owner
                             /\ proc'[q].state = ps[q].state
      BY <2>1, <3>2, ForgetFacts DEF ps
    <3> QED
      BY <3>1, <3>2, <3>3
  <2>2. CASE proc' = Forget(Kill(proc, p), c, FALSE)
    <3> DEFINE ps == Kill(proc, p)
    <3>1. /\ ps \in [Pids -> ProcType]
          /\ \A q \in Pids :
                /\ ps[q].owner = proc[q].owner
                /\ ps[q].state = "free" <=> proc[q].state = "free"
                /\ ps[q].state \in Living => proc[q].state \in Living /\ q # p
      BY <1>2, KillFacts
    <3> HIDE DEF ps
    <3>2. /\ proc' \in [Pids -> ProcType]
          /\ \A q \in Pids : /\ proc'[q].owner = ps[q].owner
                             /\ proc'[q].state = ps[q].state
      BY <2>2, <3>1, ForgetFacts DEF ps
    <3> QED
      BY <3>1, <3>2
  <2> QED
    BY <1>1, <2>1, <2>2
<1>4. /\ client' \in [Clients -> ClientType]
      /\ client'[c] = Idle
      /\ \A d \in Clients \ {c} : client'[d] = client[d]
  BY <1>1, IdleType DEF ChildrenInv, TypeOK
<1>5. TypeOK'
  BY <1>1, <1>3, <1>4 DEF ChildrenInv, TypeOK
<1>6. Core'
  BY <1>1, <1>3, CoreDropped DEF ChildrenInv, p
<1>7. Sending'
  BY <1>4, IdleType DEF ChildrenInv, Sending
<1> QED
  BY <1>5, <1>6, <1>7 DEF ChildrenInv

\* terminate kills the child whose pid it gives up.
LEMMA TerminateInv ==
    ASSUME ChildrenInv, NEW c \in Clients, Terminate(c)
    PROVE  ChildrenInv'
<1> DEFINE p == client[c].pid
<1>1. /\ client' = [client EXCEPT ![c] = Idle]
      /\ out' = out \ {p} /\ file' = [file EXCEPT ![c] = <<>>]
      /\ proc' = Forget(Kill(proc, p), c, FALSE)
  BY DEF Terminate
<1>2. p \in Pids \union {0} /\ proc \in [Pids -> ProcType]
  BY DEF ChildrenInv, TypeOK, ClientType
<1> HIDE DEF p
<1>3. Kill(proc, p) \in [Pids -> ProcType]
  BY <1>2, KillFacts
<1>4. /\ proc' \in [Pids -> ProcType]
      /\ \A q \in Pids : /\ proc'[q].owner = Kill(proc, p)[q].owner
                         /\ proc'[q].state = Kill(proc, p)[q].state
  BY <1>1, <1>3, ForgetFacts
<1>5. /\ \A q \in Pids \ {p} : /\ proc'[q].owner = proc[q].owner
                               /\ proc'[q].state = "free" <=> proc[q].state = "free"
      /\ \A q \in Pids : proc'[q].state \in Living => proc[q].state \in Living /\ q # p
  <2>1. \A q \in Pids :
            /\ Kill(proc, p)[q].owner = proc[q].owner
            /\ Kill(proc, p)[q].state = "free" <=> proc[q].state = "free"
            /\ Kill(proc, p)[q].state \in Living => proc[q].state \in Living /\ q # p
    BY <1>2, KillFacts
  <2> QED
    BY <2>1, <1>4
<1>6. /\ client' \in [Clients -> ClientType]
      /\ client'[c] = Idle
      /\ \A d \in Clients \ {c} : client'[d] = client[d]
  BY <1>1, IdleType DEF ChildrenInv, TypeOK
<1>7. TypeOK'
  <2>1. file' \in [Clients -> Seq(1..Pieces)]
    BY <1>1 DEF ChildrenInv, TypeOK
  <2> QED
    BY <1>1, <1>4, <1>6, <2>1 DEF ChildrenInv, TypeOK
<1>8. Core'
  BY <1>1, <1>5, CoreDropped DEF ChildrenInv, p
<1>9. Sending'
  BY <1>6, IdleType DEF ChildrenInv, Sending
<1> QED
  BY <1>7, <1>8, <1>9 DEF ChildrenInv

-----------------------------------------------------------------------------
\* A client but for the fate of its temporary body.
AlikeBut(r, t) ==
    r.pid = t.pid /\ r.job = t.job /\ r.sent = t.sent /\ r.buf = t.buf

\* What a child does by itself leaves the server's clients alone but for their
\* temporary bodies; it may end, end another child, and create or remove output
\* files of children that run.
LEMMA ChildSide ==
    ASSUME ChildrenInv,
           client' \in [Clients -> ClientType],
           \A c \in Clients : AlikeBut(client'[c], client[c]),
           file' \in [Clients -> Seq(1..Pieces)],
           proc' \in [Pids -> ProcType],
           \A q \in Pids : /\ proc'[q].owner = proc[q].owner
                           /\ proc'[q].state = "free" <=> proc[q].state = "free"
                           /\ proc'[q].state \in Living => proc[q].state \in Living,
           out' \subseteq out \union {p \in Pids : proc[p].state \in Living}
    PROVE  ChildrenInv'
<1>1. TypeOK'
  BY DEF ChildrenInv, TypeOK
<1>2. Core'
  BY CoreKept DEF ChildrenInv, AlikeBut
<1> QED
  BY <1>1, <1>2 DEF ChildrenInv, Sending, AlikeBut

\* Removing one of these bodies does no more than that.
LEMMA BodyRemoved ==
    ASSUME NEW cs \in [Clients -> ClientType], NEW c \in Clients
    PROVE  LET ds == [cs EXCEPT ![c].body = "removed"]
           IN ds \in [Clients -> ClientType] /\ \A d \in Clients : AlikeBut(ds[d], cs[d])
<1> DEFINE r == [cs[c] EXCEPT !.body = "removed"]
<1>1. cs[c] \in ClientType
  OBVIOUS
<1>2. r \in ClientType /\ AlikeBut(r, cs[c])
  BY <1>1 DEF ClientType, AlikeBut
<1>3. \A d \in Clients : AlikeBut(cs[d], cs[d])
  BY DEF AlikeBut
<1>4. [cs EXCEPT ![c].body = "removed"] = [cs EXCEPT ![c] = r]
  OBVIOUS
<1> HIDE DEF r
<1> QED
  BY <1>2, <1>3, <1>4

\* The steps of a child between fork and its end.
LEMMA ChildStepInv ==
    ASSUME ChildrenInv, NEW p \in Pids,
           ChildStep(p) \/ ScriptEnds(p) \/ TimeOut(p)
    PROVE  ChildrenInv'
<1>1. /\ proc \in [Pids -> ProcType] /\ proc[p] \in ProcType
      /\ file \in [Clients -> Seq(1..Pieces)]
      /\ client \in [Clients -> ClientType]
      /\ \A c \in Clients : AlikeBut(client[c], client[c])
  BY DEF ChildrenInv, TypeOK, AlikeBut
<1>2. /\ {"fork", "script", "cleanup"} \subseteq Living
      /\ "free" \notin Living /\ "exited" \notin Living
  BY DEF Living
<1>3. CASE ChildExec(p)
  <2>1. /\ proc[p].state = "fork" /\ client' = client /\ file' = file
        /\ out' = out \union {p}
        /\ proc' = [proc EXCEPT ![p].state = "script", ![p].copy = Free.copy]
    BY <1>3 DEF ChildExec
  <2>2. Free.copy \in [Clients -> CopyType]
    BY FreeType DEF ProcType
  <2>3. proc'[p] = [proc[p] EXCEPT !.state = "script", !.copy = Free.copy]
    BY <2>1, <1>1
  <2>4. /\ proc'[p] \in ProcType
        /\ proc'[p].state = "script" /\ proc'[p].owner = proc[p].owner
    BY <2>2, <2>3, <1>1, <1>2 DEF ProcType
  <2>5. /\ proc' \in [Pids -> ProcType]
        /\ \A q \in Pids \ {p} : proc'[q] = proc[q]
    BY <2>1, <2>4, <1>1
  <2> QED
    BY <2>1, <2>4, <2>5, <1>1, <1>2, ChildSide
<1>4. CASE ChildFails(p)
  <2> DEFINE todo == {c \in Clients : c = proc[p].owner \/ proc[p].copy[c] # NoCopy}
  <2>1. PICK here \in BOOLEAN :
            proc' = [proc EXCEPT ![p].state = "cleanup", ![p].here = here,
                                 ![p].todo = todo]
    BY <1>4 DEF ChildFails
  <2>2. /\ proc[p].state = "fork" /\ client' = client /\ file' = file
        /\ out' = out \union {p}
    BY <1>4 DEF ChildFails
  <2>3. todo \in SUBSET Clients
    OBVIOUS
  <2> HIDE DEF todo
  <2>4. proc'[p] = [proc[p] EXCEPT !.state = "cleanup", !.here = here, !.todo = todo]
    BY <2>1, <1>1
  <2>5. /\ proc'[p] \in ProcType
        /\ proc'[p].state = "cleanup" /\ proc'[p].owner = proc[p].owner
    BY <2>3, <2>4, <1>1, <1>2 DEF ProcType
  <2>6. /\ proc' \in [Pids -> ProcType]
        /\ \A q \in Pids \ {p} : proc'[q] = proc[q]
    BY <2>1, <2>5, <1>1
  <2> QED
    BY <2>2, <2>5, <2>6, <1>1, <1>2, ChildSide
<1>5. CASE ChildExits(p) \/ ScriptEnds(p)
  <2>1. /\ proc[p].state \in Living /\ client' = client /\ file' = file /\ out' = out
        /\ proc' = [proc EXCEPT ![p] = Exited(proc[p])]
    BY <1>5, <1>2 DEF ChildExits, ScriptEnds
  <2>2. /\ Exited(proc[p]) \in ProcType
        /\ Exited(proc[p]).state = "exited"
        /\ Exited(proc[p]).owner = proc[p].owner
    BY <1>1, ExitedType
  <2>3. /\ proc' \in [Pids -> ProcType]
        /\ proc'[p].state = "exited" /\ proc'[p].owner = proc[p].owner
        /\ \A q \in Pids \ {p} : proc'[q] = proc[q]
    BY <2>1, <2>2, <1>1
  <2> QED
    BY <2>1, <2>3, <1>1, <1>2, ChildSide
<1>6. CASE TimeOut(p)
  <2>1. /\ client' = client /\ file' = file /\ out' = out
        /\ proc' = [proc EXCEPT ![p].late = TRUE]
    BY <1>6 DEF TimeOut
  <2>2. proc'[p] = [proc[p] EXCEPT !.late = TRUE]
    BY <2>1, <1>1
  <2>3. /\ proc'[p] \in ProcType
        /\ proc'[p].state = proc[p].state /\ proc'[p].owner = proc[p].owner
    BY <2>2, <1>1 DEF ProcType
  <2>4. /\ proc' \in [Pids -> ProcType]
        /\ \A q \in Pids \ {p} : proc'[q] = proc[q]
    BY <2>1, <2>3, <1>1
  <2> QED
    BY <2>1, <2>3, <2>4, <1>1, ChildSide
<1>7. CASE \E c \in Clients : ChildTerminates(p, c)
  <2>1. PICK c \in Clients : ChildTerminates(p, c)
    BY <1>7
  <2> DEFINE k == proc[p].copy[c].pid
             ps == [proc EXCEPT ![p].todo = @ \ {c}]
  <2>2. /\ proc' = Kill(ps, k)
        /\ \/ client' = [client EXCEPT ![c].body = "removed"]
           \/ client' = client
        /\ file' = [file EXCEPT ![c] = @ \o proc[p].copy[c].buf]
        /\ out' \subseteq out
    BY <2>1 DEF ChildTerminates
  <2>10. /\ client' \in [Clients -> ClientType]
         /\ \A d \in Clients : AlikeBut(client'[d], client[d])
    <3> DEFINE cs == [client EXCEPT ![c].body = "removed"]
    <3>1. cs \in [Clients -> ClientType] /\ \A d \in Clients : AlikeBut(cs[d], client[d])
      BY <1>1, BodyRemoved
    <3> HIDE DEF cs
    <3>2. client' = cs \/ client' = client
      BY <2>2 DEF cs
    <3>3. \A d \in Clients : AlikeBut(client[d], client[d])
      BY DEF AlikeBut
    <3> QED
      BY <1>1, <3>1, <3>2, <3>3
  <2>3. proc[p].copy[c] \in CopyType
    BY <1>1 DEF ProcType
  <2>4. k \in Pids \union {0} /\ proc[p].copy[c].buf \in Seq(1..Pieces)
    BY <2>3 DEF CopyType
  <2>5. file' \in [Clients -> Seq(1..Pieces)]
    <3>1. file[c] \o proc[p].copy[c].buf \in Seq(1..Pieces)
      BY <2>4, <1>1
    <3> QED
      BY <2>2, <3>1, <1>1
  <2>6. ps[p] = [proc[p] EXCEPT !.todo = @ \ {c}]
    BY <1>1
  <2>7. /\ ps[p] \in ProcType
        /\ ps[p].state = proc[p].state /\ ps[p].owner = proc[p].owner
    BY <2>6, <1>1 DEF ProcType
  <2>8. ps \in [Pids -> ProcType] /\ \A q \in Pids \ {p} : ps[q] = proc[q]
    BY <2>7, <1>1
  <2> HIDE DEF k, ps
  <2>9. /\ proc' \in [Pids -> ProcType]
        /\ \A q \in Pids :
              /\ proc'[q].owner = ps[q].owner
              /\ proc'[q].state = "free" <=> ps[q].state = "free"
              /\ proc'[q].state \in Living => ps[q].state \in Living
    BY <2>2, <2>4, <2>8, KillFacts
  <2> QED
    BY <2>2, <2>5, <2>7, <2>8, <2>9, <2>10, ChildSide
<1> QED
  BY <1>3, <1>4, <1>5, <1>6, <1>7 DEF ChildStep

\* The inductive invariant: for any clients and pids, the types, the ownership
\* of pids and of output files, and every running child waited for.
THEOREM ChildrenInvariant == Spec => []ChildrenInv
<1>1. Init => ChildrenInv
  <2> SUFFICES ASSUME Init PROVE ChildrenInv
    OBVIOUS
  <2>1. /\ client = [c \in Clients |-> Idle] /\ file = [c \in Clients |-> <<>>]
        /\ proc = [p \in Pids |-> Free] /\ out = {}
    BY DEF Init
  <2>2. TypeOK
    <3>1. file \in [Clients -> Seq(1..Pieces)]
      BY <2>1
    <3> QED
      BY <2>1, <3>1, IdleType, FreeType DEF TypeOK
  <2>3. PidOwned
    BY <2>1, IdleType DEF PidOwned
  <2>4. LivingHeld
    <3>1. "free" \notin Living
      BY DEF Living
    <3> QED
      BY <2>1, <3>1, FreeType DEF LivingHeld
  <2>5. OutOwned /\ Sending
    BY <2>1, IdleType DEF OutOwned, Sending
  <2> QED
    BY <2>2, <2>3, <2>4, <2>5 DEF ChildrenInv, Core
<1>2. ChildrenInv /\ [Next]_vars => ChildrenInv'
  <2> SUFFICES ASSUME ChildrenInv, [Next]_vars PROVE ChildrenInv'
    OBVIOUS
  <2>1. CASE \E c \in Clients :
                \/ StartUpload(c) \/ ReadBody(c) \/ Launch(c) \/ ForkFails(c)
                \/ CheckEnd(c) \/ Terminate(c)
    BY <2>1, StartUploadInv, ReadBodyInv, LaunchInv, ForkFailsInv, CheckEndInv,
       TerminateInv
  <2>2. CASE \E p \in Pids : ChildStep(p) \/ ScriptEnds(p) \/ TimeOut(p)
    BY <2>2, ChildStepInv
  <2>3. CASE UNCHANGED vars
    BY <2>3 DEF vars, ChildrenInv, TypeOK, Core, PidOwned, OutOwned, LivingHeld, Sending
  <2> QED
    BY <2>1, <2>2, <2>3 DEF Next
<1> QED
  BY <1>1, <1>2, PTL DEF Spec

\* Client::terminate and CGIProcess::checkEnd kill and wait for the client's own
\* child only, however pids are given again.
THEOREM PidOwnedAlways == Spec => []PidOwned
<1>1. ChildrenInv => PidOwned
  BY DEF ChildrenInv, Core
<1> QED
  BY <1>1, ChildrenInvariant, PTL

\* No output file outlives the CGIProcess that named it, whatever happens to
\* the child that opens it.
THEOREM OutOwnedAlways == Spec => []OutOwned
<1>1. ChildrenInv => OutOwned
  BY DEF ChildrenInv, Core
<1> QED
  BY <1>1, ChildrenInvariant, PTL

\* Every variable keeps its type; a stream is closed with its last piece.
THEOREM ChildrenTypeCorrect == Spec => []TypeOK
<1>1. ChildrenInv => TypeOK
  BY DEF ChildrenInv
<1> QED
  BY <1>1, ChildrenInvariant, PTL

-----------------------------------------------------------------------------
(***************************************************************************)
(* Uploads.  What the file lacks of the pieces received is in the stream,  *)
(* in order; what children append in between does no harm.                 *)
(***************************************************************************)
\* The first m pieces are in f, in order.
Holds(f, m) ==
    \E at \in [1..m -> DOMAIN f] :
        /\ \A n \in 1..m : f[at[n]] = n
        /\ \A n \in 1..(m - 1) : at[n] < at[n + 1]

\* The pieces behind the first m that the stream holds.
Follows(buf, m) == \A i \in 1..Len(buf) : buf[i] = m + i

\* The pieces that the file of a client has to hold.
Flushed(r) == r.sent - Len(r.buf)

\* The file f and the stream of the client r together hold what it sent.
Kept(r, f) ==
    r.job \in {"upload", "stored"} =>
        /\ Len(r.buf) <= r.sent
        /\ Holds(f, Flushed(r))
        /\ Follows(r.buf, Flushed(r))
        /\ r.job = "stored" => r.buf = <<>> /\ r.sent = Pieces

\* So for every client, while it uploads and afterwards.
UploadsKept == \A c \in Clients : Kept(client[c], file[c])

\* An empty file holds no piece.
LEMMA HoldsNothing == Holds(<<>>, 0)
<1> DEFINE at == [n \in 1..0 |-> n]
<1>1. at \in [1..0 -> DOMAIN <<>>]
  OBVIOUS
<1>2. \A n \in 1..0 : <<>>[at[n]] = n
  OBVIOUS
<1>3. \A n \in 1..(0 - 1) : at[n] < at[n + 1]
  OBVIOUS
<1> QED
  BY <1>1, <1>2, <1>3 DEF Holds

\* Appending the pieces that follow extends what the file holds.
LEMMA HoldsMore ==
    ASSUME NEW f \in Seq(1..Pieces), NEW g \in Seq(1..Pieces), NEW m \in Nat,
           Holds(f, m), Follows(g, m)
    PROVE  Holds(f \o g, m + Len(g))
<1>1. PICK at \in [1..m -> DOMAIN f] :
          /\ \A n \in 1..m : f[at[n]] = n
          /\ \A n \in 1..(m - 1) : at[n] < at[n + 1]
  BY DEF Holds
<1> DEFINE k == m + Len(g)
           to == [n \in 1..k |-> IF n <= m THEN at[n] ELSE Len(f) + n - m]
<1>2. /\ Len(f) \in Nat /\ Len(g) \in Nat /\ DOMAIN f = 1..Len(f)
      /\ f \o g \in Seq(1..Pieces) /\ DOMAIN (f \o g) = 1..(Len(f) + Len(g))
  OBVIOUS
<1>3. /\ \A i \in 1..Len(f) : (f \o g)[i] = f[i]
      /\ \A i \in 1..Len(g) : (f \o g)[Len(f) + i] = g[i]
  OBVIOUS
<1>4. \A n \in 1..m : at[n] \in 1..Len(f)
  BY <1>1, <1>2
<1>5. /\ \A n \in 1..m : to[n] = at[n]
      /\ \A n \in (m + 1)..k : to[n] = Len(f) + n - m
  BY <1>2
<1>6. to \in [1..k -> DOMAIN (f \o g)]
  BY <1>2, <1>4
<1> HIDE DEF to
<1>7. \A n \in 1..k : (f \o g)[to[n]] = n
  <2> TAKE n \in 1..k
  <2>1. CASE n <= m
    <3>1. n \in 1..m /\ to[n] = at[n] /\ at[n] \in 1..Len(f) /\ f[at[n]] = n
      BY <1>1, <1>2, <1>4, <1>5, <2>1
    <3> QED
      BY <1>3, <3>1
  <2>2. CASE n > m
    <3>1. n - m \in 1..Len(g) /\ to[n] = Len(f) + (n - m)
      BY <1>2, <1>5, <2>2
    <3>2. g[n - m] = m + (n - m)
      BY <3>1 DEF Follows
    <3>3. (f \o g)[Len(f) + (n - m)] = g[n - m]
      BY <1>3, <3>1
    <3> QED
      BY <1>2, <3>1, <3>2, <3>3
  <2>3. n <= m \/ n > m
    BY <1>2
  <2> QED
    BY <2>1, <2>2, <2>3
<1>8. \A n \in 1..(k - 1) : to[n] < to[n + 1]
  <2> TAKE n \in 1..(k - 1)
  <2>1. CASE n < m
    BY <1>1, <1>2, <1>5, <2>1
  <2>2. CASE n = m
    <3>1. at[m] \in 1..Len(f) /\ to[n] = at[m] /\ to[n + 1] = Len(f) + 1
      BY <1>2, <1>4, <1>5, <2>2
    <3> QED
      BY <1>2, <3>1
  <2>3. CASE n > m
    <3>1. n \in (m + 1)..k /\ n + 1 \in (m + 1)..k
      BY <1>2, <2>3
    <3>2. to[n] = Len(f) + n - m /\ to[n + 1] = Len(f) + (n + 1) - m
      BY <1>5, <3>1
    <3> QED
      BY <1>2, <3>2
  <2>4. n < m \/ n = m \/ n > m
    BY <1>2
  <2> QED
    BY <2>1, <2>2, <2>3, <2>4
<1> QED
  BY <1>6, <1>7, <1>8 DEF Holds

\* Whatever a child appends, the pieces stay in the file.
LEMMA HoldsStill ==
    ASSUME NEW f \in Seq(1..Pieces), NEW g \in Seq(1..Pieces), NEW m \in Nat,
           Holds(f, m)
    PROVE  Holds(f \o g, m)
<1>1. PICK at \in [1..m -> DOMAIN f] :
          /\ \A n \in 1..m : f[at[n]] = n
          /\ \A n \in 1..(m - 1) : at[n] < at[n + 1]
  BY DEF Holds
<1>2. DOMAIN f \subseteq DOMAIN (f \o g)
  OBVIOUS
<1>3. \A i \in DOMAIN f : (f \o g)[i] = f[i]
  OBVIOUS
<1>4. at \in [1..m -> DOMAIN (f \o g)] /\ \A n \in 1..m : (f \o g)[at[n]] = n
  BY <1>1, <1>2, <1>3
<1> QED
  BY <1>1, <1>4 DEF Holds

\* Clients that neither start nor go on with an upload, and files that are left
\* alone or grow at the end.
LEMMA KeptStep ==
    ASSUME UploadsKept, TypeOK,
           \A c \in Clients :
               \/ client'[c].job \notin {"upload", "stored"}
               \/ /\ AlikeBut(client'[c], client[c])
                  /\ \E g \in Seq(1..Pieces) : file'[c] = file[c] \o g
    PROVE  UploadsKept'
<1> SUFFICES ASSUME NEW c \in Clients
             PROVE  Kept(client'[c], file'[c])
  BY DEF UploadsKept
<1>1. CASE client'[c].job \notin {"upload", "stored"}
  BY <1>1 DEF Kept
<1>2. CASE /\ AlikeBut(client'[c], client[c])
           /\ \E g \in Seq(1..Pieces) : file'[c] = file[c] \o g
  <2> SUFFICES ASSUME client[c].job \in {"upload", "stored"}
               PROVE  Kept(client'[c], file'[c])
    BY <1>2 DEF Kept, AlikeBut
  <2>1. /\ Kept(client[c], file[c]) /\ file[c] \in Seq(1..Pieces)
        /\ client[c].sent \in Nat /\ Len(client[c].buf) \in Nat
    BY ChildrenAssumption DEF UploadsKept, TypeOK, ClientType
  <2>2. Flushed(client[c]) \in Nat /\ Holds(file[c], Flushed(client[c]))
    BY <2>1 DEF Kept, Flushed
  <2>3. Holds(file'[c], Flushed(client[c]))
    BY <1>2, <2>1, <2>2, HoldsStill
  <2>4. Flushed(client'[c]) = Flushed(client[c])
    BY <1>2 DEF AlikeBut, Flushed
  <2> QED
    BY <1>2, <2>1, <2>3, <2>4 DEF Kept, AlikeBut
<1> QED
  BY <1>1, <1>2

\* A file that is left alone grows by nothing.
LEMMA FileKept ==
    ASSUME TypeOK, NEW c \in Clients
    PROVE  \E g \in Seq(1..Pieces) : file[c] = file[c] \o g
<1>1. file[c] \in Seq(1..Pieces) /\ <<>> \in Seq(1..Pieces)
  BY DEF TypeOK
<1>2. file[c] = file[c] \o <<>>
  BY <1>1
<1> QED
  BY <1>1, <1>2

\* A client whose upload is no more, and the others as they were.
LEMMA KeptOthers ==
    ASSUME UploadsKept, TypeOK, NEW c \in Clients, NEW r,
           r.job \notin {"upload", "stored"},
           client' = [client EXCEPT ![c] = r],
           \A d \in Clients \ {c} : file'[d] = file[d]
    PROVE  UploadsKept'
<1>1. client \in [Clients -> ClientType]
  BY DEF TypeOK
<1>2. client'[c].job \notin {"upload", "stored"}
  BY <1>1
<1>3. \A d \in Clients \ {c} :
        /\ client'[d] = client[d]
        /\ \E g \in Seq(1..Pieces) : file'[d] = file[d] \o g
  BY <1>1, FileKept
<1> QED
  BY <1>2, <1>3, KeptStep DEF AlikeBut

\* setBodyFile starts with an empty file and an empty stream.
LEMMA StartUploadKept ==
    ASSUME UploadsKept, TypeOK, NEW c \in Clients, StartUpload(c)
    PROVE  UploadsKept'
<1> DEFINE Upload(b) == [Idle EXCEPT !.job = "upload", !.body = b]
<1>4. PICK b \in {"none", "kept"} : client' = [client EXCEPT ![c] = Upload(b)]
  BY DEF StartUpload
<1> DEFINE r == Upload(b)
<1>5. r.job = "upload" /\ r.sent = 0 /\ r.buf = <<>>
  BY UploadType
<1> HIDE DEF r
<1>1. /\ client' = [client EXCEPT ![c] = r]
      /\ file' = [file EXCEPT ![c] = <<>>]
      /\ client \in [Clients -> ClientType] /\ DOMAIN file = Clients
  BY <1>4 DEF StartUpload, TypeOK, r
<1> SUFFICES ASSUME NEW d \in Clients
             PROVE  Kept(client'[d], file'[d])
  BY DEF UploadsKept
<1>2. CASE d = c
  <2>1. /\ client'[d].job = "upload" /\ client'[d].buf = <<>>
        /\ client'[d].sent = 0 /\ file'[d] = <<>>
    BY <1>1, <1>2, <1>5
  <2>2. Len(client'[d].buf) = 0
    BY <2>1
  <2>4. Flushed(client'[d]) = 0
    <3>1. Flushed(client'[d]) = client'[d].sent - Len(client'[d].buf)
      BY DEF Flushed
    <3>2. 0 - 0 = 0
      OBVIOUS
    <3> QED
      BY <2>1, <2>2, <3>1, <3>2
  <2>3. Follows(client'[d].buf, 0)
    BY <2>2 DEF Follows
  <2> QED
    BY <2>1, <2>2, <2>3, <2>4, HoldsNothing DEF Kept
<1>3. CASE d # c
  BY <1>1, <1>3 DEF UploadsKept
<1> QED
  BY <1>2, <1>3

\* A piece goes to the end of the stream, and with all that is there to the
\* end of the file.
LEMMA ReadBodyKept ==
    ASSUME UploadsKept, TypeOK, Sending, NEW c \in Clients, ReadBody(c)
    PROVE  UploadsKept'
<1> DEFINE n == client[c].sent + 1
           held == Append(client[c].buf, n)
           r == client[c]
           m == Flushed(client[c])
<1>1. PICK flush \in BOOLEAN :
          /\ n = Pieces => flush
          /\ file' = [file EXCEPT ![c] = IF flush THEN @ \o held ELSE @]
          /\ client' = [client EXCEPT
                 ![c].sent = n,
                 ![c].buf = IF flush THEN <<>> ELSE held,
                 ![c].job = IF n = Pieces THEN "stored" ELSE "upload"]
  BY DEF ReadBody
<1>2. /\ r \in ClientType /\ r.job = "upload" /\ r.sent < Pieces
      /\ file \in [Clients -> Seq(1..Pieces)]
      /\ client \in [Clients -> ClientType]
  BY DEF ReadBody, TypeOK, Sending
<1>3. /\ r.sent \in Nat /\ r.buf \in Seq(1..Pieces) /\ n \in 1..Pieces
      /\ Pieces \in Nat /\ Len(r.buf) \in Nat
  BY <1>2, ChildrenAssumption DEF ClientType
<1>4. /\ Len(r.buf) <= r.sent /\ Holds(file[c], m) /\ Follows(r.buf, m)
      /\ m \in Nat /\ m + Len(r.buf) = r.sent
  <2>1. Kept(r, file[c])
    BY DEF UploadsKept
  <2>2. Len(r.buf) <= r.sent /\ Holds(file[c], m) /\ Follows(r.buf, m)
    BY <1>2, <2>1 DEF Kept
  <2>3. m = r.sent - Len(r.buf)
    BY DEF Flushed
  <2> QED
    BY <1>3, <2>2, <2>3
<1>5. /\ held \in Seq(1..Pieces) /\ Len(held) = Len(r.buf) + 1
      /\ \A i \in 1..Len(r.buf) : held[i] = r.buf[i]
      /\ held[Len(r.buf) + 1] = n
  BY <1>3
<1> HIDE DEF m, held
<1>6. Follows(held, m)
  <2> SUFFICES ASSUME NEW i \in 1..Len(held)
               PROVE  held[i] = m + i
    BY DEF Follows
  <2>1. CASE i \in 1..Len(r.buf)
    BY <1>4, <1>5, <2>1 DEF Follows
  <2>2. CASE i = Len(r.buf) + 1
    BY <1>3, <1>4, <1>5, <2>2
  <2>3. i \in 1..(Len(r.buf) + 1)
    BY <1>5
  <2>4. i \in 1..Len(r.buf) \/ i = Len(r.buf) + 1
    BY <1>3, <2>3
  <2> QED
    BY <2>1, <2>2, <2>4
<1> SUFFICES ASSUME NEW d \in Clients
             PROVE  Kept(client'[d], file'[d])
  BY DEF UploadsKept
<1>7. CASE d # c
  BY <1>1, <1>2, <1>7 DEF UploadsKept
<1>8. CASE d = c
  <2>1. /\ client'[c].sent = n
        /\ client'[c].buf = IF flush THEN <<>> ELSE held
        /\ client'[c].job = IF n = Pieces THEN "stored" ELSE "upload"
        /\ file'[c] = IF flush THEN file[c] \o held ELSE file[c]
    BY <1>1, <1>2 DEF ClientType
  <2>2. CASE flush
    <3>1. Holds(file[c] \o held, m + Len(held))
      BY <1>2, <1>4, <1>5, <1>6, HoldsMore
    <3>2. m + Len(held) = n
      BY <1>3, <1>4, <1>5
    <3>3. /\ client'[c].buf = <<>> /\ Len(client'[c].buf) = 0
          /\ Flushed(client'[c]) = n
      BY <1>3, <2>1, <2>2 DEF Flushed
    <3>4. Follows(client'[c].buf, n)
      BY <3>3 DEF Follows
    <3> QED
      BY <1>3, <1>8, <2>1, <2>2, <3>1, <3>2, <3>3, <3>4 DEF Kept
  <2>3. CASE ~flush
    <3>1. /\ client'[c].buf = held /\ client'[c].job = "upload"
          /\ file'[c] = file[c]
      BY <1>1, <2>1, <2>3
    <3>2. Flushed(client'[c]) = n - Len(held)
      BY <2>1, <3>1 DEF Flushed
    <3>3. n - Len(held) = m /\ Len(held) <= n
      <4>1. \A a, b, e \in Nat : b + e = a => /\ (a + 1) - (e + 1) = b
                                              /\ e + 1 <= a + 1
        OBVIOUS
      <4>2. Len(held) = Len(r.buf) + 1
        BY <1>5
      <4> QED
        BY <1>3, <1>4, <4>1, <4>2
    <3> QED
      BY <1>4, <1>6, <1>8, <2>1, <3>1, <3>2, <3>3 DEF Kept
  <2> QED
    BY <2>2, <2>3
<1> QED
  BY <1>7, <1>8

\* Every step keeps the uploads.
LEMMA NextKept ==
    ASSUME ChildrenInv, UploadsKept, [Next]_vars
    PROVE  UploadsKept'
<1>1. TypeOK /\ Sending
  BY DEF ChildrenInv
<1>2. ASSUME client' = client, file' = file
      PROVE  UploadsKept'
  BY <1>2 DEF UploadsKept
<1>3. ASSUME NEW c \in Clients,
             StartUpload(c) \/ ReadBody(c) \/ Launch(c) \/ ForkFails(c)
               \/ CheckEnd(c) \/ Terminate(c)
      PROVE  UploadsKept'
  <2>1. Idle.job = "idle"
    BY IdleType
  <2>2. CASE StartUpload(c)
    BY <1>1, <2>2, StartUploadKept
  <2>3. CASE ReadBody(c)
    BY <1>1, <2>3, ReadBodyKept
  <2>4. CASE Launch(c)
    <3>1. PICK p \in Pids :
            client' = [client EXCEPT ![c] =
                [Idle EXCEPT !.job = "script", !.pid = p, !.body = client[c].body]]
      BY <2>4 DEF Launch
    <3>2. [Idle EXCEPT !.job = "script", !.pid = p, !.body = client[c].body].job = "script"
      BY DEF Idle
    <3>3. \A d \in Clients \ {c} : file'[d] = file[d]
      BY <1>1, <2>4 DEF Launch, TypeOK
    <3> QED
      BY <1>1, <3>1, <3>2, <3>3, KeptOthers
  <2>5. CASE ForkFails(c)
    <3>1. /\ client' = [client EXCEPT ![c] = Idle]
          /\ \A d \in Clients \ {c} : file'[d] = file[d]
      BY <1>1, <2>5 DEF ForkFails, TypeOK
    <3> QED
      BY <1>1, <2>1, <3>1, KeptOthers
  <2>6. CASE CheckEnd(c)
    <3>1. client' = [client EXCEPT ![c] = Idle] /\ file' = file
      BY <2>6 DEF CheckEnd
    <3> QED
      BY <1>1, <2>1, <3>1, KeptOthers
  <2>7. CASE Terminate(c)
    <3>1. /\ client' = [client EXCEPT ![c] = Idle]
          /\ \A d \in Clients \ {c} : file'[d] = file[d]
      BY <1>1, <2>7 DEF Terminate, TypeOK
    <3> QED
      BY <1>1, <2>1, <3>1, KeptOthers
  <2> QED
    BY <1>3, <2>2, <2>3, <2>4, <2>5, <2>6, <2>7
<1>4. ASSUME NEW p \in Pids, NEW c \in Clients, ChildTerminates(p, c)
      PROVE  UploadsKept'
  <2>1. /\ file' = [file EXCEPT ![c] = @ \o proc[p].copy[c].buf]
        /\ \/ client' = [client EXCEPT ![c].body = "removed"]
           \/ client' = client
        /\ client \in [Clients -> ClientType] /\ DOMAIN file = Clients
    BY <1>1, <1>4 DEF ChildTerminates, TypeOK
  <2>4. \A d \in Clients : AlikeBut(client'[d], client[d])
    <3> DEFINE cs == [client EXCEPT ![c].body = "removed"]
    <3>1. cs \in [Clients -> ClientType] /\ \A d \in Clients : AlikeBut(cs[d], client[d])
      BY <2>1, BodyRemoved
    <3> HIDE DEF cs
    <3>2. client' = cs \/ client' = client
      BY <2>1 DEF cs
    <3>3. \A d \in Clients : AlikeBut(client[d], client[d])
      BY DEF AlikeBut
    <3> QED
      BY <2>1, <3>1, <3>2, <3>3
  <2>2. proc[p].copy[c].buf \in Seq(1..Pieces)
    BY <1>1 DEF TypeOK, ProcType, CopyType
  <2>3. \A d \in Clients : \E g \in Seq(1..Pieces) : file'[d] = file[d] \o g
    BY <1>1, <2>1, <2>2, FileKept
  <2> QED
    BY <1>1, <2>3, <2>4, KeptStep
<1>5. ASSUME NEW p \in Pids, ChildStep(p) \/ ScriptEnds(p) \/ TimeOut(p)
      PROVE  UploadsKept'
  BY <1>2, <1>4, <1>5
     DEF ChildStep, ScriptEnds, TimeOut, ChildExec, ChildFails, ChildExits
<1> QED
  BY <1>2, <1>3, <1>5 DEF Next, vars

\* However children fail and whatever they flush, a stored upload that none of
\* them has removed holds every piece in order, for any number of clients, pids
\* and pieces.
THEOREM NothingLostAlways == Spec => []NothingLost
<1>1. Init => UploadsKept
  <2> SUFFICES ASSUME Init PROVE UploadsKept
    OBVIOUS
  <2> QED
    BY IdleType DEF Init, UploadsKept, Kept
<1>2. ChildrenInv /\ UploadsKept /\ [Next]_vars => UploadsKept'
  BY NextKept
<1>3. ChildrenInv /\ UploadsKept => NothingLost
  <2> SUFFICES ASSUME ChildrenInv, UploadsKept, NEW c \in Clients,
                      client[c].job = "stored"
               PROVE  Holds(file[c], Pieces)
    BY DEF NothingLost, Holds
  <2>1. Kept(client[c], file[c]) /\ Pieces \in Nat
    BY ChildrenAssumption DEF UploadsKept
  <2>2. client[c].buf = <<>> /\ client[c].sent = Pieces
    BY <2>1 DEF Kept
  <2>3. Flushed(client[c]) = Pieces
    BY <2>1, <2>2 DEF Flushed
  <2> QED
    BY <2>1, <2>3 DEF Kept
<1> QED
  BY <1>1, <1>2, <1>3, ChildrenInvariant, PTL DEF Spec
=============================================================================
