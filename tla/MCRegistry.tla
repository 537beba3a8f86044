----------------------------- MODULE MCRegistry -----------------------------
(* Two hosts that share a port, as in conf/default.conf, and one of them on a
   port of its own. *)
EXTENDS Registry

CONSTANTS c1, c2, c3

TwoServers == {"own", "common"}
TwoHosts == {1, 2}

\* 4 is a name that no host has.
FourNames == 1..4
NamesOfHosts == [h \in TwoHosts |-> IF h = 1 THEN {2} ELSE {1, 3}]
ServersOfHosts ==
    [h \in TwoHosts |-> IF h = 1 THEN {"own", "common"} ELSE {"common"}]

AllCommands == CommandTypes
ServerCommands == {"all", "server"}

ThreeClients == {c1, c2, c3}
ClientSymmetry == Permutations(ThreeClients)
=============================================================================
