SPECIFICATION Spec
CONSTANTS
    c1 = c1
    c2 = c2
    c3 = c3
    Servers <- TwoServers
    Hosts <- TwoHosts
    Names <- FourNames
    HostNames <- NamesOfHosts
    HostServers <- ServersOfHosts
    Clients <- ThreeClients
    MaxClientNbr = 2
    MaxBatch = 1
    Commands <- ServerCommands
SYMMETRY ClientSymmetry
INVARIANTS
    NeverUndefined
    ClientsServed
    CountedOnce
\* The server stops when its last listening socket is gone.
CHECK_DEADLOCK FALSE
