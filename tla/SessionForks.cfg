\* A session and its fork on one host.
CONSTANTS
    Sessions = {s1, s2}
    Networks = {n1, n2}
    Hosts = {h1}
    NULL = NULL
    Originals = {s1}
    MaxEvents = 2
    MaxPending = 1
    Aging = {}
    OrderlyRelease = TRUE
SPECIFICATION Spec
CHECK_DEADLOCK FALSE
SYMMETRY SymmetricNetworks
INVARIANTS
    ToldIsKept
    OneNetworkUnlessUnrestored
