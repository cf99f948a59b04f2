\* One host whose session may be closed and reopened while decisions are under way.
CONSTANTS
    Sessions = {s1}
    Networks = {n1, n2}
    Hosts = {h1}
    NULL = NULL
    Originals = {s1}
    MaxEvents = 1
    MaxPending = 2
    Aging = {s1}
    OrderlyRelease = FALSE
SPECIFICATION FairSpec
CHECK_DEADLOCK FALSE
INVARIANTS
    ToldIsKept
PROPERTIES
    RestorationEnds
