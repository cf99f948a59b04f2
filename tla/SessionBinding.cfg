\* One session that moves between two hosts on one DSH home, and the orphan cleanup.
CONSTANTS
    Sessions = {s1}
    Networks = {n1, n2}
    Hosts = {h1, h2}
    NULL = NULL
    Originals = {s1}
    MaxEvents = 2
    MaxPending = 2
    Aging = {s1}
    OrderlyRelease = TRUE
SPECIFICATION Spec
CHECK_DEADLOCK FALSE
INVARIANTS
    TypeOK
    ToldIsKept
    MountedIsDurable
PROPERTIES
    ImplementsImmutableBinding
