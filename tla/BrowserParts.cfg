CONSTANTS
    Panels = {p1, p2}
    Versions = {v1, v2}
    Absent = Absent
    MaxChecks = 2
    MaxOwners = 3
    MaxPorts = 2
    Addresses = {a1, a2}
    Unselected = Unselected
    Subjects = {cli1, list1}
    Cli = cli1
    Operations = {c1, c2}
    Loads = 2
    BufferLimit = 1
    MaxApplied = 3
    MaxChunks = 3
    MembershipPages = 2
    MaxScenes = 1
    MaxEvents = 2
    MaxFaults = 2
SPECIFICATION MCSpec
CHECK_DEADLOCK FALSE
INVARIANTS
    NpmRunsAloneOnNothing
    ReadyIsCurrent
    ReportsThePlatformAsked
    WholeInItsScene
PROPERTIES
    PanelLearnsTheEnd
    ComesToRest
