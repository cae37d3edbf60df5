SPECIFICATION Spec
CONSTANTS
    Operators = {o1, o2}
    Proposers = {o1}
    Nodes <- MCNodes
    StartNodes <- MCStartNodes
    StartEdges <- MCStartEdges
    Agent <- MCAgent
    Ts <- MCTs
    SavedTs <- MCTs
    Targets = {"a"}
    Isolable = {"a"}
    RowLocks = TRUE
    MaxActions = 3
    MaxCrashes = 1
    MaxPrunes = 1
    Absent = Absent
CHECK_DEADLOCK FALSE
INVARIANTS
    AuditMatchesStatus
    QuarantineHolds
    ContainmentLoggedUnlessCrash
PROPERTIES
    LifecycleSpec
