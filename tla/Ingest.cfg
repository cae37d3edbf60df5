SPECIFICATION FairSpec
CONSTANTS
    Spans <- MCSpans
    Inputs <- MCInputs
    Text <- MCText
    Foreign <- MCForeign
    Ts <- MCTs
    Sampled = {"p", "c"}
    Denied = {"p"}
    Outcomes = {"watch", "flagged"}
    Anomalies = {TRUE}
    Workers = {"w1", "w2"}
    Processes = {"A", "B"}
    Process <- MCProcess
    CacheSize = 1
    Requests <- MCTwoBatches
    Overlap = FALSE
    MaxSends = 2
    MaxFailures = 1
    Absent = Absent
CHECK_DEADLOCK FALSE
INVARIANTS
    EarlierInputsLinked
    ProposalExplained
    FlaggedProposed
    DetectedOnce
    LedgerMatches
PROPERTIES
    ProposalFollows
