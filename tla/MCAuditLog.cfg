\* PostgreSQL: FOR UPDATE locks the head row
SPECIFICATION Spec
CONSTANTS
    Workers = {w1, w2}
    Entries = {x, y}
    RowLocks = TRUE
    MaxSeq = 5
    NoOne = NoOne
INVARIANTS
    ChainIntact
    HeadAgrees
    QuietVerdictValid
PROPERTIES
    AppendOnly
    TrailSpec
