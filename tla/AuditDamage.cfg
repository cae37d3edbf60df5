SPECIFICATION DamageSpec
CONSTANTS
    Workers = {w1, w2}
    Entries = {x, y}
    RowLocks = TRUE
    MaxSeq = 4
    NoOne = NoOne
INVARIANTS
    DamageFound
