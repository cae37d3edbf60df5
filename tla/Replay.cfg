SPECIFICATION Spec
CONSTANTS
    Ids <- MCIds
    Links <- MCLinks
    MaxEdges = 4
    Entities = {"acct"}
    Roots = {2}
    Suspects = {3}
INVARIANTS
    PathShortest
    CorrectedInputs
    
PROPERTIES
    Answered
CHECK_DEADLOCK FALSE
