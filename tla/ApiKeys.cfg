SPECIFICATION FairSpec
CONSTANTS
    Procs = {p1, p2}
    Keys = {b, k}
    Boot = b
    Absent = Absent
    NoKey = NoKey
    MaxDeaths = 2
    MaxScripts = 1
INVARIANTS
    ReadyToServe
    RotatedStays
    
PROPERTIES
    EveryProcessServes
