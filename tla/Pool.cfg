SPECIFICATION FairSpec
CONSTANTS
    Threads = {t1, t2}
    Conns = {c1, c2, c3}
    Actions = {a1, a2}
    MaxCalls = 2
    None = None
INVARIANTS
    NotStuck
    

    
