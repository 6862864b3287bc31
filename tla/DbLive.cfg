SPECIFICATION FairSpec
CONSTANTS
    c1 = c1
    c2 = c2
    s1 = s1
    s2 = s2
    Clients = {c1}
    Stoppers = {s1, s2}
    Keys = {k1}
    Vals = {v1}
    None = None
    ListenQ = 1
    MaxDepth = 1
    MaxOps = 1
    Faults = {}
PROPERTIES CriticalSectionEnds ShutdownCompletes
CHECK_DEADLOCK FALSE
