SPECIFICATION Spec
CONSTANTS
    c1 = c1
    c2 = c2
    s1 = s1
    s2 = s2
    Clients = {c1, c2}
    Stoppers = {}
    Keys = {k1}
    Vals = {v1}
    None = None
    ListenQ = 2
    MaxDepth = 2
    MaxOps = 1
    Faults = {"kill", "signal", "nomem"}
SYMMETRY Symm
INVARIANTS LockAgreement TypeOK HashExclusive ResponseMatches AnswerStillTrue OrderlyCloseFreesLock SigpipeNeedsTwoAnswers
PROPERTIES OnlyOwnerWrites
CHECK_DEADLOCK FALSE
