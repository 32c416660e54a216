SPECIFICATION Spec
CONSTANTS
    g1 = g1
    f1 = f1
    t1 = t1
    t2 = t2
    Proc = {r1, r2}
    Default = default
    Triple = {t1, t2}
    Graph = {g1, f1}
    Fresh = {f1}
    Requests <- MCRequests
    MaxRequests = 3
    MaxFaults = 1
    Backends = {"store", "map"}
SYMMETRY Sym
INVARIANTS TypeOK AnswersOneState WritesIsolated WriteExact NoHiddenTriples
