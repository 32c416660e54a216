SPECIFICATION SharedSpec
CONSTANTS
    Reader = {r1, r2}
    Writer = {w1}
    Triple = {t1, t2}
    Pages <- MCPages
    MaxDepth = 2
    MaxIterations = 3
    Loading = {c1, c2, c3}
    NoEntry = NoEntry
    MaxLoads = 5
    MaxAdds = 1
    ex = ex
    ns1 = ns1
    ns2 = ns2
    ns3 = ns3
    Caller = {c1, c2}
    Prefix = {ex, ns1, ns2, ns3}
    UserPrefix = {ex, ns1}
    Generated <- MCGenerated
    Namespace = {n1, n2}
    None = None
    MaxCalls = 4
    p1 = p1
    p2 = p2
    Proc = {p1, p2, p3}
INVARIANTS
    IterationsExact SingleFetch NothingStale NamesAreBound
    TypeOK Accounting MutualExclusion NoLostWakeup
PROPERTIES
    GeneratedNeverSteals WaitersReturn WaitsEnd Implements EveryRequestDecided
