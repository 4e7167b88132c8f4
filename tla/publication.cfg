\* Two transactions over three versions of one tool that call two upstreams.
SPECIFICATION FairSpec
CONSTANTS
    o1 = o1
    o2 = o2
    o3 = o3
    n1 = n1
    n2 = n2
    u1 = u1
    u2 = u2
    None = None
    Txns = {t1, t2}
    Ops = {o1, o2, o3}
    Tools = {n1, n2}
    Upstreams = {u1, u2}
    ToolOf <- OneTool
    UpstreamOf <- TwoUpstreams
    Commands <- AllCommands
    Faults = TRUE
INVARIANTS
    TypeOK
    OfferIsSound
    LockingIsSound
PROPERTIES
    HistoryIsSound
    EveryCommandEnds
