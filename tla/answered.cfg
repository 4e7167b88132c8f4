SPECIFICATION FairSpec
CONSTANTS
    Calls = {c1, c2}
    None = None
    Requests <- LiveRequests
    MaxAttempts = 2
    ApprovalTtl = 1
    MaxTime = 0
    Faults = {"cancel", "database", "crash"}
PROPERTY
    EveryCallAnswered
    EveryExecutionSettles
