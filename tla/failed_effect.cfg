SPECIFICATION Spec
CONSTANTS
    Calls = {c1, c2}
    None = None
    Requests <- CallRequests
    MaxAttempts = 2
    ApprovalTtl = 1
    MaxTime = 2
    Faults = {"cancel"}
INVARIANT
    FailedHadNoEffect
