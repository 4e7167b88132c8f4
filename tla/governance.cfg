SPECIFICATION Spec
CONSTANTS
    Calls = {c1, c2, c3}
    None = None
    Requests <- ApprovalRequests
    MaxAttempts = 1
    ApprovalTtl = 1
    MaxTime = 2
    Faults = {"cancel"}
INVARIANTS
    ApprovalSpentOnce
    RanAsApproved
    AuditMatchesState
PROPERTY
    ImplementsGovernance
SYMMETRY Symmetry
