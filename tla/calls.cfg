\* Two calls through two attempts with every fault: one key shared, or a write
\* that must not be repeated.
SPECIFICATION Spec
CONSTANTS
    Calls = {c1, c2}
    None = None
    Requests <- CallRequests
    MaxAttempts = 2
    ApprovalTtl = 1
    MaxTime = 0
    Faults = {"crash", "cancel", "database"}
SYMMETRY Symmetry
INVARIANTS
    TypeOK
    OneIntentPerKey
    CompletedIsTrue
    AttemptsTellTruth
    NoBlindResend
PROPERTY
    TerminalIsFinal
