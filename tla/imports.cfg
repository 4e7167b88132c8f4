\* One import of every document, while two administrators register and update
\* two upstreams under one name, with every failure and the reset.
SPECIFICATION FairSpec
CONSTANTS
    u1 = u1
    u2 = u2
    j1 = j1
    a1 = a1
    a2 = a2
    Documents <- MCDocuments
    Content <- MCContent
    Allowlists <- MCAllowlists
    MaxRefDepth = 4
    AllowedHosts = {"api", "localhost", "literal_other_loopback"}
    AllowLocalDemo = TRUE
    Upstreams = {u1, u2}
    Names = {"n"}
    Jobs = {j1}
    Admins = {a1, a2}
    Requested <- MCRequested
    Faults = TRUE
INVARIANTS
    TypeOK
    ImportsTellTruth
    AcceptedIsSafe
PROPERTIES
    NothingComesBack
    ImportsEnd
