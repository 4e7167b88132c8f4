SPECIFICATION Spec
CONSTANTS
    i1 = i1
    i2 = i2
    t1 = t1
    t2 = t2
    c1 = c1
    c2 = c2
    Clients = {c1}
    Unseen = {"u"}
    Roles = {"admin", "start", "scoped", "root"}
    Ids = {i1, i2}
    Slugs = {"all-published", "team"}
    Tools = {t1, t2}
    Principals = {"agent", "other"}
    MemberSets = {{t1}, {t2}}
    GrantSets = {{"agent"}, {"other"}}
    Requester = "agent"
    Visible = {t1, t2}
    ServicePrincipals = {"agent"}
    Upgrade = FALSE
    Resets = TRUE
    MaxRevisions = 6
SYMMETRY Symmetry
INVARIANTS
    TypeOK
    ToolsetsAreSound
    AccessWasOffered
PROPERTIES
    EditsAreKept
