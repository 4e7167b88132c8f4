\* Two processes of a new release start against a system toolset the old
\* release made, with nobody else at work.
SPECIFICATION Spec
CONSTANTS
    i1 = i1
    i2 = i2
    t1 = t1
    t2 = t2
    c1 = c1
    c2 = c2
    Clients = {c1, c2}
    Unseen = {}
    Roles = {"start"}
    Ids = {i1, i2}
    Slugs = {"all-published", "team"}
    Tools = {t1, t2}
    Principals = {"agent", "other"}
    MemberSets = {}
    GrantSets = {}
    Requester = "agent"
    Visible = {t1, t2}
    ServicePrincipals = {"agent"}
    Upgrade = TRUE
    Resets = FALSE
    MaxRevisions = 6
INVARIANT
    StartsConverge
