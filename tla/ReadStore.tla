----------------------------- MODULE ReadStore -----------------------------
(***************************************************************************)
(* The committed state that the reading side of the gateway sees, and the  *)
(* transactions that change it while a request is being answered: a        *)
(* version is published, embedded, a toolset or an upstream is changed, a  *)
(* row is written, the demonstration is reset.  How those transactions     *)
(* come about is the subject of CatalogPublish, ReindexJobs, ToolsetAdmin  *)
(* and OpenApiImports; here each is the one step that a reader may see.    *)
(***************************************************************************)
EXTENDS Naturals, FiniteSets

CONSTANTS
    Tools,        \* the tools, by their canonical names
    Versions,     \* their versions
    ToolOf,       \* the tool of every version
    Rows,         \* the rows that the table of a paged list may have
    MemberSets,   \* the members a toolset may be given
    MaxWrites     \* transactions per behaviour

ASSUME VersionsAssumption == Versions \subseteq Nat /\ IsFiniteSet(Versions)
ASSUME TablesAssumption == IsFiniteSet(Rows) /\ MaxWrites \in Nat
ASSUME ToolOfAssumption == ToolOf \in [Versions -> Tools]
ASSUME MemberSetsAssumption == MemberSets \subseteq SUBSET Tools

VARIABLES
    status,    \* of every version, and with it of its binding
    embedded,  \* the versions with an embedding of the configured model
    usable,    \* the tools whose upstream is active
    toolset,   \* the explicit toolset that requests are scoped to
    rootAll,   \* whether the caller is granted the toolset of all published
    approval,  \* the approval request of the caller
    rows,      \* the rows of the listed table, each with its status
    writes,    \* transactions so far
    quiet,     \* requests begun since the last transaction, up to two
    watch      \* what has held, and what has once held, in this request

tableVars == <<status, embedded, usable, toolset, rootAll, approval, rows>>
storeVars == <<tableVars, writes, quiet, watch>>

Scopes == {"root", "toolset"}
ToolsetStatuses == {"absent", "draft", "active", "disabled"}
NoApproval == [status |-> "none"]

Published == {v \in Versions : status[v] = "published"}

\* What the caller's active toolsets give it at an endpoint.
Granted(scope) ==
    (IF toolset.status = "active" /\ toolset.granted
     THEN toolset.members ELSE {})
    \union (IF scope = "root" /\ rootAll THEN Tools ELSE {})

\* A request begins: what it may rely on is what holds now.
Watch ==
    [published |-> Published, ever_published |-> Published,
     granted |-> [s \in Scopes |-> Granted(s)],
     ever_granted |-> [s \in Scopes |-> Granted(s)],
     embedded |-> embedded, rows |-> rows, reset |-> FALSE]

\* A transaction: the request in progress can rely on less, and may have
\* seen more.
Committed ==
    /\ writes < MaxWrites
    /\ writes' = writes + 1
    /\ quiet' = 0
    /\ watch' =
          [watch EXCEPT
             !.published = @ \intersect Published',
             !.ever_published = @ \union Published',
             !.granted = [s \in Scopes |-> @[s] \intersect Granted(s)'],
             !.ever_granted = [s \in Scopes |-> @[s] \union Granted(s)'],
             !.embedded = @ \intersect embedded']

-----------------------------------------------------------------------------
\* The publication of a version whose upstream is active retires the one that
\* was published, which is older.
Publish(v) ==
    /\ status[v] = "draft"
    /\ ToolOf[v] \in usable
    /\ \A w \in Published : ToolOf[w] = ToolOf[v] => w < v
    /\ status' = [w \in Versions |->
                     IF w = v THEN "published"
                     ELSE IF ToolOf[w] = ToolOf[v] /\ status[w] = "published"
                     THEN "retired" ELSE status[w]]
    /\ UNCHANGED <<embedded, usable, toolset, rootAll, approval, rows>>
    /\ Committed

\* A batch of a reindex job; the row stays when its version is retired.
Index(v) ==
    /\ status[v] \in {"published", "retired"}
    /\ v \notin embedded
    /\ embedded' = embedded \union {v}
    /\ UNCHANGED <<status, usable, toolset, rootAll, approval, rows>>
    /\ Committed

DisableUpstream(t) ==
    /\ t \in usable
    /\ usable' = usable \ {t}
    /\ UNCHANGED <<status, embedded, toolset, rootAll, approval, rows>>
    /\ Committed

\* An active toolset has members, all of them published when it gets them.
WriteToolset(row) ==
    /\ toolset.status # "absent"
    /\ row # toolset
    /\ row.status = "active" /\ row.members # toolset.members =>
          /\ row.members # {}
          /\ \A t \in row.members : \E v \in Published : ToolOf[v] = t
    /\ toolset' = row
    /\ UNCHANGED <<status, embedded, usable, rootAll, approval, rows>>
    /\ Committed

ReplaceMembers(members) == WriteToolset([toolset EXCEPT !.members = members])
ReplaceGrants == WriteToolset([toolset EXCEPT !.granted = ~@])
DisableToolset == WriteToolset([toolset EXCEPT !.status = "disabled"])

\* A row of the listed table is written, at whatever place in its order, or
\* its status changes.
InsertRow(r) ==
    /\ r \notin DOMAIN rows
    /\ rows' = [q \in DOMAIN rows \union {r} |->
                   IF q = r THEN "open" ELSE rows[q]]
    /\ UNCHANGED <<status, embedded, usable, toolset, rootAll, approval>>
    /\ Committed

UpdateRow(r) ==
    /\ r \in DOMAIN rows
    /\ rows[r] = "open"
    /\ rows' = [rows EXCEPT ![r] = "closed"]
    /\ UNCHANGED <<status, embedded, usable, toolset, rootAll, approval>>
    /\ Committed

\* DecideApproval.execute, within the approval's time.
Decided(accepted) == IF accepted THEN "approved" ELSE "rejected"

\* An administrator decides.
DecideApproval(accepted) ==
    /\ approval.status = "pending"
    /\ approval' = [approval EXCEPT !.status = Decided(accepted)]
    /\ UNCHANGED <<status, embedded, usable, toolset, rootAll, rows>>
    /\ Committed

\* The reset of the demonstration deletes the tenant's data in one
\* transaction; the toolset of all published tools, which is put back
\* afterwards, then gives nothing.
Reset ==
    /\ status' = [v \in Versions |-> "absent"]
    /\ embedded' = {}
    /\ usable' = {}
    /\ toolset' = [toolset EXCEPT !.status = "absent"]
    /\ rootAll' = FALSE
    /\ approval' = NoApproval
    /\ rows' = [q \in {} |-> "open"]
    /\ writes < MaxWrites
    /\ writes' = writes + 1
    /\ quiet' = 0
    /\ watch' = [watch EXCEPT !.published = {}, !.embedded = {},
                              !.granted = [s \in Scopes |-> {}],
                              !.reset = TRUE]

Store ==
    \/ \E v \in Versions : Publish(v) \/ Index(v)
    \/ \E t \in Tools : DisableUpstream(t)
    \/ \E members \in MemberSets : ReplaceMembers(members)
    \/ ReplaceGrants \/ DisableToolset
    \/ \E r \in Rows : InsertRow(r) \/ UpdateRow(r)
    \/ \E accepted \in BOOLEAN : DecideApproval(accepted)
    \/ Reset

\* A request begins.
BeginReading ==
    /\ watch' = Watch
    /\ quiet' = IF quiet < 2 THEN quiet + 1 ELSE quiet
    /\ UNCHANGED <<tableVars, writes>>

StoreTypeOK ==
    /\ status \in [Versions -> {"absent", "draft", "published", "retired"}]
    /\ embedded \subseteq Versions
    /\ usable \subseteq Tools
    /\ toolset.status \in ToolsetStatuses
    /\ toolset.members \subseteq Tools
    /\ toolset.granted \in BOOLEAN
    /\ rootAll \in BOOLEAN
    /\ approval.status \in {"none", "pending", "approved", "rejected",
                            "consumed"}
    /\ DOMAIN rows \subseteq Rows
    /\ writes \in 0..MaxWrites
    /\ quiet \in 0..2
    /\ \A t \in Tools :
          Cardinality({v \in Published : ToolOf[v] = t}) <= 1
=============================================================================
