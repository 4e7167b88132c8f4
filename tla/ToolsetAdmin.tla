---------------------------- MODULE ToolsetAdmin ----------------------------
(***************************************************************************)
(* Toolsets: the aggregates (a row with its members and its grants) that   *)
(* administrators edit under an expected revision, the system toolset that *)
(* every process makes sure of when it starts, and the access an MCP       *)
(* request resolves from them.                                             *)
(*                                                                         *)
(* A command holds the lock of the toolset's row from its first statement  *)
(* to its commit, and what it reads of the catalog only grows while it     *)
(* runs, so it is one step.  A load without a lock is three statements at  *)
(* READ COMMITTED: the row, the members, the grants; commits of others     *)
(* come between them.                                                      *)
(*                                                                         *)
(* A client is a task that loads toolsets: a start, a request, or an       *)
(* administrator who looks at a toolset and then sends a command.  Unseen  *)
(* administrators send commands at any time; as one with an old revision   *)
(* is refused, each that matters has the current one.                      *)
(***************************************************************************)
EXTENDS Integers, FiniteSets, FiniteSetsExt

CONSTANTS
    Clients, Unseen,
    Roles,               \* what a client may be
    Ids,                 \* ids for toolsets
    Slugs,               \* the slugs asked for
    Tools, Principals,
    MemberSets, GrantSets,   \* what administrators ask for
    Requester,           \* the principal of the MCP requests
    Visible,             \* the tools with is_visible_to(Requester)
    ServicePrincipals,   \* whom this deployment grants the system toolset
    Upgrade,             \* whether an earlier deployment made that toolset
    Resets,              \* whether this is a demo, which may be reset
    MaxRevisions         \* bound: revisions of all toolsets together

Reserved == "all-published"

ASSUME ClientAssumption ==
    /\ Clients \intersect Unseen = {}
    /\ Roles \subseteq {"admin", "start", "scoped", "root"}
ASSUME DataAssumption ==
    /\ Reserved \in Slugs
    /\ Requester \in Principals
    /\ MemberSets \subseteq SUBSET Tools
    /\ GrantSets \subseteq SUBSET Principals
    /\ Visible \subseteq Tools
    /\ ServicePrincipals \subseteq Principals
    /\ Upgrade \in BOOLEAN /\ Resets \in BOOLEAN
    /\ MaxRevisions \in Nat

VARIABLES
    \* the database
    toolsets,   \* id -> the committed aggregate
    catalog,    \* tool -> its status in the catalog
    \* the clients
    role,
    pc,
    seen,       \* client -> id -> what it has read of that toolset
    reply,      \* client -> what its request is told, and the tools it gets
    \* history
    offers      \* client -> what its toolsets offered while it read them

dbVars == <<toolsets, catalog>>
vars == <<dbVars, role, pc, seen, reply, offers>>

Kinds == {"explicit", "all_published"}
Statuses == {"draft", "active", "disabled"}
Modes == {"direct", "search_first"}
NoRow ==
    [status |-> "none", kind |-> "explicit", slug |-> Reserved,
     mode |-> "direct", revision |-> 0, members |-> {}, grants |-> {}]
Toolsets ==
    [status: Statuses, kind: Kinds, slug: Slugs, mode: Modes,
     revision: Nat \ {0}, members: SUBSET Tools, grants: SUBSET Principals]
Labels ==
    {"idle", "load", "shown", "list", "insert", "reread", "save", "done",
     "failed"}
Outcomes ==
    {"none", "not_found", "not_active", "denied", "error", "served"}
NoReply == [outcome |-> "none", tools |-> {}]

TypeOK ==
    /\ toolsets \in [Ids -> Toolsets \union {NoRow}]
    /\ catalog \in [Tools -> {"draft", "available", "gone"}]
    /\ role \in [Clients -> Roles \union {"none"}]
    /\ pc \in [Clients -> Labels]
    /\ \A c \in Clients : \A i \in DOMAIN seen[c] :
          /\ i \in Ids
          /\ seen[c][i].row \in Toolsets
          /\ seen[c][i].members \subseteq Tools
          /\ seen[c][i].grants \subseteq Principals
          /\ seen[c][i].next \in {"members", "grants", "none"}
    /\ reply \in [Clients -> [outcome: Outcomes, tools: SUBSET Tools]]
    /\ offers \in [Clients ->
          SUBSET [id: Ids, members: SUBSET Tools, granted: BOOLEAN]]

Existing == {i \in Ids : toolsets[i].status \in Statuses}
SystemToolsets == {i \in Existing : toolsets[i].kind = "all_published"}
Available == {t \in Tools : catalog[t] = "available"}

\* create_all_published, and the grants added before the insert.
SystemToolset(grants) ==
    [status |-> "active", kind |-> "all_published", slug |-> Reserved,
     mode |-> "search_first", revision |-> IF grants = {} THEN 1 ELSE 2,
     members |-> {}, grants |-> grants]

Init ==
    /\ IF Upgrade
       THEN \E i \in Ids :
              toolsets = [j \in Ids |->
                             IF j = i THEN SystemToolset({}) ELSE NoRow]
       ELSE toolsets = [i \in Ids |-> NoRow]
    /\ catalog = [t \in Tools |-> "draft"]
    /\ role = [c \in Clients |-> "none"]
    /\ pc = [c \in Clients |-> "idle"]
    /\ seen = [c \in Clients |-> <<>>]
    /\ reply = [c \in Clients |-> NoReply]
    /\ offers = [c \in Clients |-> {}]

Goto(c, label) == pc' = [pc EXCEPT ![c] = label]

\* What an active toolset offers to the requests.
Offer(i, row) ==
    IF row.status # "active" THEN {}
    ELSE {[id |-> i, members |-> row.members,
           granted |-> Requester \in row.grants]}

\* A committed write of one toolset.
Write(i, row) ==
    /\ toolsets' = [toolsets EXCEPT ![i] = row]
    /\ offers' = [c \in Clients |->
                     IF pc[c] = "load" /\ i \in DOMAIN seen[c]
                     THEN offers[c] \union Offer(i, row) ELSE offers[c]]

RoomForRevision ==
    MapThenSumSet(LAMBDA i : toolsets[i].revision, Ids) < MaxRevisions

-----------------------------------------------------------------------------
(***************************************************************************)
(* Loading an aggregate                                                    *)
(***************************************************************************)
\* The first statement: the rows.  A row carries the digest of its members,
\* which row.members stands for, and no grants.
ReadRows(c, S) ==
    /\ seen' = [seen EXCEPT ![c] =
                   [i \in S |-> [row |-> [toolsets[i] EXCEPT !.grants = {}],
                                 members |-> {}, grants |-> {},
                                 next |-> "members"]]]
    /\ offers' = [offers EXCEPT ![c] =
                     UNION {Offer(i, toolsets[i]) : i \in S}]

ReadMembers(c, i) ==
    /\ pc[c] = "load"
    /\ i \in DOMAIN seen[c]
    /\ seen[c][i].next = "members"
    /\ seen' = [seen EXCEPT ![c][i].members = toolsets[i].members,
                            ![c][i].next = "grants"]
    /\ UNCHANGED <<dbVars, role, pc, reply, offers>>

\* Mutation: the aggregate is built without comparing the digest.
WellFormed_NoDigest(row, members) ==
    row.status = "active" /\ row.kind = "explicit" => members # {}

\* Toolset.__post_init__ over what the statements returned.
WellFormed(row, members) == members = row.members

\* _require_scoped_access.
ScopedOutcome(aggregate) ==
    IF aggregate.row.status # "active" THEN "not_active"
    ELSE IF Requester \notin aggregate.grants THEN "denied"
    ELSE "served"

\* What a client does with the aggregates it has loaded, before its next
\* await.
Loaded(c, aggregates) ==
    \/ role[c] = "admin" /\ Goto(c, "shown") /\ UNCHANGED reply
    \/ role[c] = "start" /\ Goto(c, "save") /\ UNCHANGED reply
    \/ role[c] = "root" /\ Goto(c, "list") /\ UNCHANGED reply
    \/ /\ role[c] = "scoped"
       /\ \E i \in DOMAIN aggregates :
             LET outcome == ScopedOutcome(aggregates[i]) IN
             IF outcome = "served" THEN Goto(c, "list") /\ UNCHANGED reply
             ELSE /\ Goto(c, "done")
                  /\ reply' = [reply EXCEPT ![c].outcome = outcome]

\* The ValueError of an aggregate read half before and half after a commit:
\* a request ends in an internal error, as an administrator's does, and a
\* process does not start.
LoadFails(c) ==
    /\ Goto(c, IF role[c] = "start" THEN "failed" ELSE "done")
    /\ reply' = [reply EXCEPT ![c].outcome = "error"]

ReadGrants(c, i) ==
    /\ pc[c] = "load"
    /\ i \in DOMAIN seen[c]
    /\ seen[c][i].next = "grants"
    /\ LET aggregate == [seen[c][i] EXCEPT !.grants = toolsets[i].grants,
                                           !.next = "none"]
           all == [seen[c] EXCEPT ![i] = aggregate]
       IN /\ seen' = [seen EXCEPT ![c] = all]
          /\ IF ~WellFormed(aggregate.row, aggregate.members)
             THEN LoadFails(c)
             ELSE IF \A j \in DOMAIN all : all[j].next = "none"
             THEN Loaded(c, all)
             ELSE UNCHANGED <<pc, reply>>
    /\ UNCHANGED <<dbVars, role, offers>>

\* The client is answered, or the process has started or has not; the next
\* one starts from nothing.
Close(c) ==
    /\ pc[c] \in {"done", "failed"}
    /\ Goto(c, "idle")
    /\ role' = [role EXCEPT ![c] = "none"]
    /\ seen' = [seen EXCEPT ![c] = <<>>]
    /\ reply' = [reply EXCEPT ![c] = NoReply]
    /\ offers' = [offers EXCEPT ![c] = {}]
    /\ UNCHANGED dbVars

\* The client begins in one of its roles.
Begin(c, r) ==
    /\ pc[c] = "idle"
    /\ r \in Roles
    /\ role' = [role EXCEPT ![c] = r]

-----------------------------------------------------------------------------
(***************************************************************************)
(* Administration                                                          *)
(***************************************************************************)
SlugFree(slug) == \A i \in Existing : toolsets[i].slug # slug

\* Ids are used once; one that nobody remembers is as good as new.
Fresh == {i \in Ids \ Existing : \A c \in Clients : i \notin DOMAIN seen[c]}

\* Mutation: a toolset starts at revision zero.
CreateToolset_RevisionZero(i, slug) ==
    /\ Unseen # {}
    /\ i \in Fresh
    /\ SlugFree(slug)
    /\ Write(i, [NoRow EXCEPT !.status = "draft", !.slug = slug])
    /\ UNCHANGED <<catalog, role, pc, seen, reply>>

\* CreateToolset: the lookup of the slug and the unique index refuse alike.
CreateToolset(i, slug) ==
    /\ Unseen # {}
    /\ i \in Fresh
    /\ SlugFree(slug)
    /\ RoomForRevision
    /\ Write(i, [NoRow EXCEPT !.status = "draft", !.slug = slug,
                              !.revision = 1])
    /\ UNCHANGED <<catalog, role, pc, seen, reply>>

\* GetToolset, by which an administrator learns the revision.
GetToolset(c, i) ==
    /\ Begin(c, "admin")
    /\ i \in Existing
    /\ ReadRows(c, {i})
    /\ Goto(c, "load")
    /\ UNCHANGED <<dbVars, reply>>

\* _get_locked and _require_revision.
ExpectedRevision(a, i) ==
    /\ i \in Existing
    /\ a \in Clients =>
          /\ pc[a] = "shown"
          /\ i \in DOMAIN seen[a]
          /\ toolsets[i].revision = seen[a][i].row.revision

\* An aggregate that a method of Toolset leaves as it was keeps its revision.
Changed(row, new) ==
    IF new = row THEN row ELSE [new EXCEPT !.revision = @ + 1]

update_profile(row, mode) == Changed(row, [row EXCEPT !.mode = mode])
replace_members(row, members) == Changed(row, [row EXCEPT !.members = members])
replace_grants(row, grants) == Changed(row, [row EXCEPT !.grants = grants])
activate(row) == Changed(row, [row EXCEPT !.status = "active"])
disable(row) == Changed(row, [row EXCEPT !.status = "disabled"])

\* The end of every command: save, the profile, the commit.
Commit(a, i, updated) ==
    /\ updated # toolsets[i] => RoomForRevision
    /\ Write(i, updated)
    /\ IF a \in Clients THEN Goto(a, "done") ELSE UNCHANGED pc
    /\ UNCHANGED <<catalog, role, seen, reply>>

UpdateToolset(a, i) ==
    /\ ExpectedRevision(a, i)
    /\ \E mode \in Modes : Commit(a, i, update_profile(toolsets[i], mode))

\* Mutation: members of an active toolset are checked as a draft's are.
MembersAllowed_Unpublished(row, members) ==
    /\ row.kind = "explicit"
    /\ \A t \in members : catalog[t] # "gone"
    /\ row.status = "active" => members # {}

MembersAllowed(row, members) ==
    /\ row.kind = "explicit"
    /\ \A t \in members : catalog[t] # "gone"
    /\ row.status = "active" => members # {} /\ members \subseteq Available

ReplaceToolsetMembers(a, i) ==
    /\ ExpectedRevision(a, i)
    /\ \E members \in MemberSets :
          /\ MembersAllowed(toolsets[i], members)
          /\ Commit(a, i, replace_members(toolsets[i], members))

ReplaceToolsetGrants(a, i) ==
    /\ ExpectedRevision(a, i)
    /\ \E grants \in GrantSets :
          Commit(a, i, replace_grants(toolsets[i], grants))

ActivateToolset(a, i) ==
    /\ ExpectedRevision(a, i)
    /\ toolsets[i].members \subseteq Available
    /\ toolsets[i].kind = "explicit" => toolsets[i].members # {}
    /\ Commit(a, i, activate(toolsets[i]))

DisableToolset(a, i) ==
    /\ ExpectedRevision(a, i)
    /\ toolsets[i].kind = "explicit"
    /\ Commit(a, i, disable(toolsets[i]))

\* A command that is refused changes nothing, nor does giving up.
Refused(c) ==
    /\ pc[c] = "shown"
    /\ Goto(c, "done")
    /\ UNCHANGED <<dbVars, role, seen, reply, offers>>

-----------------------------------------------------------------------------
(***************************************************************************)
(* EnsureAllPublishedToolset, when a process starts and after the reset    *)
(***************************************************************************)
Look(c) ==
    /\ Begin(c, "start")
    /\ Goto(c, IF SystemToolsets = {} THEN "insert" ELSE "reread")
    /\ UNCHANGED <<dbVars, seen, reply, offers>>

\* The unique index on the slug, and the one on the kind.
InsertAllowed == SlugFree(Reserved) /\ SystemToolsets = {}

Insert(c) ==
    /\ pc[c] = "insert"
    /\ InsertAllowed
    /\ \E i \in Fresh : Write(i, SystemToolset(ServicePrincipals))
    /\ Goto(c, "done")
    /\ UNCHANGED <<catalog, role, seen, reply>>

InsertConflicts(c) ==
    /\ pc[c] = "insert"
    /\ ~InsertAllowed
    /\ Goto(c, "reread")
    /\ UNCHANGED <<dbVars, role, seen, reply, offers>>

Reread(c) ==
    /\ pc[c] = "reread"
    /\ IF SystemToolsets = {}
       THEN Goto(c, "failed") /\ UNCHANGED <<seen, offers>>
       ELSE ReadRows(c, SystemToolsets) /\ Goto(c, "load")
    /\ UNCHANGED <<dbVars, role, reply>>

\* Mutation: save does not compare the revisions.
SaveAccepts_Any(current, expected) == TRUE

\* requires_persistence_update, after save has locked and read the row again:
\* what was read at this revision becomes the next, or stays as it is.
SaveAccepts(current, expected) == current.revision = expected

\* The union of the grants it read and its own; nothing is written when that
\* adds none.
SaveGrants(c, i) ==
    /\ pc[c] = "save"
    /\ i \in DOMAIN seen[c]
    /\ LET current == toolsets[i]
           merged == seen[c][i].grants \union ServicePrincipals
           expected == seen[c][i].row.revision
       IN \/ /\ ~SaveAccepts(current, expected)
             /\ Goto(c, "failed")
             /\ UNCHANGED <<toolsets, offers>>
          \/ /\ SaveAccepts(current, expected)
             /\ merged = seen[c][i].grants
             /\ Goto(c, "done")
             /\ UNCHANGED <<toolsets, offers>>
          \/ /\ SaveAccepts(current, expected)
             /\ merged # seen[c][i].grants
             /\ RoomForRevision
             /\ Write(i, [current EXCEPT !.grants = merged,
                                         !.revision = expected + 1])
             /\ Goto(c, "done")
    /\ UNCHANGED <<catalog, role, seen, reply>>

-----------------------------------------------------------------------------
(***************************************************************************)
(* ResolveToolsetAccess                                                    *)
(***************************************************************************)
\* /mcp/toolsets/{slug}: the row with that slug.
ReceiveScoped(c, slug) ==
    /\ Begin(c, "scoped")
    /\ ~SlugFree(slug)
    /\ ReadRows(c, {i \in Existing : toolsets[i].slug = slug})
    /\ Goto(c, "load")
    /\ UNCHANGED <<dbVars, reply>>

NotFound(c, slug) ==
    /\ Begin(c, "scoped")
    /\ SlugFree(slug)
    /\ Goto(c, "done")
    /\ reply' = [reply EXCEPT ![c].outcome = "not_found"]
    /\ UNCHANGED <<dbVars, seen, offers>>

\* list_granted_active: one statement joins rows and grants.
GrantedActive ==
    {i \in Existing : /\ toolsets[i].status = "active"
                      /\ Requester \in toolsets[i].grants}

\* /mcp: the union of what is granted.
ReceiveRoot(c) ==
    /\ Begin(c, "root")
    /\ ReadRows(c, GrantedActive)
    /\ Goto(c, IF GrantedActive = {} THEN "list" ELSE "load")
    /\ UNCHANGED <<dbVars, reply>>

\* list_published_by_tenant, in a transaction of its own, and the selection.
ListPublished(c) ==
    /\ pc[c] = "list"
    /\ LET granted == {seen[c][i] : i \in DOMAIN seen[c]}
           everything == \E g \in granted : g.row.kind = "all_published"
           members == UNION {g.members : g \in granted}
       IN reply' = [reply EXCEPT ![c] =
                       [outcome |-> "served",
                        tools |-> {t \in Available \intersect Visible :
                                      everything \/ t \in members}]]
    /\ Goto(c, "done")
    /\ UNCHANGED <<dbVars, role, seen, offers>>

-----------------------------------------------------------------------------
(***************************************************************************)
(* The rest of the system                                                  *)
(***************************************************************************)
Publish(t) ==
    /\ catalog[t] = "draft"
    /\ catalog' = [catalog EXCEPT ![t] = "available"]
    /\ UNCHANGED <<toolsets, role, pc, seen, reply, offers>>

\* The demo reset truncates toolsets and catalog together.  TRUNCATE waits
\* for every transaction that has read them.
Reset ==
    /\ Resets
    /\ \A c \in Clients : pc[c] \notin {"load", "insert", "save"}
    /\ Existing # {}
    /\ toolsets' = [i \in Ids |-> NoRow]
    /\ catalog' = [t \in Tools |-> "gone"]
    /\ UNCHANGED <<role, pc, seen, reply, offers>>

Command(a, i) ==
    \/ UpdateToolset(a, i) \/ ReplaceToolsetMembers(a, i)
    \/ ReplaceToolsetGrants(a, i)
    \/ ActivateToolset(a, i) \/ DisableToolset(a, i)

ClientStep(c) ==
    \/ \E i \in Ids : ReadMembers(c, i) \/ ReadGrants(c, i)
    \/ \E i \in Ids : GetToolset(c, i) \/ Refused(c)
    \/ Look(c) \/ Insert(c) \/ InsertConflicts(c) \/ Reread(c)
    \/ \E i \in Ids : SaveGrants(c, i)
    \/ \E slug \in Slugs : ReceiveScoped(c, slug) \/ NotFound(c, slug)
    \/ ReceiveRoot(c) \/ ListPublished(c)
    \/ Close(c)

Next ==
    \/ \E a \in Clients \union Unseen, i \in Ids : Command(a, i)
    \/ \E i \in Ids, slug \in Slugs : CreateToolset(i, slug)
    \/ \E c \in Clients : ClientStep(c)
    \/ \E t \in Tools : Publish(t)
    \/ Reset

Spec == Init /\ [][Next]_vars

-----------------------------------------------------------------------------
(***************************************************************************)
(* Correctness                                                             *)
(***************************************************************************)
\* However processes start, administrators create and the reset interferes,
\* there is one system toolset at most, nobody disables it or gives it
\* members, and no two toolsets answer at one endpoint.
OneSystemToolset ==
    /\ \A i, j \in SystemToolsets : i = j
    /\ \A i \in SystemToolsets :
          toolsets[i].status = "active" /\ toolsets[i].members = {}
    /\ \A i, j \in Existing : toolsets[i].slug = toolsets[j].slug => i = j

\* Membership and status, which different commands change, agree: an active
\* toolset has members and all are available (ActivateToolset and
\* ReplaceToolsetMembers check it of each other's work).
ActiveIsAvailable ==
    \A i \in Existing :
        toolsets[i].status = "active" /\ toolsets[i].kind = "explicit" =>
            /\ toolsets[i].members # {}
            /\ toolsets[i].members \subseteq Available

\* A command replaces only what its administrator was shown, although what
\* was shown was read in three statements: no edit is lost.
NoLostUpdate ==
    \A c \in Clients, i \in Ids :
       pc[c] = "shown" /\ pc'[c] = "done" /\ toolsets'[i] # toolsets[i] =>
           toolsets[i] = [seen[c][i].row EXCEPT
                             !.members = seen[c][i].members,
                             !.grants = seen[c][i].grants]

\* A process that has started has its principals granted, and took nobody's
\* grant away, whatever administrators did since it read them.
EnsureAppends ==
    \A c \in Clients :
       role[c] = "start" /\ pc[c] # "done" /\ pc'[c] = "done" =>
           \E i \in Ids :
               /\ toolsets'[i].kind = "all_published"
               /\ (toolsets[i].grants \union ServicePrincipals)
                      \subseteq toolsets'[i].grants

\* A request is served only what was really on offer: each toolset it used
\* was, at one moment, active with exactly the members the request saw, and
\* at the root also granted to its principal.
AccessWasOffered ==
    \A c \in Clients :
        reply[c].outcome = "served" =>
            \A i \in DOMAIN seen[c] :
                \E o \in offers[c] :
                    /\ o.id = i
                    /\ o.members = seen[c][i].members
                    /\ role[c] = "root" => o.granted

\* Processes that start together converge: each one starts.
StartsConverge == \A c \in Clients : pc[c] # "failed"

\* However commands, starts and the reset interleave, there is one system
\* toolset at most, and every active toolset has members that are available.
ToolsetsAreSound == OneSystemToolset /\ ActiveIsAvailable

\* No edit is lost: a command based on an old revision changes nothing, and a
\* start adds its grants to whatever others have made of them.
EditsAreKept == [][NoLostUpdate /\ EnsureAppends]_vars

-----------------------------------------------------------------------------
(***************************************************************************)
(* Why it holds: the inductive invariant                                   *)
(***************************************************************************)
\* What a client has read of a toolset, and of which toolsets.
Loads ==
    [row: Toolsets, members: SUBSET Tools, grants: SUBSET Principals,
     next: {"members", "grants", "none"}]
SeenInv ==
    /\ seen = [c \in Clients |-> seen[c]]
    /\ \A c \in Clients :
          /\ seen[c] \in [DOMAIN seen[c] -> Loads]
          /\ DOMAIN seen[c] \subseteq Ids
    /\ \A i \in SystemToolsets : toolsets[i].slug = Reserved

\* Where a client is tells its role, and its reply is the last it does.
RoleInv(c) ==
    /\ pc[c] = "idle" => role[c] = "none" /\ DOMAIN seen[c] = {}
    /\ pc[c] = "shown" => role[c] = "admin"
    /\ pc[c] \in {"insert", "reread", "save"} => role[c] = "start"
    /\ pc[c] = "list" => role[c] \in {"scoped", "root"}
    /\ reply[c].outcome = "served" => pc[c] = "done"

\* What has been read of an aggregate is what there is, as long as its
\* revision is; and a revision is never used again, since a toolset counts up
\* and no other gets its id while somebody remembers it.
KeepInv(c) ==
    \A i \in DOMAIN seen[c] :
        /\ toolsets[i].revision # 0 =>
              seen[c][i].row.revision <= toolsets[i].revision
        /\ seen[c][i].row.revision = toolsets[i].revision =>
              /\ seen[c][i].row = [toolsets[i] EXCEPT !.grants = {}]
              /\ seen[c][i].next # "members" =>
                    seen[c][i].members = toolsets[i].members
              /\ seen[c][i].next = "none" =>
                    seen[c][i].grants = toolsets[i].grants

\* A client goes on when it has read all, and what it has read is whole.
WholeInv(c) ==
    /\ pc[c] \in {"shown", "save", "list"} =>
          \A i \in DOMAIN seen[c] : seen[c][i].next = "none"
    /\ \A i \in DOMAIN seen[c] :
          /\ role[c] = "start" => seen[c][i].row.kind = "all_published"
          /\ role[c] = "root" => seen[c][i].row.status = "active"
          /\ pc[c] = "load" /\ seen[c][i].next = "none" =>
                seen[c][i].members = seen[c][i].row.members
    /\ pc[c] = "load" /\ role[c] = "scoped" =>
          \A i, j \in DOMAIN seen[c] : i = j

\* The rows of active toolsets that a client has read were on offer.
Offered(c, i, members) ==
    \E o \in offers[c] :
        o.id = i /\ o.members = members /\ (role[c] = "root" => o.granted)

OfferInv(c) ==
    /\ pc[c] = "load" =>
          \A i \in DOMAIN seen[c] :
              seen[c][i].row.status = "active" =>
                  Offered(c, i, seen[c][i].row.members)
    /\ pc[c] = "list" \/ reply[c].outcome = "served" =>
          \A i \in DOMAIN seen[c] : Offered(c, i, seen[c][i].members)

IInv ==
    /\ TypeOK /\ SeenInv /\ OneSystemToolset /\ ActiveIsAvailable
    /\ \A c \in Clients :
          RoleInv(c) /\ KeepInv(c) /\ WholeInv(c) /\ OfferInv(c)
=============================================================================
