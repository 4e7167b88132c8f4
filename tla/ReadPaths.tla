----------------------------- MODULE ReadPaths -----------------------------
(***************************************************************************)
(* Everything that the gateway answers from its store, composed: the MCP   *)
(* requests of Discovery and the queries of the control plane, against the *)
(* transactions of ReadStore.  Readers do not change what other readers    *)
(* see, so a behaviour has one client, an agent or an administrator; the   *)
(* writers may come between any two of its statements.                     *)
(***************************************************************************)
EXTENDS Discovery, AdminQueries

CONSTANT Stores   \* the states of the tables to begin with

Toolsets == [status: ToolsetStatuses, members: SUBSET Tools, granted: BOOLEAN,
             mode: {"eager", "search_first"}]
ASSUME StoresAssumption ==
    \A s \in Stores :
        /\ s.status \in [Versions -> {"absent", "draft", "published", "retired"}]
        /\ \A v, w \in Versions :
              /\ s.status[v] = "published" /\ s.status[w] = "published"
              /\ ToolOf[v] = ToolOf[w]
              => v = w
        /\ s.embedded \subseteq Versions
        /\ s.toolset \in Toolsets
        /\ s.rootAll \in BOOLEAN
        /\ DOMAIN s.rows \subseteq Rows
        /\ s.rows \in [DOMAIN s.rows -> {"open", "closed"}]
ASSUME QueriesAssumption ==
    \A q \in Queries : /\ q.list \in Lists
                        /\ q.filter \in q.list.filters \union {"none"}
                        /\ q.limit \in Nat
ASSUME WalksAssumption == MaxWalks \in Nat

vars == <<storeVars, discoveryVars, adminVars>>

Init ==
    /\ \E s \in Stores :
          /\ status = s.status
          /\ embedded = s.embedded
          /\ usable = Tools
          /\ toolset = s.toolset
          /\ rootAll = s.rootAll
          /\ rows = s.rows
    /\ approval = NoApproval
    /\ writes = 0
    /\ quiet = 0
    /\ watch = Watch
    /\ DiscoveryInit
    /\ AdminInit

\* A transaction commits while a request is being answered, or between two:
\* one that commits after the last statement comes after the answer, and one
\* before the first read, or on tables that the client's reads do not look
\* at, is left out.
Write ==
    /\ serial + walks > 0
    /\ pc # "answered"
    /\ walk.at \notin Ended
    /\ Store
    /\ \/ status' # status
       \/ /\ serial > 0 => rows' = rows
          /\ walks > 0 => UNCHANGED <<usable, toolset, rootAll, approval>>
    /\ TornPage
    /\ UNCHANGED <<discoveryVars, walk, collected, report, walks>>

Request ==
    /\ walks = 0
    /\ (\E r \in Requests : Receive(r)) \/ DiscoveryStep
    /\ UNCHANGED adminVars

Query ==
    /\ serial = 0
    /\ \/ \E q \in Queries : StartWalk(q)
       \/ \E d \in Details, r \in Rows : GetDetail(d, r)
       \/ \E kind \in {"dashboard", "projection", "inspection"} :
             StartReport(kind)
       \/ AdminStep
    /\ UNCHANGED discoveryVars

Next == Write \/ Request \/ Query

Spec == Init /\ [][Next]_vars

-----------------------------------------------------------------------------
(***************************************************************************)
(* Properties                                                              *)
(***************************************************************************)
Outcomes == {"none", "unsupported_protocol", "authentication_failed",
             "listed", "found", "invalid_arguments",
             "search_mode_unavailable", "embedding_failed", "internal_error",
             "approval_mismatch", "approval_not_found",
             "approval_invalid_state", "approval_pending",
             "approval_rejected", "approval_already_consumed",
             "approval_required", "input_required", "tool_not_found",
             "tool_not_visible", "authorization_failed",
             "idempotency_key_required", "unsafe_upstream_endpoint",
             "idempotency_conflict",
             "credential_binding_conflict", "credential_binding_not_found",
             "planned"} \union ScopeErrors

\* Every answer is one that the handlers give, a version is published for a
\* tool at most once, and no answer is longer than was asked for.
TypeOK ==
    /\ StoreTypeOK
    /\ outcome \in Outcomes
    /\ ToSet(hits) \subseteq Versions
    /\ request.kind \in {"search", "lab", "catalog"} => Len(hits) <= request.limit
    /\ denials \subseteq 1..serial
    /\ collected \subseteq Rows
    /\ walk.kind = "walk" => Len(page.items) <= walk.query.limit

\* The request has its answer.
Answer == pc = "answered"

Denies(principal, v) ==
    evaluate(composed.evaluator, principal, ToolOf[v], SideEffect[v]) = "deny"

\* The versions that were on offer for as long as the request took.
Steady ==
    {v \in watch.published :
        /\ Unconfined \/ ToolOf[v] \in watch.granted[request.scope]
        /\ is_visible_to(Visibility[v], SearchPrincipal)}

\* What tools/list and a search name was the caller's to see: at some moment
\* of the request the version was published, at some moment its tool was
\* granted (runtime.py reads the two in different sessions), and a search has
\* left out what the policy denies.  Neither looks at the upstream, and
\* tools/list not at the policy: see DisabledIsNotDiscoverable and
\* ListIsPolicyFiltered below, which the code does not have.
NamedWasVisible ==
    Answer /\ outcome \in {"listed", "found"} =>
        \A v \in ToSet(hits) :
            /\ v \in watch.ever_published
            /\ is_visible_to(Visibility[v], SearchPrincipal)
            /\ ~Unconfined =>
                  ToolOf[v] \in watch.ever_granted[request.scope]
            /\ request.kind \in {"search", "lab"} => ~Denies(SearchPrincipal, v)

\* No version is named twice; a tool is only when the two searches of the
\* hybrid mode saw it before and after a publication.
AnswerNamesToolOnce ==
    Answer =>
        \A i, j \in 1..Len(hits) :
            i # j => /\ hits[i] # hits[j]
                     /\ ToolOf[hits[i]] = ToolOf[hits[j]] =>
                           request.mode = "hybrid" /\ quiet = 0

\* A search that gives fewer hits than were asked for, from fewer candidates
\* than were fetched at most, has left out nothing: every version that was
\* on offer throughout, that the policy allows and that a strategy finds, is
\* among them.
ShortAnswerIsWhole ==
    Answer /\ outcome = "found" /\ Len(hits) < request.limit
           /\ seen.fetched < SearchLimit =>
        \A v \in Steady :
            /\ request.kind = "catalog" \/ ~Denies(SearchPrincipal, v)
            /\ \/ v \in ToSet(LexicalOrder)
               \/ request.mode = "hybrid" /\ v \in watch.embedded
            => v \in ToSet(hits)

\* The hybrid search fails without a fault only when a transaction committed
\* since the request began (VectorSearchResult refuses the hits of a statement
\* that saw more than the one that counted), and it calls the index missing
\* only when nothing on offer was indexed.
HybridFailsOnlyInRace ==
    Answer /\ request.kind \in {"search", "lab"} =>
        /\ outcome = "internal_error" /\ ~seen.faulted => quiet = 0
        /\ outcome = "search_mode_unavailable" /\ composed.hybrid =>
              Steady \intersect watch.embedded = {}

\* As long as nothing is written, what a client was just told of it can
\* call: a tool of a list or of a search is neither out of scope nor unknown
\* nor invisible, and one of a search is not forbidden.  A tool whose
\* upstream is disabled is the exception, as lists and searches do not look:
\* that half is DisabledIsNotDiscoverable, which does not hold.
NamedIsCallable ==
    (/\ Answer
     /\ quiet = 2
     /\ request.kind = "call"
     /\ last.kind \in {"list", "search"}
     /\ request.tool \in last.tools
     /\ request.tool \in usable
     /\ last.request.scope = request.scope
     /\ last.request.header = request.header) =>
        /\ outcome \notin ScopeErrors
        /\ outcome \notin {"tool_not_found", "tool_not_visible"}
        /\ last.kind = "search" => outcome # "authorization_failed"

\* A call that a toolset's scope forbids is answered so, whether its audit
\* event could be written or not, and only such calls have that event.
DenialStands ==
    Answer =>
        /\ serial \in denials \/ lost =>
              outcome \in ScopeErrors /\ request.kind \in {"search", "call"}
        /\ outcome \in ScopeErrors /\ request.kind \in {"search", "call"} =>
              serial \in denials \/ lost

\* A call that is planned is one that the rules allow: a rule that denies it
\* is outdone by a more specific one, or by one of a higher priority, and
\* one that requires an approval has had it, for this version.
PlannedIsAllowed ==
    Answer /\ outcome = "planned" /\ composed.evaluator.kind = "rules" =>
        LET rules == Applicable(composed.evaluator.policies, Principal,
                                request.tool)
            outdone(p) ==
                \E q \in rules :
                    \/ Specificity(q) > Specificity(p)
                    \/ /\ Specificity(q) = Specificity(p)
                       /\ q.priority > p.priority
        IN /\ rules # {}
           /\ \A p \in rules :
                 /\ p.effect = "deny" => outdone(p)
                 /\ p.effect = "require_approval" =>
                       \/ outdone(p)
                       \/ /\ approval.status = "consumed"
                          /\ approval.version = seen.version

\* A call that is planned is of a version that was published and in scope at
\* some moment of the request, and on an upstream that was active when it
\* began: sqlalchemy_resolver.py looks again, whatever the client was told.
PlannedWasOnOffer ==
    Answer /\ outcome = "planned" =>
        /\ seen.version \subseteq watch.ever_published
        /\ \A v \in seen.version : ToolOf[v] = request.tool
        /\ request.tool \in watch.ever_granted[request.scope]
        /\ quiet > 0 => request.tool \in usable

\* The credential of a planned call is the only one that fits best: another
\* binding for the same upstream that applies is less specific.
CredentialUnambiguous ==
    Answer /\ outcome = "planned" /\ composed.auth_scheme # "none" =>
        /\ planned \in composed.bindings
        /\ planned.upstream = request.tool
        /\ \A b \in Applicable(composed.bindings, Principal, request.tool) :
              b.upstream = request.tool /\ b # planned =>
                  Specificity(b) < Specificity(planned)

\* A caller that declined the call it was asked about does not have it
\* planned, and its response does not spend an approval, not even one that an
\* administrator has given meanwhile.
DeclinedNeverPlanned ==
    (/\ Answer
     /\ request.response = "decline"
     /\ approval.status # "none" => approval.principal = Principal) =>
        /\ outcome \notin {"planned", "input_required", "approval_required"}
        /\ outcome = "approval_rejected" => approval.status = "rejected"

\* A walk that is over has shown every row that its filter left when it
\* began, whatever was inserted meanwhile: a row never moves towards the
\* front of a total order.  The exceptions are a filter on what changes, the
\* reset, and a write between the statements of the last page.
WalkMissesNothing ==
    walk.kind = "walk" /\ walk.at = "done"
        /\ walk.query.filter \in {"none", "fixed"}
        /\ ~watch.reset /\ ~page.torn =>
        DOMAIN watch.rows
            \intersect (IF walk.query.filter = "fixed" THEN Marked ELSE Rows)
            \subseteq collected

\* A page has the rows that its total promises: the count is taken first,
\* and rows are only ever added.
PageKeepsPromise ==
    walk.kind = "walk" /\ walk.at = "read"
        /\ walk.query.filter \in {"none", "fixed"} /\ ~watch.reset =>
        \/ Len(page.items) = walk.query.limit
        \/ page.offset + Len(page.items) >= page.total

\* A report that no transaction came between adds up: what is pending is
\* exactly what has no embedding, and the coverage is a percentage.  An
\* inspection adds up whatever is written.
ReportsAddUp ==
    walk.at = "done" =>
        /\ walk.kind \in {"dashboard", "projection"} /\ quiet > 0 =>
              /\ pending_tools = Cardinality(Published \ embedded)
              /\ coverage_percent \in 0..100
              /\ walk.kind = "dashboard" => report.first = report.published
        /\ walk.kind = "inspection" =>
              /\ Cardinality(report.current) + Cardinality(report.missing)
                     = report.published
              /\ report.current \subseteq watch.ever_published
              /\ report.missing \intersect watch.embedded = {}

\* A list or a search, put together from several snapshots, names only what
\* was the caller's to see, names it once, leaves nothing out that it does
\* not admit, and fails by itself only in a race.
AnswersAreSound ==
    /\ NamedWasVisible
    /\ AnswerNamesToolOnce
    /\ ShortAnswerIsWhole
    /\ HybridFailsOnlyInRace

\* A call up to its plan: what was named can be called, and scope, upstream,
\* rules, credentials and the caller's own decision are each decisive.
CallsAreGoverned ==
    /\ NamedIsCallable
    /\ DenialStands
    /\ PlannedIsAllowed
    /\ PlannedWasOnOffer
    /\ CredentialUnambiguous
    /\ DeclinedNeverPlanned

\* Pages and reports of several statements agree with themselves, and a walk
\* over the pages misses nothing.
QueriesAreSound ==
    /\ WalkMissesNothing
    /\ PageKeepsPromise
    /\ ReportsAddUp

-----------------------------------------------------------------------------
(***************************************************************************)
(* What the documents say and the code does not guarantee                  *)
(***************************************************************************)
\* A tool whose upstream is disabled is not discoverable: no list and no
\* search that began after the upstream was disabled names it.
DisabledIsNotDiscoverable ==
    Answer /\ quiet > 0 /\ outcome \in {"listed", "found"} =>
        \A v \in ToSet(hits) : ToolOf[v] \in usable

\* tools/list is filtered by the policy: it names no tool that the policy
\* denies to this caller.
ListIsPolicyFiltered ==
    Answer /\ outcome = "listed" => \A v \in ToSet(hits) : ~Denies(Principal, v)

-----------------------------------------------------------------------------
(***************************************************************************)
(* Why it holds: the inductive invariant                                   *)
(***************************************************************************)
OnePerTool(S) == \A v, w \in S : ToolOf[v] = ToolOf[w] => v = w

Approvals ==
    [status: {"pending", "approved", "rejected", "consumed"}, tool: Tools,
     version: SUBSET Versions,
     principal: {PrincipalOf(r.header) : r \in Requests}]
RowTables == UNION {[D -> {"open", "closed"}] : D \in SUBSET Rows}
Watches ==
    [published: SUBSET Versions, ever_published: SUBSET Versions,
     granted: [Scopes -> SUBSET Tools], ever_granted: [Scopes -> SUBSET Tools],
     embedded: SUBSET Versions, rows: RowTables, reset: BOOLEAN]

StoreFine ==
    /\ status \in [Versions -> {"absent", "draft", "published", "retired"}]
    /\ OnePerTool(Published)
    /\ embedded \subseteq Versions
    /\ usable \subseteq Tools
    /\ toolset \in Toolsets
    /\ rootAll \in BOOLEAN
    /\ rows \in RowTables
    /\ writes \in 0..MaxWrites
    /\ quiet \in 0..2

\* What has held throughout holds now, and what holds now has once held; when
\* nothing was written since the request began, the three are the same.
WatchFine ==
    /\ watch \in Watches
    /\ watch.published \subseteq Published
    /\ Published \subseteq watch.ever_published
    /\ \A s \in Scopes : /\ watch.granted[s] \subseteq Granted(s)
                         /\ Granted(s) \subseteq watch.ever_granted[s]
    /\ watch.embedded \subseteq embedded
    /\ ~watch.reset => DOMAIN watch.rows \subseteq DOMAIN rows
    /\ quiet > 0 => watch = Watch

Labels == {"idle", "toolsets", "published", "deny", "search", "searching",
           "approval", "resolve", "request", "plan", "answered"}
Sightings ==
    [allowed: SUBSET Tools, members: SUBSET Tools, unavailable: SUBSET Tools,
     mode: {"none", "eager", "search_first"}, tools: SUBSET Versions,
     faulted: BOOLEAN, lexical: Seq(Versions), lexical_read: BOOLEAN,
     vector: Seq(Versions),
     vector_at: {"embed", "coverage", "candidates", "read"},
     eligible: Nat, indexed: Nat, fetched: Nat, version: SUBSET Versions,
     effect: {"none", "allow", "require_approval", "deny"}]

\* Where the handler is tells what kind of request it answers, and what of
\* the answer there is.
RequestFine ==
    /\ composed \in Compositions
    /\ pc \in Labels
    /\ seen \in Sightings
    /\ hits \in Seq(Versions)
    /\ serial \in Nat
    /\ serial = 0 => pc = "idle" /\ last = NoAnswer
    /\ IF pc = "idle" THEN request = NoRequest ELSE request \in Requests
    /\ pc \in {"toolsets", "published"} => request.kind \in {"list", "search", "call"}
    /\ pc \in {"search", "searching"} => request.kind \in {"search", "lab", "catalog"}
    /\ pc \in {"approval", "resolve", "request", "plan"} => request.kind = "call"
    /\ pc = "deny" => outcome \in ScopeErrors /\ request.kind \in {"search", "call"}
    /\ pc \notin {"deny", "answered"} => outcome = "none"
    /\ pc # "answered" => hits = <<>>
    /\ outcome \in Outcomes
    /\ request.kind \in {"search", "lab", "catalog"} => Len(hits) <= request.limit
    /\ denials \subseteq 1..serial
    /\ pc \notin {"idle", "answered"} => serial \notin denials /\ ~lost

\* What was once on offer to the caller.
Offered ==
    {v \in watch.ever_published :
        /\ ~Unconfined => ToolOf[v] \in watch.ever_granted[request.scope]
        /\ is_visible_to(Visibility[v], SearchPrincipal)}

FoundFine(ranking) ==
    /\ IsInjective(ranking)
    /\ ToSet(ranking) \subseteq Offered
    /\ \A v \in ToSet(ranking) : ToolOf[v] \in Searchable
    /\ OnePerTool(ToSet(ranking))

\* A search stays between what was on offer throughout and what once was.
SearchFine ==
    /\ pc \in {"toolsets", "published", "search"} =>
          /\ seen.lexical = <<>> /\ ~seen.lexical_read
          /\ seen.vector = <<>>
    /\ pc = "published" =>
          /\ watch.granted[request.scope] \subseteq seen.allowed
          /\ seen.allowed \subseteq watch.ever_granted[request.scope]
    /\ pc \in {"search", "searching"} /\ ~Unconfined =>
          /\ Steady \subseteq seen.tools
          /\ seen.tools \subseteq Offered
    /\ pc = "searching" =>
          /\ FoundFine(seen.lexical)
          /\ FoundFine(seen.vector)
          /\ request.mode = "hybrid" => composed.hybrid
          /\ seen.lexical_read /\ Len(seen.lexical) < SearchLimit =>
                Steady \intersect ToSet(LexicalOrder) \subseteq ToSet(seen.lexical)
          /\ request.mode = "hybrid" /\ seen.vector_at = "read"
                /\ Len(seen.vector) < SearchLimit =>
                Steady \intersect watch.embedded \subseteq ToSet(seen.vector)
          /\ seen.vector_at = "candidates" =>
                /\ seen.indexed = 0 => Steady \intersect watch.embedded = {}
                /\ quiet > 0 => seen.indexed = Indexed(InSearchScope)

\* The rules ask for an approval of a call.
AsksApproval(principal, tool) ==
    /\ composed.evaluator.kind # "static"
    /\ rule_based(composed.evaluator.policies, principal, tool) = "require_approval"

\* The state that the reset leaves, and no transaction leaves again.
AllAbsent == \A v \in Versions : status[v] = "absent"

\* A call has the effect that the rules give it, and an approval is of a call
\* that they ask one for.
CallFine ==
    /\ pc \in {"request", "plan"} =>
          \E v \in Versions :
              /\ seen.version = {v}
              /\ ToolOf[v] = request.tool
              /\ seen.effect = evaluate(composed.evaluator, Principal,
                                        request.tool, SideEffect[v])
              /\ seen.effect # "deny"
    /\ pc \in {"request", "plan"} => seen.version \subseteq watch.ever_published
    /\ pc \in {"approval", "resolve", "request", "plan"} =>
          request.tool \in watch.ever_granted[request.scope]
    /\ pc \in {"request", "plan"} /\ quiet > 0 => request.tool \in usable
    /\ pc = "request" => seen.effect = "require_approval" /\ ~request.resume
    /\ approval \in {NoApproval} \union Approvals
    /\ approval # NoApproval => AsksApproval(approval.principal, approval.tool)
    /\ pc # "idle" /\ request.resume =>
          AllAbsent \/ (approval # NoApproval /\ approval.tool = request.tool)
    /\ pc \in {"resolve", "request", "plan"} /\ request.response = "decline" =>
          request.resume /\ (AllAbsent \/ approval.status = "rejected")

\* Nothing was written since the request began that the client's last answer
\* is of.
LastIsCurrent == IF pc = "idle" THEN quiet > 0 ELSE quiet = 2

\* What the client was last told of is still so.
LastFine ==
    LastIsCurrent /\ last.kind \in {"list", "search"} =>
        \A t \in last.tools :
            \E v \in Published :
                /\ ToolOf[v] = t
                /\ t \in Granted(last.request.scope)
                /\ is_visible_to(Visibility[v], PrincipalOf(last.request.header))
                /\ last.kind = "search" =>
                      ~Denies(PrincipalOf(last.request.header), v)

\* The handler of a denial is about to give an answer that would not hold.
DeniesNamed ==
    /\ pc = "deny"
    /\ quiet = 2
    /\ request.kind = "call"
    /\ last.kind \in {"list", "search"}
    /\ request.tool \in last.tools
    /\ last.request.scope = request.scope
    /\ last.request.header = request.header

Walks ==
    {NoWalk}
    \union [kind: {"walk"}, query: Queries, statement: {1, 2},
            at: {"parent", "page", "read", "done", "not_found"}]
    \union [kind: {"detail"}, query: Rows, at: Ended]
    \union [kind: {"dashboard", "projection", "inspection"},
            query: {"dashboard", "projection", "inspection"},
            at: {"counts", "published", "embeddings", "done"}]
Items == [row: Rows, status: {"open", "closed"}]

AdminFine ==
    /\ walk \in Walks
    /\ page \in [offset: Nat, total: Nat, items: Seq(Items), torn: BOOLEAN]
    /\ collected \subseteq Rows
    /\ report \in [published: Nat, indexed: Nat, first: Nat,
                   current: SUBSET Versions, missing: SUBSET Versions,
                   approvals: Nat]
    /\ walks \in Nat
    /\ walks = 0 => walk = NoWalk
    /\ walk.kind = "walk" /\ walk.at # "page" => walk.statement = 1
    /\ walk.kind = "walk" => Len(page.items) <= walk.query.limit

\* A walk over what does not change in a row, and was not deleted.
Reliable ==
    /\ walk.kind = "walk"
    /\ walk.query.filter \in {"none", "fixed"}
    /\ ~watch.reset

\* What a walk has not shown yet of what there was when it began.
Missing ==
    (DOMAIN watch.rows
        \intersect (IF walk.query.filter = "fixed" THEN Marked ELSE Rows))
    \ collected

\* The rows of the list that come before a row.
Ahead(r) ==
    {q \in Matching(walk.query.filter) :
        q # r /\ Before(walk.query.list.order, q, r)}

\* A row that was not shown has all the rows of the pages so far before it.
WalkFine ==
    Reliable =>
        /\ walk.at \in {"parent", "page"} =>
              \A r \in Missing : page.offset <= Cardinality(Ahead(r))
        /\ walk.at = "page" /\ walk.statement = 2 =>
              /\ page.total <= Cardinality(Matching(walk.query.filter))
              /\ ~page.torn =>
                    page.total = Cardinality(Matching(walk.query.filter))
        /\ walk.at = "read" =>
              \A r \in Missing :
                  /\ page.offset + walk.query.limit <= Cardinality(Ahead(r))
                  /\ ~page.torn => page.offset + walk.query.limit < page.total

ReportFine ==
    /\ walk.kind \in {"dashboard", "projection"} /\ quiet > 0 =>
          /\ walk.at \in {"embeddings", "done"} =>
                report.published = Cardinality(Published)
          /\ walk.at = "done" => report.indexed = Cardinality(Indexable)
          /\ walk.kind = "dashboard" /\ walk.at # "counts" =>
                report.first = Cardinality(Published)
    /\ walk.kind = "inspection" /\ walk.at = "embeddings" =>
          /\ report.published = Cardinality(report.missing)
          /\ report.missing \subseteq watch.ever_published

IInv ==
    /\ StoreFine /\ WatchFine
    /\ RequestFine /\ SearchFine /\ CallFine /\ LastFine /\ ~DeniesNamed
    /\ AdminFine /\ WalkFine /\ ReportFine
=============================================================================
