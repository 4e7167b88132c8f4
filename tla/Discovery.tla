----------------------------- MODULE Discovery -----------------------------
(***************************************************************************)
(* The MCP side of the gateway, up to the plan of a call: tools/list,      *)
(* nexus.search_tools, the search of the control plane, and tools/call     *)
(* with the approval that it elicits.  A request is answered from several  *)
(* statements, each of them its own snapshot of ReadStore.                 *)
(***************************************************************************)
EXTENDS ReadStore, AccessRules, Sequences, SequencesExt

CONSTANTS
    Requests,         \* what a client may send
    Compositions,     \* what the application may be composed with
    Identities,       \* the principals of the known bearer tokens
    NameOrder,        \* the place of every tool among the names
    Visibility,       \* of every version
    SideEffect,       \* of every version
    LexicalOrder,     \* the versions that match the text, best first
    VectorOrder,      \* all versions, nearest first
    OverfetchFactor,  \* candidates fetched per hit that is wanted
    MaxFetch,         \* the most candidates that are fetched
    MaxLimit,         \* the most hits a search may ask for
    RankConstant,     \* of the reciprocal rank fusion
    MaxRequests,      \* requests per behaviour
    Faults            \* whether statements may fail

\* No search finds a version twice, and every embedding is at some distance.
ASSUME OrderAssumption ==
    /\ NameOrder \in [Tools -> Nat]
    /\ LexicalOrder \in Seq(Versions) /\ IsInjective(LexicalOrder)
    /\ VectorOrder \in Seq(Versions) /\ IsInjective(VectorOrder)
    /\ ToSet(VectorOrder) = Versions
ASSUME FetchAssumption ==
    /\ OverfetchFactor \in Nat
    /\ MaxFetch \in Nat
    /\ MaxLimit \in Nat
ASSUME RequestsAssumption ==
    \A r \in Requests :
        /\ r.kind \in {"list", "search", "lab", "catalog", "call"}
        /\ r.scope \in Scopes
        /\ r.mode \in {"lexical", "hybrid"}
        /\ r.limit \in Nat
        /\ r.resume \in BOOLEAN
ASSUME CompositionsAssumption ==
    \A c \in Compositions :
        /\ IsFiniteSet(c.bindings)
        /\ \A p \in c.evaluator.policies :
              /\ p.effect \in {"allow", "require_approval", "deny"}
              /\ p.priority \in Int

VARIABLES
    composed,  \* the composition of this process
    request,   \* the request that is being answered
    pc,        \* where its handler is
    seen,      \* what the handler has read
    outcome,   \* what it answers
    hits,      \* the versions it names, best first
    planned,   \* the credential of the call it plans
    serial,    \* the number of the request
    denials,   \* the requests with a scope denial in the audit log
    lost,      \* whether the audit of this request failed
    last       \* the last answer that named tools

requestVars == <<request, pc, seen, outcome, hits, planned, lost>>
discoveryVars == <<composed, requestVars, serial, denials, last>>

\* The errors that are a ToolsetScopeError.
ScopeErrors == {"toolset_not_found", "toolset_not_active",
                "toolset_access_denied", "toolset_member_unavailable"}
NoPlan == [secret |-> "no_plan"]
NoRequest == [kind |-> "none"]
NoAnswer == [tools |-> {}, kind |-> "none"]
NothingSeen ==
    [allowed |-> {}, members |-> {}, unavailable |-> {}, mode |-> "none",
     tools |-> {}, faulted |-> FALSE,
     lexical |-> <<>>, lexical_read |-> FALSE,
     vector |-> <<>>, vector_at |-> "embed", eligible |-> 0, indexed |-> 0,
     fetched |-> 0, version |-> {}, effect |-> "none"]

\* The principal of a request: the static service, or the bearer's.
PrincipalOf(header) ==
    IF composed.identity = "static" THEN "service"
    ELSE authenticate(Identities, header, "local")
Principal == PrincipalOf(request.header)

\* Everything but the handler's own progress is as it was.
Handling == UNCHANGED <<storeVars, composed, request, planned, serial,
                        denials, lost, last>>

Goto(label) == pc' = label
Fail(code) == outcome' = code /\ Goto("answered")

-----------------------------------------------------------------------------
(***************************************************************************)
(* A request and its endpoint                                              *)
(***************************************************************************)
\* ModernToolsetEndpoint: a scoped endpoint speaks the modern protocol only.
Supported(r) == r.scope = "toolset" => r.era = "modern"

\* RequestStateBoundary: a state that the client sends back is one that the
\* gateway gave it for a call of this tool.
Sealed(r) == r.resume => approval.status # "none" /\ approval.tool = r.tool

\* The context of the request, before anything is read.
Receive(r) ==
    /\ pc = "idle"
    /\ serial < MaxRequests
    /\ Sealed(r)
    /\ request' = r
    /\ serial' = serial + 1
    /\ seen' = NothingSeen
    /\ hits' = <<>>
    /\ planned' = NoPlan
    /\ lost' = FALSE
    /\ BeginReading
    /\ LET admin == r.kind \in {"lab", "catalog"}
       IN IF ~Supported(r) THEN Fail("unsupported_protocol")
          ELSE IF ~admin /\ PrincipalOf(r.header) = Unauthenticated
          THEN Fail("authentication_failed")
          ELSE /\ outcome' = "none"
               /\ Goto(IF admin THEN "search" ELSE "toolsets")
    /\ UNCHANGED <<composed, denials, last>>

\* _require_scoped_access.
ScopedOutcome ==
    IF toolset.status = "absent" THEN "toolset_not_found"
    ELSE IF toolset.status # "active" THEN "toolset_not_active"
    ELSE IF ~toolset.granted THEN "toolset_access_denied" ELSE "none"

\* A denial is recorded before it is answered, if it is that of a call.
Denied(code) ==
    /\ outcome' = code
    /\ Goto(IF request.kind \in {"search", "call"} /\ code \in ScopeErrors
            THEN "deny" ELSE "answered")

\* The members that are still there by name, and those that are not published.
Known(members) ==
    {t \in members : \E v \in Versions :
                         ToolOf[v] = t /\ status[v] # "absent"}
Unavailable(members) ==
    {t \in Known(members) : \A v \in Published : ToolOf[v] # t}

\* ResolveToolsetAccess: the toolsets and their members.  The statements
\* that load one toolset, and what may commit between them, are the subject
\* of ToolsetAdmin.
ReadToolsets ==
    /\ pc = "toolsets"
    /\ IF request.scope = "toolset" /\ ScopedOutcome # "none"
       THEN Denied(ScopedOutcome) /\ UNCHANGED seen
       ELSE /\ seen' = [seen EXCEPT
                          !.allowed = Granted(request.scope),
                          !.members = Known(Granted("toolset")),
                          !.unavailable = Unavailable(Granted("toolset")),
                          !.mode = toolset.mode]
            /\ Goto("published")
            /\ UNCHANGED outcome
    /\ Handling
    /\ UNCHANGED hits

\* The published versions of the allowed tools that the caller may see.
Eligible(allowed) ==
    {v \in Published : /\ ToolOf[v] \in allowed
                       /\ is_visible_to(Visibility[v], Principal)}

\* _search_first and _meta_search_visible.
SearchFirst ==
    IF request.scope = "root" THEN composed.search_first
    ELSE seen.mode = "search_first"
MetaSearchVisible == request.scope = "root" \/ SearchFirst

require_business_tool(eligible, unavailable, tool) ==
    IF \E v \in eligible : ToolOf[v] = tool THEN "none"
    ELSE IF tool \in unavailable THEN "toolset_member_unavailable"
    ELSE "toolset_access_denied"

\* The list by name: what can be listed, as the sequences that are sorted.
ListNames(eligible) ==
    {s \in SetToSeqs(IF SearchFirst THEN {} ELSE eligible) :
        \A i, j \in DOMAIN s :
            i < j => NameOrder[ToolOf[s[i]]] <= NameOrder[ToolOf[s[j]]]}

\* The published tools, in a session of its own, and what follows from the
\* access: on_list_tools answers, a search begins, a call goes on.
ReadPublished ==
    /\ pc = "published"
    /\ LET eligible == Eligible(seen.allowed)
           gone == {t \in seen.members : \A v \in Published : ToolOf[v] # t}
           refused == require_business_tool(
                          eligible, seen.unavailable \union gone, request.tool)
       IN /\ seen' = [seen EXCEPT !.tools = eligible]
          /\ \/ /\ request.kind = "list"
                /\ outcome' = "listed"
                /\ hits' \in ListNames(eligible)
                /\ Goto("answered")
             \/ /\ request.kind = "search"
                /\ IF ~MetaSearchVisible THEN Denied("toolset_access_denied")
                   ELSE Goto("search") /\ UNCHANGED outcome
                /\ UNCHANGED hits
             \/ /\ request.kind = "call"
                /\ IF refused # "none" THEN Denied(refused)
                   ELSE Goto("approval") /\ UNCHANGED outcome
                /\ UNCHANGED hits
    /\ Handling

\* The audit failed, is logged, and the denial stands.
AuditFailed == outcome

\* _record_scope_denial.
RecordDenial ==
    /\ pc = "deny"
    /\ \/ denials' = denials \union {serial} /\ UNCHANGED <<outcome, lost>>
       \/ /\ Faults
          /\ lost' = TRUE
          /\ outcome' = AuditFailed
          /\ UNCHANGED denials
    /\ Goto("answered")
    /\ UNCHANGED <<storeVars, composed, request, seen, hits, planned, serial,
                   last>>

-----------------------------------------------------------------------------
(***************************************************************************)
(* SearchTools                                                             *)
(***************************************************************************)
\* More candidates are fetched than hits are wanted, as the policy may leave
\* some out.  The control plane's plain search of the catalog has no policy.
SearchLimit == LET wanted == IF request.kind = "catalog" THEN request.limit
                             ELSE OverfetchFactor * request.limit
               IN IF wanted < MaxFetch THEN wanted ELSE MaxFetch

\* The tools a search is confined to: the control plane's are not.
Unconfined == request.kind \in {"lab", "catalog"}
Searchable == IF Unconfined THEN Tools
              ELSE {ToolOf[v] : v \in seen.tools}

SearchPrincipal == IF Unconfined THEN "administrator" ELSE Principal

\* The scope filters of both statements.
InSearchScope ==
    {v \in Published : /\ ToolOf[v] \in Searchable
                       /\ is_visible_to(Visibility[v], SearchPrincipal)}

\* The elements of a sequence that are in a set, and the first few of them.
Only(s, S) ==
    LET kept[i \in 0..Len(s)] ==
            IF i = 0 THEN <<>>
            ELSE IF s[i] \in S THEN Append(kept[i - 1], s[i]) ELSE kept[i - 1]
    IN  kept[Len(s)]
First(s, n) == SubSeq(s, 1, IF Len(s) < n THEN Len(s) ELSE n)

Candidates(order, S) == First(Only(order, S), SearchLimit)

\* The arguments of the meta tool, and the modes that are composed.
StartSearch ==
    /\ pc = "search"
    /\ IF request.limit \notin 1..MaxLimit THEN Fail("invalid_arguments")
       ELSE IF request.mode = "hybrid" /\ ~composed.hybrid
       THEN Fail("search_mode_unavailable")
       ELSE Goto("searching") /\ UNCHANGED outcome
    /\ seen' = [seen EXCEPT !.vector_at =
                   IF request.mode = "lexical" THEN "read"
                   ELSE IF Searchable = {} THEN "read" ELSE "embed"]
    /\ Handling
    /\ UNCHANGED hits

\* SearchPublishedTools.execute, and the statement of the full-text search.
ReadLexical ==
    /\ pc = "searching"
    /\ ~seen.lexical_read
    /\ seen' = [seen EXCEPT !.lexical_read = TRUE,
                            !.lexical = Candidates(LexicalOrder, InSearchScope)]
    /\ Handling
    /\ UNCHANGED <<pc, outcome, hits>>

\* The text is embedded; the provider may fail.
EmbedQuery ==
    /\ pc = "searching"
    /\ seen.vector_at = "embed"
    /\ \/ seen' = [seen EXCEPT !.vector_at = "coverage"]
          /\ UNCHANGED <<pc, outcome>>
       \/ Faults /\ Fail("embedding_failed") /\ UNCHANGED seen
    /\ Handling
    /\ UNCHANGED hits

Indexed(S) == Cardinality(S \intersect embedded)

\* The first statement of the vector search counts.
ReadCoverage ==
    /\ pc = "searching"
    /\ seen.vector_at = "coverage"
    /\ seen' = [seen EXCEPT !.vector_at = "candidates",
                            !.indexed = Indexed(InSearchScope),
                            !.eligible = Cardinality(InSearchScope)]
    /\ Handling
    /\ UNCHANGED <<pc, outcome, hits>>

\* The second finds; VectorSearchResult refuses more hits than were counted,
\* and an index that has none of the tools in scope is no index.
ReadCandidates ==
    /\ pc = "searching"
    /\ seen.vector_at = "candidates"
    /\ LET found == Candidates(VectorOrder, InSearchScope \intersect embedded)
       IN IF Len(found) > seen.indexed
          THEN Fail("internal_error") /\ UNCHANGED seen
          ELSE IF seen.eligible > 0 /\ seen.indexed = 0
          THEN Fail("search_mode_unavailable") /\ UNCHANGED seen
          ELSE /\ seen' = [seen EXCEPT !.vector_at = "read", !.vector = found]
               /\ UNCHANGED <<pc, outcome>>
    /\ Handling
    /\ UNCHANGED hits

-----------------------------------------------------------------------------
\* The place of a version in a ranking, and its share of the score there: a
\* fraction of two naturals.
Place(ranking, v) == CHOOSE i \in 1..Len(ranking) : ranking[i] = v
Share(ranking, v) ==
    IF v \in ToSet(ranking) THEN <<1, RankConstant + Place(ranking, v)>>
    ELSE <<0, 1>>

\* The sum of the shares.
Score(v) ==
    LET a == Share(seen.lexical, v)
        b == Share(seen.vector, v)
    IN <<a[1] * b[2] + b[1] * a[2], a[2] * b[2]>>

\* Mutation: only what both searches have found is kept.
Fusible_Both == ToSet(seen.lexical) \intersect ToSet(seen.vector)

Fusible == ToSet(seen.lexical) \union ToSet(seen.vector)

\* ReciprocalRankFusion.fuse: by score, then by name, then by the version,
\* every version once.
fuse ==
    LET before(v, w) ==
            LET a == Score(v)[1] * Score(w)[2]
                b == Score(w)[1] * Score(v)[2]
                m == NameOrder[ToolOf[v]]
                n == NameOrder[ToolOf[w]]
            IN a > b \/ (a = b /\ (m < n \/ (m = n /\ v < w)))
    IN {First(s, SearchLimit) : s \in {t \in SetToSeqs(Fusible) :
           \A i, j \in DOMAIN t : i < j => before(t[i], t[j])}}

\* The versions that the policy does not deny.
Permitted ==
    {v \in Versions : evaluate(composed.evaluator, SearchPrincipal, ToolOf[v],
                               SideEffect[v]) # "deny"}

\* Mutation: everything that the policy does not deny.
Allowed_Unlimited(found) ==
    Only(found, IF request.kind = "catalog" THEN Versions ELSE Permitted)

\* What the policy does not deny, up to the limit.
Allowed(found) ==
    First(Only(found, IF request.kind = "catalog" THEN Versions ELSE Permitted),
          request.limit)

\* _filter_search_result.
InAccess(found) ==
    IF Unconfined THEN found
    ELSE Only(found, {v \in Versions : ToolOf[v] \in Searchable})

FinishSearch ==
    /\ pc = "searching"
    /\ seen.lexical_read
    /\ seen.vector_at = "read"
    /\ \E found \in IF request.mode = "hybrid" THEN fuse ELSE {seen.lexical} :
          /\ hits' = InAccess(Allowed(found))
          /\ seen' = [seen EXCEPT !.fetched = Len(found)]
    /\ outcome' = "found"
    /\ Goto("answered")
    /\ Handling

-----------------------------------------------------------------------------
(***************************************************************************)
(* tools/call, to the plan of the execution                                *)
(***************************************************************************)
Consents(response) == response = "accept"

\* _resolve_interactive_approval: the client's response is a decision, in a
\* transaction of its own, before the call goes on.
DecideElicited ==
    /\ pc = "approval"
    /\ LET decides == request.response \in {"accept", "decline"}
       IN IF request.response = "none"
          THEN Goto("resolve") /\ UNCHANGED <<approval, outcome>>
          ELSE IF ~request.resume \/ ~decides
          THEN Fail("approval_mismatch") /\ UNCHANGED approval
          ELSE IF approval.status = "none"
          THEN Fail("approval_not_found") /\ UNCHANGED approval
          ELSE IF approval.status # "pending"
          THEN Fail("approval_invalid_state") /\ UNCHANGED approval
          ELSE /\ approval' = [approval EXCEPT
                                 !.status = Decided(Consents(request.response))]
               /\ Goto("resolve")
               /\ UNCHANGED outcome
    /\ UNCHANGED <<status, embedded, usable, toolset, rootAll, rows, writes,
                   quiet, watch, composed, request, seen, hits, planned,
                   serial, denials, lost, last>>

\* The arguments fit the schema, and there is an idempotency key exactly when
\* the version is an idempotent write.
ArgumentError(v) ==
    IF ~request.valid THEN "invalid_arguments"
    ELSE IF request.key = "given" /\ SideEffect[v] # "idempotent_write"
    THEN "invalid_arguments"
    ELSE IF request.key = "none" /\ SideEffect[v] = "idempotent_write"
    THEN "idempotency_key_required"
    ELSE "none"

\* The form of the idempotency key is looked at, CallTool.execute resolves
\* the name once more, and the policy decides.
Resolve ==
    /\ pc = "resolve"
    /\ LET executable == {v \in Published : /\ ToolOf[v] = request.tool
                                            /\ request.tool \in usable}
           v == CHOOSE w \in executable : TRUE
           effect == evaluate(composed.evaluator, Principal, request.tool,
                              SideEffect[v])
       IN IF request.key = "malformed"
          THEN Fail("invalid_arguments") /\ UNCHANGED seen
          ELSE IF executable = {}
          THEN Fail("tool_not_found") /\ UNCHANGED seen
          ELSE IF ~is_visible_to(Visibility[v], Principal)
          THEN Fail("tool_not_visible") /\ UNCHANGED seen
          ELSE IF ArgumentError(v) # "none"
          THEN Fail(ArgumentError(v)) /\ UNCHANGED seen
          ELSE IF effect = "deny"
          THEN Fail("authorization_failed") /\ UNCHANGED seen
          ELSE /\ seen' = [seen EXCEPT !.version = {v}, !.effect = effect]
               /\ Goto(IF effect = "require_approval" /\ ~request.resume
                       THEN "request" ELSE "plan")
               /\ UNCHANGED outcome
    /\ Handling
    /\ UNCHANGED hits

\* _pass_approval_gate without an approval: one is requested, and the client
\* that can answer is asked.
RequestApproval ==
    /\ pc = "request"
    /\ approval' = [status |-> "pending", tool |-> request.tool,
                    version |-> seen.version, principal |-> Principal]
    /\ outcome' = IF request.era = "modern" THEN "input_required"
                  ELSE "approval_required"
    /\ Goto("answered")
    /\ UNCHANGED <<status, embedded, usable, toolset, rootAll, rows, writes,
                   quiet, watch, composed, request, seen, hits, planned,
                   serial, denials, lost, last>>

\* What refuses a plan and is not of this model: the egress policy
\* (EgressPolicy), or an earlier call with the same key (ToolCall).
RefusePlan ==
    /\ pc = "plan"
    /\ \/ Fail("unsafe_upstream_endpoint")
       \/ request.key = "given" /\ Fail("idempotency_conflict")
    /\ Handling
    /\ UNCHANGED <<seen, hits>>

\* _resolve_credential_binding.
Credential ==
    IF composed.auth_scheme = "none" THEN [secret |-> "none"]
    ELSE resolve_binding(composed.bindings, Principal, request.tool,
                         request.tool)

\* The state in which consume_locked_approval accepts an approval, and the
\* call it accepts it for.
Unconsumable ==
    CASE approval.status = "none" -> "approval_not_found"
      [] approval.status = "pending" -> "approval_pending"
      [] approval.status = "rejected" -> "approval_rejected"
      [] approval.status = "consumed" -> "approval_already_consumed"
      [] OTHER -> IF \/ approval.principal # Principal
                     \/ approval.version # seen.version
                  THEN "approval_mismatch" ELSE "none"

\* The credential is chosen and the execution planned; its approval is
\* consumed in the same transaction, which a version that is gone fails.
Plan ==
    /\ pc = "plan"
    /\ LET gated == seen.effect = "require_approval" IN
       IF Credential = Ambiguous
       THEN Fail("credential_binding_conflict") /\ UNCHANGED <<approval, planned>>
       ELSE IF Credential = NoBinding
       THEN Fail("credential_binding_not_found") /\ UNCHANGED <<approval, planned>>
       ELSE IF gated /\ Unconsumable # "none"
       THEN Fail(Unconsumable) /\ UNCHANGED <<approval, planned>>
       ELSE IF \E v \in seen.version : status[v] = "absent"
       THEN Fail("internal_error") /\ UNCHANGED <<approval, planned>>
       ELSE /\ approval' = IF gated THEN [approval EXCEPT !.status = "consumed"]
                           ELSE approval
            /\ planned' = Credential
            /\ outcome' = "planned"
            /\ Goto("answered")
    /\ UNCHANGED <<status, embedded, usable, toolset, rootAll, rows, writes,
                   quiet, watch, composed, request, seen, hits, serial,
                   denials, lost, last>>

-----------------------------------------------------------------------------
\* A statement or a transaction of the handler fails.
StatementFails ==
    /\ Faults
    /\ pc \in {"toolsets", "published", "searching", "approval", "resolve",
               "request", "plan"}
    /\ Fail("internal_error")
    /\ seen' = [seen EXCEPT !.faulted = TRUE]
    /\ Handling
    /\ UNCHANGED hits

\* The client has its answer, and remembers what it was told of.
Answered ==
    /\ pc = "answered"
    /\ Goto("idle")
    /\ last' = IF outcome \in {"listed", "found"}
               THEN [tools |-> {ToolOf[v] : v \in ToSet(hits)},
                     kind |-> request.kind, request |-> request]
               ELSE NoAnswer
    /\ request' = NoRequest
    /\ seen' = NothingSeen
    /\ outcome' = "none"
    /\ hits' = <<>>
    /\ planned' = NoPlan
    /\ lost' = FALSE
    /\ UNCHANGED <<storeVars, composed, serial, denials>>

DiscoveryInit ==
    /\ composed \in Compositions
    /\ request = NoRequest
    /\ pc = "idle"
    /\ seen = NothingSeen
    /\ outcome = "none"
    /\ hits = <<>>
    /\ planned = NoPlan
    /\ serial = 0
    /\ denials = {}
    /\ lost = FALSE
    /\ last = NoAnswer

DiscoveryStep ==
    \/ ReadToolsets \/ ReadPublished \/ RecordDenial
    \/ StartSearch \/ ReadLexical \/ EmbedQuery \/ ReadCoverage
    \/ ReadCandidates \/ FinishSearch
    \/ DecideElicited \/ Resolve \/ RequestApproval \/ RefusePlan \/ Plan
    \/ StatementFails \/ Answered
=============================================================================
