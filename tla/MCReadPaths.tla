---------------------------- MODULE MCReadPaths ----------------------------
(***************************************************************************)
(* Two tools, each with a second version on its way, that of the second    *)
(* tool restricted; two versions match the text, and one has an embedding  *)
(* to begin with: in the second store a version that is retired.           *)
(***************************************************************************)
EXTENDS ReadPaths

MCTools == {"alpha", "beta"}
MCVersions == 1..4
MCToolOf == <<"alpha", "alpha", "beta", "beta">>
MCNameOrder == [alpha |-> 1, beta |-> 2]
MCVisibility == <<"public", "authenticated", "authenticated", "restricted">>
MCSideEffect == <<"read_only", "read_only", "idempotent_write",
                  "non_idempotent_write">>
MCLexicalOrder == <<3, 1>>
MCVectorOrder == <<4, 2, 1, 3>>
MCMemberSets == {{"alpha"}, {"beta"}}

\* Three rows, the last two of one moment.
MCRows == 1..3
MCRecency == <<2, 1, 1>>
MCMarked == {1, 3}

Store1 ==
    [status |-> <<"published", "draft", "published", "draft">>, embedded |-> {3},
     toolset |-> [status |-> "active", members |-> {"alpha", "beta"},
                  granted |-> TRUE, mode |-> "eager"],
     rootAll |-> FALSE, rows |-> [r \in {2, 3} |-> "open"]]
Store2 ==
    [Store1 EXCEPT !.toolset.mode = "search_first", !.toolset.members = {"alpha"},
                   !.status = <<"retired", "published", "published", "draft">>,
                   !.rootAll = TRUE, !.embedded = {1}]
MCStores == {Store1, Store2}

MCIdentities == [t1 |-> [id |-> "agent", tenant |-> "local"],
                 t2 |-> [id |-> "stranger", tenant |-> "other"],
                 t3 |-> [id |-> "second agent", tenant |-> "local"]]
Bearer(t) == [scheme |-> "bearer", token |-> t]

Rule(s, t, p, e) ==
    [status |-> "active", subject |-> s, tool |-> t, priority |-> p, effect |-> e]
Binding(s, t, u) ==
    [status |-> "active", subject |-> s, tool |-> t, upstream |-> u,
     secret |-> "first"]

\* A process with bearers and rules, one for a single service, and one whose
\* rules and bindings are in each other's way.
MCCompositions ==
    {[identity |-> "bearer", search_first |-> FALSE, hybrid |-> TRUE,
      evaluator |-> [kind |-> "rules",
                     policies |-> {Rule(Tenant, AnyTool, 0, "allow"),
                                   Rule(Tenant, "beta", 0, "allow"),
                                   Rule("agent", "beta", 1, "require_approval")}],
      bindings |-> {Binding(Tenant, AnyTool, "alpha"),
                    Binding("agent", AnyTool, "alpha"),
                    Binding(Tenant, "beta", "beta")},
      auth_scheme |-> "bearer"],
     [identity |-> "static", search_first |-> TRUE, hybrid |-> FALSE,
      evaluator |-> [kind |-> "static", policies |-> {}],
      bindings |-> {}, auth_scheme |-> "none"],
     [identity |-> "bearer", search_first |-> FALSE, hybrid |-> TRUE,
      evaluator |-> [kind |-> "rules",
                     policies |-> {Rule(Tenant, AnyTool, 1, "allow"),
                                   Rule("agent", "beta", 1, "deny"),
                                   Rule("agent", "beta", 1, "allow")}],
      bindings |-> {Binding("agent", AnyTool, "alpha"),
                    [Binding("agent", AnyTool, "alpha")
                        EXCEPT !.secret = "second"],
                    Binding(Tenant, AnyTool, "beta")},
      auth_scheme |-> "bearer"]}

Base == [kind |-> "list", scope |-> "root", era |-> "modern",
         header |-> Bearer("t1"), mode |-> "lexical", limit |-> 2,
         tool |-> "alpha", resume |-> FALSE, response |-> "none",
         valid |-> TRUE, key |-> "none"]
Call(t) == [Base EXCEPT !.kind = "call", !.tool = t,
                        !.key = IF t = "beta" THEN "given" ELSE "none"]
Search(mode, limit) ==
    [Base EXCEPT !.kind = "search", !.mode = mode, !.limit = limit]

MCRequests ==
    {Base, [Base EXCEPT !.scope = "toolset"],
     [Base EXCEPT !.header = Bearer("t2")],
     [Base EXCEPT !.scope = "toolset", !.era = "legacy"],
     Search("lexical", 2), Search("lexical", 0), Search("hybrid", 1),
     [Search("hybrid", 2) EXCEPT !.scope = "toolset"],
     [Search("hybrid", 2) EXCEPT !.kind = "lab"],
     [Search("lexical", 1) EXCEPT !.kind = "catalog"],
     Call("alpha"), Call("beta"),
     [Call("alpha") EXCEPT !.valid = FALSE], [Call("alpha") EXCEPT !.key = "given"],
     [Call("beta") EXCEPT !.key = "none"],
     [Call("beta") EXCEPT !.scope = "toolset"],
     [Call("beta") EXCEPT !.era = "legacy"]}
    \union {[Call("beta") EXCEPT !.resume = TRUE, !.response = r] :
               r \in {"none", "accept", "decline", "malformed"}}
    \union {[Call("beta") EXCEPT !.resume = TRUE, !.response = "accept",
                                 !.key = "malformed"],
            [Call("beta") EXCEPT !.resume = TRUE, !.response = "decline",
                                 !.header = Bearer("t3")]}

Walk(list, filter, limit) == [list |-> list, filter |-> filter, limit |-> limit]

MCQueries ==
    {Walk(list, "none", 1) : list \in {list_recent, list_upstreams, list_tool_versions}}
    \union {Walk(list_executions, filter, 1) :
               filter \in list_executions.filters \union {"none"}}
    \union {Walk(list_audit_events, filter, 2) :
               filter \in list_audit_events.filters}
=============================================================================
