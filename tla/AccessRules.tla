---------------------------- MODULE AccessRules ----------------------------
(***************************************************************************)
(* Who a caller is, what it may call and with which credential: the rules  *)
(* that the gateway's process is composed with and never changes.          *)
(***************************************************************************)
EXTENDS Naturals, FiniteSets

\* A rule for any tool, a subject that is the whole tenant, and the answers
\* that are no principal and no credential.
AnyTool == "any_tool"
Tenant == "tenant"
Unauthenticated == "unauthenticated"
NoBinding == [secret |-> "no_binding"]
Ambiguous == [secret |-> "ambiguous"]
Anonymous == "anonymous"

\* StaticBearerAgentServiceAuthenticator.authenticate: a bearer token that is
\* known, of a principal of this tenant.
authenticate(identities, header, tenant) ==
    IF /\ header.scheme = "bearer"
       /\ header.token \in DOMAIN identities
       /\ identities[header.token].tenant = tenant
    THEN identities[header.token].id
    ELSE Unauthenticated

\* PublishedTool.is_visible_to, and _is_visible of a resolved tool.
is_visible_to(visibility, principal) ==
    \/ visibility = "public"
    \/ visibility = "authenticated" /\ principal # Anonymous

-----------------------------------------------------------------------------
(***************************************************************************)
(* Policies                                                                *)
(***************************************************************************)
\* _specificity, of a rule that applies: its subject before its tool.
Specificity(rule) ==
    (IF rule.subject = Tenant THEN 10 ELSE 30)
    + (IF rule.tool = AnyTool THEN 0 ELSE 1)

\* The rules that speak of a principal and a tool.
Applicable(rules, principal, tool) ==
    {r \in rules : /\ r.status = "active"
                   /\ r.tool \in {AnyTool, tool}
                   /\ r.subject \in {Tenant, principal}}

MostSpecific(rules) ==
    {r \in rules : \A q \in rules : Specificity(q) <= Specificity(r)}

Finalists(policies, principal, tool) ==
    LET specific == MostSpecific(Applicable(policies, principal, tool))
    IN  {p \in specific : \A q \in specific : q.priority <= p.priority}

\* Mutation: of two rules of one rank the lenient one decides.
Precedence_Lenient(effect) ==
    CASE effect = "deny" -> 1 [] effect = "require_approval" -> 2 [] OTHER -> 3

\* _EFFECT_PRECEDENCE.
Precedence(effect) ==
    CASE effect = "allow" -> 1 [] effect = "require_approval" -> 2 [] OTHER -> 3

\* RuleBasedPolicyEvaluator.evaluate: nothing said is a denial, and between
\* rules of one specificity and priority the strictest decides.
rule_based(policies, principal, tool) ==
    LET finalists == Finalists(policies, principal, tool) IN
    IF finalists = {} THEN "deny"
    ELSE (CHOOSE p \in finalists :
             \A q \in finalists :
                Precedence(q.effect) <= Precedence(p.effect)).effect

\* StaticReadOnlyPolicyEvaluator.evaluate.
static_read_only(side_effect) ==
    IF side_effect = "read_only" THEN "allow" ELSE "deny"

\* The evaluator that the application is composed with.
evaluate(evaluator, principal, tool, side_effect) ==
    IF evaluator.kind = "static"
    THEN static_read_only(side_effect)
    ELSE rule_based(evaluator.policies, principal, tool)

-----------------------------------------------------------------------------
(***************************************************************************)
(* Credentials                                                             *)
(***************************************************************************)
\* Bindings that fit equally well are an error, never a choice.
SelectBinding(finalists) ==
    IF finalists = {} THEN NoBinding
    ELSE IF Cardinality(finalists) # 1 THEN Ambiguous
    ELSE CHOOSE b \in finalists : TRUE

\* InMemoryCredentialBindingResolver.resolve, for the upstream of the tool.
resolve_binding(bindings, principal, tool, upstream) ==
    SelectBinding(
        MostSpecific(Applicable({b \in bindings : b.upstream = upstream},
                                principal, tool)))
=============================================================================
