----------------------------- MODULE MCToolCall -----------------------------
(* Instances of ToolCall for TLC: which calls the clients may make.        *)
EXTENDS ToolCall, TLC

\* A request of one principal, with the fields that vary.
Req(version, effect, policy, side, digest, key) ==
    [principal |-> "agent", version |-> version, side_effect |-> side,
     digest |-> digest, key |-> key, effect |-> effect, policy |-> policy]

\* A write under approval that has no key, so that only the approval protects
\* it, the same after the policy was replaced, an idempotent write with other
\* arguments, and one that is denied.
ApprovalRequests ==
    {Req("v1", "require_approval", "p1", "non_idempotent_write", "d1", NoKey),
     Req("v1", "require_approval", "p2", "non_idempotent_write", "d1", NoKey),
     Req("v1", "require_approval", "p1", "idempotent_write", "d2", "k1"),
     Req("v1", "deny", "p1", "idempotent_write", "d2", "k1")}

\* Idempotent writes that share a key, with the same arguments or others, and
\* a write that must not be repeated.
CallRequests ==
    {Req("v1", "allow", "p1", "idempotent_write", "d1", "k1"),
     Req("v1", "allow", "p1", "idempotent_write", "d2", "k1"),
     Req("v2", "allow", "p1", "non_idempotent_write", "d1", NoKey)}

LiveRequests ==
    {Req("v1", "allow", "p1", "idempotent_write", "d1", "k1"),
     Req("v2", "require_approval", "p1", "read_only", "d1", NoKey)}

Symmetry == Permutations(Calls)
=============================================================================
