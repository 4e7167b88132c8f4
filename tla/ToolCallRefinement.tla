------------------------ MODULE ToolCallRefinement --------------------------
(***************************************************************************)
(* ToolCall implements Governance: approval rows are the tokens, execution *)
(* rows the intents.                                                       *)
(***************************************************************************)
EXTENDS ToolCall

TokenOf(status) ==
    CASE status = "none"     -> "unasked"
      [] status = "pending"  -> "asked"
      [] status = "approved" -> "granted"
      [] status = "consumed" -> "spent"
      [] status \in {"rejected", "expired"} -> "closed"

IntentOf(status) ==
    CASE status = "none"    -> "new"
      [] status = "running" -> "open"
      [] OTHER              -> status

\* The five columns an approval is bound to.
Binding(r) ==
    [principal |-> r.principal, version |-> r.version, digest |-> r.digest,
     policy |-> r.policy, key |-> r.key]

G == INSTANCE Governance WITH
        Terms    <- {Binding(r) : r \in Requests},
        Verdicts <- TerminalStatuses,
        terms    <- [c \in Calls |-> Binding(request[c])],
        free     <- {c \in Calls : request[c].effect = "allow"},
        token    <- [a \in Calls |-> TokenOf(approvals[a].status)],
        intent   <- [c \in Calls |-> IntentOf(executions[c].status)],
        basis    <- [c \in Calls |-> executions[c].approval]

\* The gateway keeps the promise of Governance: single-use tokens spent in
\* one step with the admission of the call they were granted for, and
\* intents admitted once and settled once.
ImplementsGovernance == G!GSpec
=============================================================================
