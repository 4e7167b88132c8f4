-------------------------- MODULE ExecutionDomain --------------------------
(***************************************************************************)
(* The pure part of the execution context: the enumerations of             *)
(* execution/domain.py and approval/domain.py, the retry decision, and the *)
(* outcome an executor hands to its caller.                                *)
(***************************************************************************)
EXTENDS Naturals

(***************************************************************************)
(* Enumerations.  "none" stands for a row that does not exist.             *)
(***************************************************************************)
SideEffects ==
    {"read_only", "idempotent_write", "non_idempotent_write", "unknown"}

TerminalStatuses == {"succeeded", "failed", "unknown", "cancelled"}
ExecutionStatuses == {"none", "running"} \union TerminalStatuses
AttemptStatuses == ExecutionStatuses

ErrorCategories ==
    {"validation", "authentication", "authorization", "approval",
     "credential", "timeout_before_send", "timeout_after_send", "network",
     "upstream_4xx", "upstream_5xx", "cancelled", "unknown"}

ApprovalStatuses ==
    {"none", "pending", "approved", "rejected", "expired", "consumed"}

PolicyEffects == {"allow", "deny", "require_approval"}

(***************************************************************************)
(* What ends an attempt, and then the call: a result, an ExecutorFailure   *)
(* with its category and its outcome_unknown flag, any other exception, or *)
(* asyncio.CancelledError.                                                 *)
(***************************************************************************)
Outcomes ==
    [kind: {"result", "failure", "exception", "cancelled"},
     category: ErrorCategories,
     outcome_unknown: BOOLEAN]

Outcome(kind, category, unknown) ==
    [kind |-> kind, category |-> category, outcome_unknown |-> unknown]

ExecutorResult == Outcome("result", "unknown", FALSE)
ExecutorFailure(category, unknown) == Outcome("failure", category, unknown)
UnexpectedException == Outcome("exception", "unknown", TRUE)
CancelledError == Outcome("cancelled", "cancelled", FALSE)

(***************************************************************************)
(* retry_disposition: whether a failed attempt may be repeated.            *)
(***************************************************************************)
RetryDispositions == {"retry", "do_not_retry", "require_reconciliation"}

FinalCategories ==
    {"validation", "authentication", "authorization", "approval",
     "credential", "upstream_4xx", "cancelled"}

RetryableCategories ==
    {"timeout_before_send", "timeout_after_send", "network", "upstream_5xx",
     "unknown"}

\* Mutation: a write without idempotency is retried like a read.
retry_disposition_BlindWrites(sideEffect, category, hasKey) ==
    IF category \in RetryableCategories THEN "retry" ELSE "do_not_retry"

retry_disposition(sideEffect, category, hasKey) ==
    IF category \in FinalCategories THEN "do_not_retry"
    ELSE IF /\ category \in {"timeout_after_send", "unknown"}
            /\ sideEffect \in {"non_idempotent_write", "unknown"}
         THEN "require_reconciliation"
    ELSE IF /\ category \in RetryableCategories
            /\ \/ sideEffect = "read_only"
               \/ sideEffect = "idempotent_write" /\ hasKey
         THEN "retry"
    ELSE "do_not_retry"

(***************************************************************************)
(* The terminal status fail_attempt/fail/succeed/cancel record.            *)
(***************************************************************************)
TerminalStatus(outcome) ==
    CASE outcome.kind = "result"    -> "succeeded"
      [] outcome.kind = "cancelled" -> "cancelled"
      [] outcome.kind = "exception" -> "unknown"
      [] outcome.kind = "failure"   ->
             IF outcome.outcome_unknown THEN "unknown" ELSE "failed"

\* Mutation: the flag is cleared whatever the side effect.
RaisedByRetry_AllCleared(outcome, sideEffect, hasKey) ==
    [outcome EXCEPT !.outcome_unknown = FALSE]

(***************************************************************************)
(* The failure ExecuteWithRetry re-raises when it gives up: a read that    *)
(* timed out had no side effect, so its outcome is not unknown any more.   *)
(***************************************************************************)
RaisedByRetry(outcome, sideEffect, hasKey) ==
    IF /\ outcome.kind = "failure"
       /\ sideEffect = "read_only"
       /\ retry_disposition(sideEffect, outcome.category, hasKey)
              # "require_reconciliation"
    THEN [outcome EXCEPT !.outcome_unknown = FALSE]
    ELSE outcome
=============================================================================
