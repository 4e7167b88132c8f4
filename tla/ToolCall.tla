------------------------------ MODULE ToolCall ------------------------------
(***************************************************************************)
(* The governed tools/call path: CallTool.execute, the ExecutionLifecycle  *)
(* transactions it commits, ExecuteWithRetry and the HTTP executor, and    *)
(* the approval use cases that share the database with them.               *)
(*                                                                         *)
(* Every call is an asyncio task.  An action is one database transaction,  *)
(* or one await between two of them, so calls interleave exactly where the *)
(* code can be suspended.  A call is also the identity of the execution    *)
(* row it plans and of the approval row it requests, for it creates at     *)
(* most one of each.  Row locks (SELECT ... FOR UPDATE) are held to the    *)
(* commit, and the unique-index insert is the last wait of a transaction,  *)
(* so what happens under a lock is one step.                               *)
(***************************************************************************)
EXTENDS ExecutionDomain

CONSTANTS
    Calls,        \* the tools/call requests
    None,         \* no approval id was presented
    Requests,     \* the calls a client may make, with the policy's verdict
    MaxAttempts,  \* settings.tool_retry_max_attempts
    ApprovalTtl,  \* settings.approval_ttl_seconds
    MaxTime,      \* bound of the clock
    Faults        \* which faults may happen

NoKey == "no_key"

ASSUME NoneAssumption == None \notin Calls
ASSUME RequestAssumption ==
    Requests \subseteq
        [principal: STRING, version: STRING, side_effect: SideEffects,
         digest: STRING, key: STRING, effect: PolicyEffects, policy: STRING]
ASSUME BoundAssumption ==
    /\ MaxAttempts \in Nat \ {0}
    /\ ApprovalTtl \in Nat \ {0}
    /\ MaxTime \in Nat
ASSUME FaultAssumption == Faults \subseteq {"cancel", "database", "crash"}

VARIABLES
    \* the tasks
    pc,          \* the await a call is suspended at
    request,     \* its command, the tool it resolved, the policy decision
    presented,   \* command.approval_id
    now,         \* the clock value its transaction uses
    outcome,     \* what the executor raised or returned
    reply,       \* what the client was told
    \* the database
    executions, attempts, approvals, audits,
    \* the world
    wire,        \* per attempt: what became of the upstream request
    time

taskVars == <<pc, request, presented, now, outcome, reply>>
dbVars == <<executions, attempts, approvals, audits>>
vars == <<taskVars, dbVars, wire, time>>

PcValues ==
    {"idle",      \* next: ReceiveCall, RefuseCall
     "prepare",   \* next: Prepare, PrepareFails
     "deny",      \* next: RecordDenial
     "ask",       \* next: RequestApproval
     "lookup",    \* next: LookupKey, KeyReused
     "plan",      \* next: Plan, ApprovalRefused, ApprovalExpires, PlanRace
     "secret",    \* next: ResolveSecret, SecretFails
     "start",     \* next: StartAttempt
     "dispatch",  \* next: Send, NotSent
     "wait",      \* next: Answered, NotAnswered
     "close",     \* next: AttemptRetried, AttemptEnded
     "backoff",   \* next: Resume
     "finish",    \* next: Finish
     "done"}

AuditOutcomes ==
    {"allowed", "denied", "approval_required", "approval_approved",
     "approval_rejected"} \union TerminalStatuses

Replies ==
    {"none", "refused", "denied", "approval_required", "approval_refused",
     "idempotency_conflict", "idempotency_in_progress",
     "idempotency_completed", "idempotency_unknown", "idempotency_failed",
     "idempotency_race", "error"} \union TerminalStatuses

\* A request is unsent, under way, or answered by the upstream with or
\* without its effect.
WireStatuses == {"unsent", "sent", "applied", "rejected"}

AttemptNumbers == 1..MaxAttempts

ExecutionRows ==
    [status: ExecutionStatuses, approval: Calls \union {None},
     attempt_count: 0..MaxAttempts]
ApprovalRows == [status: ApprovalStatuses, expires_at: Nat]

NoExecution == [status |-> "none", approval |-> None, attempt_count |-> 0]
NoApproval == [status |-> "none", expires_at |-> 0]

TypeOK ==
    /\ pc \in [Calls -> PcValues]
    /\ request \in [Calls -> Requests]
    /\ presented \in [Calls -> Calls \union {None}]
    /\ now \in [Calls -> Nat]
    /\ outcome \in [Calls -> Outcomes]
    /\ reply \in [Calls -> Replies]
    /\ executions \in [Calls -> ExecutionRows]
    /\ attempts \in [Calls -> [AttemptNumbers -> AttemptStatuses]]
    /\ approvals \in [Calls -> ApprovalRows]
    /\ audits \in [Calls -> [AuditOutcomes -> Nat]]
    /\ wire \in [Calls -> [AttemptNumbers -> WireStatuses]]
    /\ time \in 0..MaxTime

Init ==
    /\ pc = [c \in Calls |-> "idle"]
    /\ request \in [Calls -> Requests]
    /\ presented = [c \in Calls |-> None]
    /\ now = [c \in Calls |-> 0]
    /\ outcome = [c \in Calls |-> ExecutorResult]
    /\ reply = [c \in Calls |-> "none"]
    /\ executions = [c \in Calls |-> NoExecution]
    /\ attempts = [c \in Calls |-> [i \in AttemptNumbers |-> "none"]]
    /\ approvals = [c \in Calls |-> NoApproval]
    /\ audits = [c \in Calls |-> [o \in AuditOutcomes |-> 0]]
    /\ wire = [c \in Calls |-> [i \in AttemptNumbers |-> "unsent"]]
    /\ time = 0

-----------------------------------------------------------------------------
(***************************************************************************)
(* Helpers                                                                 *)
(***************************************************************************)
Goto(c, label) == pc' = [pc EXCEPT ![c] = label]

\* The call ends and the client sees this answer.
Answer(c, r) ==
    /\ pc' = [pc EXCEPT ![c] = "done"]
    /\ reply' = [reply EXCEPT ![c] = r]

\* What a client is told whose handler is cancelled, or whose database breaks,
\* while it awaits a commit.
Unheard ==
    (IF "cancel" \in Faults THEN {"cancelled"} ELSE {})
    \union (IF "database" \in Faults THEN {"error"} ELSE {})

\* The call ends with its transaction committed, whether its handler hears of
\* the commit or not.
AnswerCommitted(c, r) == \E a \in {r} \union Unheard : Answer(c, a)

\* audits.append in the caller's transaction.
AppendAudit(c, o) == audits' = [audits EXCEPT ![c][o] = @ + 1]

HasKey(c) == request[c].key # NoKey

\* A key is required by, and only accepted for, idempotent writes.
KeyAccepted(c) == HasKey(c) <=> request[c].side_effect = "idempotent_write"

\* The columns of uq_tool_execution_idempotency_scope (the tenant is fixed).
SameScope(c, d) ==
    /\ HasKey(c)
    /\ request[c].key = request[d].key
    /\ request[c].principal = request[d].principal
    /\ request[c].version = request[d].version

\* The executions committed under the call's idempotency key.
InScope(c) == {d \in Calls : executions[d].status # "none" /\ SameScope(c, d)}

\* The approval the plan consumes: presented ids count only when the policy
\* asks for an approval.
PlanApproval(c) ==
    IF request[c].effect = "require_approval" THEN presented[c] ELSE None

\* Mutation: the policy version is not compared.
MatchingCall_AnyPolicy(a, c) ==
    /\ request[a].principal = request[c].principal
    /\ request[a].version = request[c].version
    /\ request[a].digest = request[c].digest
    /\ request[a].key = request[c].key

\* _require_matching_call
MatchingCall(a, c) ==
    /\ request[a].principal = request[c].principal
    /\ request[a].version = request[c].version
    /\ request[a].digest = request[c].digest
    /\ request[a].policy = request[c].policy
    /\ request[a].key = request[c].key

Expired(a, t) == t >= approvals[a].expires_at

-----------------------------------------------------------------------------
(***************************************************************************)
(* CallTool.execute up to the plan                                         *)
(***************************************************************************)
\* The client calls, with or without the id of an approval it was handed;
\* tool, visibility, arguments, key and policy are checked without writing.
ReceiveCall(c) ==
    /\ pc[c] = "idle"
    /\ KeyAccepted(c)
    /\ \E a \in {None} \union {x \in Calls : approvals[x].status # "none"} :
          /\ presented' = [presented EXCEPT ![c] = a]
          /\ Goto(c, CASE request[c].effect = "deny" -> "deny"
                       [] request[c].effect = "require_approval" /\ a = None
                            -> "ask"
                       [] OTHER -> "prepare")
    /\ now' = [now EXCEPT ![c] = time]
    /\ UNCHANGED <<request, outcome, reply, dbVars, wire, time>>

\* Unknown or invisible tool, invalid arguments, missing or misplaced key.
RefuseCall(c) ==
    /\ pc[c] = "idle"
    /\ Answer(c, "refused")
    /\ UNCHANGED <<request, presented, now, outcome, dbVars, wire, time>>

\* record_call_decision
RecordDenial(c) ==
    /\ pc[c] = "deny"
    /\ AppendAudit(c, "denied")
    /\ AnswerCommitted(c, "denied")
    /\ UNCHANGED <<request, presented, now, outcome, executions, attempts,
                   approvals, wire, time>>

\* RequestApproval.execute: the clock was read before the transaction.
RequestApproval(c) ==
    /\ pc[c] = "ask"
    /\ approvals' = [approvals EXCEPT ![c] =
           [status |-> "pending", expires_at |-> now[c] + ApprovalTtl]]
    /\ AppendAudit(c, "approval_required")
    /\ AnswerCommitted(c, "approval_required")
    /\ UNCHANGED <<request, presented, now, outcome, executions, attempts,
                   wire, time>>

\* The endpoint policy and the credential binding are checked, then plan
\* reads the clock.
Prepare(c) ==
    /\ pc[c] = "prepare"
    /\ now' = [now EXCEPT ![c] = time]
    /\ Goto(c, "lookup")
    /\ UNCHANGED <<request, presented, outcome, reply, dbVars, wire, time>>

PrepareFails(c) ==
    /\ pc[c] = "prepare"
    /\ Answer(c, "error")
    /\ UNCHANGED <<request, presented, now, outcome, dbVars, wire, time>>

-----------------------------------------------------------------------------
(***************************************************************************)
(* ExecutionLifecycle.plan: a plain read of the idempotency scope, then    *)
(* the locked consumption of the approval and the insert, in one commit.   *)
(***************************************************************************)
LookupKey(c) ==
    /\ pc[c] = "lookup"
    /\ InScope(c) = {}
    /\ Goto(c, "plan")
    /\ UNCHANGED <<request, presented, now, outcome, reply, dbVars, wire,
                   time>>

\* Mutation: the arguments digest is not compared.
ReuseReply_AnyDigest(c, d) ==
    CASE executions[d].status = "running"   -> "idempotency_in_progress"
      [] executions[d].status = "succeeded" -> "idempotency_completed"
      [] executions[d].status = "unknown"   -> "idempotency_unknown"
      [] OTHER                              -> "idempotency_failed"

\* _raise_idempotency_reuse
ReuseReply(c, d) ==
    IF request[d].digest # request[c].digest THEN "idempotency_conflict"
    ELSE CASE executions[d].status = "running"   -> "idempotency_in_progress"
           [] executions[d].status = "succeeded" -> "idempotency_completed"
           [] executions[d].status = "unknown"   -> "idempotency_unknown"
           [] OTHER                              -> "idempotency_failed"

KeyReused(c) ==
    /\ pc[c] = "lookup"
    /\ \E d \in InScope(c) : Answer(c, ReuseReply(c, d))
    /\ UNCHANGED <<request, presented, now, outcome, dbVars, wire, time>>

\* consume_locked_approval refuses: wrong status, or a different call.
ApprovalRefused(c) ==
    LET a == PlanApproval(c) IN
    /\ pc[c] = "plan"
    /\ a # None
    /\ \/ approvals[a].status # "approved"
       \/ ~Expired(a, now[c]) /\ ~MatchingCall(a, c)
    /\ Answer(c, "approval_refused")
    /\ UNCHANGED <<request, presented, now, outcome, dbVars, wire, time>>

\* An approved approval found expired is saved as expired, whoever asks.
ApprovalExpires(c) ==
    LET a == PlanApproval(c) IN
    /\ pc[c] = "plan"
    /\ a # None
    /\ approvals[a].status = "approved"
    /\ Expired(a, now[c])
    /\ approvals' = [approvals EXCEPT ![a].status = "expired"]
    /\ AnswerCommitted(c, "approval_refused")
    /\ UNCHANGED <<request, presented, now, outcome, executions, attempts,
                   audits, wire, time>>

\* Mutation: the status of the locked row is not looked at.
Consumable_AnyStatus(c) ==
    LET a == PlanApproval(c) IN
    a # None => ~Expired(a, now[c]) /\ MatchingCall(a, c)

\* What consume_locked_approval requires of the locked row.
Consumable(c) ==
    LET a == PlanApproval(c) IN
    a # None => /\ approvals[a].status = "approved"
                /\ ~Expired(a, now[c])
                /\ MatchingCall(a, c)

\* The unique index refuses the insert: everything is rolled back.
PlanRace(c) ==
    /\ pc[c] = "plan"
    /\ Consumable(c)
    /\ InScope(c) # {}
    /\ Answer(c, "idempotency_race")
    /\ UNCHANGED <<request, presented, now, outcome, dbVars, wire, time>>

\* Mutation: the consumed approval is not saved.
ConsumeApproval_NotSaved(a) == UNCHANGED approvals

ConsumeApproval(a) ==
    approvals' = IF a = None THEN approvals
                 ELSE [approvals EXCEPT ![a].status = "consumed"]

\* The execution is committed; a handler that does not hear of it leaves the
\* row running.
GoOnPlanned(c) ==
    \/ Goto(c, "secret") /\ UNCHANGED reply
    \/ \E a \in Unheard : Answer(c, a)

\* Mutation: only the lookup guards the key, no unique index.
Plan_NoUniqueIndex(c) ==
    /\ pc[c] = "plan"
    /\ Consumable(c)
    /\ ConsumeApproval(PlanApproval(c))
    /\ executions' = [executions EXCEPT ![c] =
           [status |-> "running", approval |-> PlanApproval(c),
            attempt_count |-> 0]]
    /\ AppendAudit(c, "allowed")
    /\ GoOnPlanned(c)
    /\ UNCHANGED <<request, presented, now, outcome, attempts, wire, time>>

Plan(c) ==
    /\ pc[c] = "plan"
    /\ Consumable(c)
    /\ InScope(c) = {}
    /\ ConsumeApproval(PlanApproval(c))
    /\ executions' = [executions EXCEPT ![c] =
           [status |-> "running", approval |-> PlanApproval(c),
            attempt_count |-> 0]]
    /\ AppendAudit(c, "allowed")
    /\ GoOnPlanned(c)
    /\ UNCHANGED <<request, presented, now, outcome, attempts, wire, time>>

-----------------------------------------------------------------------------
(***************************************************************************)
(* After the plan: the secret, and ExecuteWithRetry around the executor    *)
(***************************************************************************)
ResolveSecret(c) ==
    /\ pc[c] = "secret"
    /\ Goto(c, "start")
    /\ UNCHANGED <<request, presented, now, outcome, reply, dbVars, wire,
                   time>>

\* Mutation: the failure is raised without being recorded.
SecretFails_NotRecorded(c) ==
    /\ pc[c] = "secret"
    /\ Answer(c, "failed")
    /\ UNCHANGED <<request, presented, now, outcome, dbVars, wire, time>>

SecretFails(c) ==
    /\ pc[c] = "secret"
    /\ outcome' = [outcome EXCEPT ![c] = ExecutorFailure("credential", FALSE)]
    /\ Goto(c, "finish")
    /\ UNCHANGED <<request, presented, now, reply, dbVars, wire, time>>

\* The attempt the executor is working on.
Current(c) == executions[c].attempt_count

\* The transaction of start_attempt.
StartAttemptTx(c) ==
    /\ executions[c].status = "running"
    /\ executions' = [executions EXCEPT ![c].attempt_count = @ + 1]
    /\ attempts' = [attempts EXCEPT ![c][Current(c) + 1] = "running"]

StartAttempt(c) ==
    /\ pc[c] = "start"
    /\ StartAttemptTx(c)
    /\ Goto(c, "dispatch")
    /\ UNCHANGED <<request, presented, now, outcome, reply, approvals,
                   audits, wire, time>>

\* HttpxToolExecutor hands the request to the network.
Send(c) ==
    /\ pc[c] = "dispatch"
    /\ wire' = [wire EXCEPT ![c][Current(c)] = "sent"]
    /\ Goto(c, "wait")
    /\ UNCHANGED <<request, presented, now, outcome, reply, dbVars, time>>

\* The executor ends the attempt with an outcome.
ExecutorEnds(c, o) ==
    /\ outcome' = [outcome EXCEPT ![c] = o]
    /\ Goto(c, "close")
    /\ UNCHANGED <<request, presented, now, reply, dbVars, wire, time>>

\* Refused locally (binding, method, egress, arguments), or never connected:
\* httpx reports a connect timeout as a TimeoutException like any other, and
\* raises what the executor does not classify for an unusable URL.
NotSent(c) ==
    /\ pc[c] = "dispatch"
    /\ \E o \in {ExecutorFailure("validation", FALSE),
                 ExecutorFailure("authorization", FALSE),
                 ExecutorFailure("timeout_after_send", TRUE),
                 ExecutorFailure("network", FALSE),
                 UnexpectedException} : ExecutorEnds(c, o)

\* The answers the executor derives from a response: a readable 2xx, one it
\* cannot use (too large, not JSON, another status), 4xx, 5xx.
ResponseOutcomes(status) ==
    (IF status = "applied"
     THEN {ExecutorResult}
     ELSE {ExecutorFailure("upstream_4xx", FALSE)})
    \union {ExecutorFailure("upstream_5xx", FALSE),
            ExecutorFailure("unknown", FALSE)}

Answered(c) ==
    /\ pc[c] = "wait"
    /\ wire[c][Current(c)] \in {"applied", "rejected"}
    /\ \E o \in ResponseOutcomes(wire[c][Current(c)]) : ExecutorEnds(c, o)

\* Mutation: the client has no timeout.
NotAnswered_NoTimeout(c) ==
    /\ pc[c] = "wait"
    /\ wire[c][Current(c)] # "sent"
    /\ ExecutorEnds(c, UnexpectedException)

\* The timeout fires, the connection breaks, or httpx raises something the
\* executor does not classify, whatever the upstream has done.
NotAnswered(c) ==
    /\ pc[c] = "wait"
    /\ \E o \in {ExecutorFailure("timeout_after_send", TRUE),
                 ExecutorFailure("network", FALSE),
                 UnexpectedException} : ExecutorEnds(c, o)

\* Mutation: every attempt of the execution is updated.
FinishAttemptTx_AllRows(c) ==
    attempts' = [attempts EXCEPT ![c] =
        [i \in AttemptNumbers |->
            IF i <= Current(c) THEN TerminalStatus(outcome[c]) ELSE "none"]]

\* The transaction of succeed_attempt, fail_attempt and cancel_attempt.
FinishAttemptTx(c) ==
    /\ attempts[c][Current(c)] = "running"
    /\ attempts' =
           [attempts EXCEPT ![c][Current(c)] = TerminalStatus(outcome[c])]

\* Mutation: the loop has no bound.
MayRetry_NoBound(c) ==
    /\ outcome[c].kind = "failure"
    /\ retry_disposition(request[c].side_effect, outcome[c].category,
                         HasKey(c)) = "retry"

MayRetry(c) ==
    /\ outcome[c].kind = "failure"
    /\ retry_disposition(request[c].side_effect, outcome[c].category,
                         HasKey(c)) = "retry"
    /\ Current(c) < MaxAttempts

AttemptRetried(c) ==
    /\ pc[c] = "close"
    /\ MayRetry(c)
    /\ FinishAttemptTx(c)
    /\ Goto(c, "backoff")
    /\ UNCHANGED <<request, presented, now, outcome, reply, executions,
                   approvals, audits, wire, time>>

AttemptEnded(c) ==
    /\ pc[c] = "close"
    /\ ~MayRetry(c)
    /\ FinishAttemptTx(c)
    /\ outcome' = [outcome EXCEPT ![c] =
           RaisedByRetry(@, request[c].side_effect, HasKey(c))]
    /\ Goto(c, "finish")
    /\ UNCHANGED <<request, presented, now, reply, executions, approvals,
                   audits, wire, time>>

\* The exponential backoff is over.
Resume(c) ==
    /\ pc[c] = "backoff"
    /\ Goto(c, "start")
    /\ UNCHANGED <<request, presented, now, outcome, reply, dbVars, wire,
                   time>>

\* Mutation: an unknown outcome is audited as a failure.
Finish_AuditsFailure(c) ==
    /\ pc[c] = "finish"
    /\ executions[c].status = "running"
    /\ executions' =
           [executions EXCEPT ![c].status = TerminalStatus(outcome[c])]
    /\ AppendAudit(c, IF TerminalStatus(outcome[c]) = "unknown"
                      THEN "failed" ELSE TerminalStatus(outcome[c]))
    /\ AnswerCommitted(c, TerminalStatus(outcome[c]))
    /\ UNCHANGED <<request, presented, now, outcome, attempts, approvals,
                   wire, time>>

\* ExecutionLifecycle._finish: terminal row and terminal audit together.
Finish(c) ==
    /\ pc[c] = "finish"
    /\ executions[c].status = "running"
    /\ executions' =
           [executions EXCEPT ![c].status = TerminalStatus(outcome[c])]
    /\ AppendAudit(c, TerminalStatus(outcome[c]))
    /\ AnswerCommitted(c, TerminalStatus(outcome[c]))
    /\ UNCHANGED <<request, presented, now, outcome, attempts, approvals,
                   wire, time>>

-----------------------------------------------------------------------------
(***************************************************************************)
(* Faults.  A cancelled task gets CancelledError at the await it is        *)
(* suspended at, and again at later awaits; a database error raises there  *)
(* too; a crash ends the task where it stands.  When the await is a commit *)
(* the transaction may or may not have reached the database: here it has   *)
(* not, AnswerCommitted and GoOnPlanned are what is heard of it otherwise. *)
(***************************************************************************)
\* Nothing is planned yet, or the secret's handler and the final transaction
\* do not catch it: the row, if there is one, stays running.
CancelOutside(c) ==
    /\ "cancel" \in Faults
    /\ pc[c] \in {"prepare", "deny", "ask", "lookup", "plan", "secret",
                  "finish"}
    /\ Answer(c, "cancelled")
    /\ UNCHANGED <<request, presented, now, outcome, dbVars, wire, time>>

\* ExecuteWithRetry catches it around the executor and closes the attempt.
CancelExecutor(c) ==
    /\ "cancel" \in Faults
    /\ pc[c] \in {"dispatch", "wait"}
    /\ ExecutorEnds(c, CancelledError)

DatabaseFailsOutside(c) ==
    /\ "database" \in Faults
    /\ pc[c] \in {"deny", "ask", "lookup", "plan", "finish"}
    /\ Answer(c, "error")
    /\ UNCHANGED <<request, presented, now, outcome, dbVars, wire, time>>

\* What reaches CallTool out of start_attempt, the closing transaction or
\* the backoff.
RaisedInRetryLoop(c) ==
    \/ "cancel" \in Faults /\ outcome' = [outcome EXCEPT ![c] = CancelledError]
    \/ /\ "database" \in Faults
       /\ pc[c] # "backoff"
       /\ outcome' = [outcome EXCEPT ![c] = UnexpectedException]

InterruptRetryLoop(c) ==
    /\ \/ pc[c] = "start" /\ StartAttemptTx(c)
       \/ pc[c] = "close" /\ FinishAttemptTx(c) /\ UNCHANGED executions
       \/ pc[c] \in {"start", "close", "backoff"}
            /\ UNCHANGED <<executions, attempts>>
    /\ RaisedInRetryLoop(c)
    /\ Goto(c, "finish")
    /\ UNCHANGED <<request, presented, now, reply, approvals, audits, wire,
                   time>>

Crash(c) ==
    /\ "crash" \in Faults
    /\ pc[c] \notin {"idle", "done"}
    /\ Goto(c, "done")
    /\ UNCHANGED <<request, presented, now, outcome, reply, dbVars, wire,
                   time>>

-----------------------------------------------------------------------------
(***************************************************************************)
(* Approvers, the upstream, the clock                                      *)
(***************************************************************************)
\* DecideApproval.execute, from the control plane or the client's elicited
\* answer: the clock is read under the row lock.
Decide(a) ==
    /\ approvals[a].status = "pending"
    /\ ~Expired(a, time)
    /\ \E d \in {"approved", "rejected"} :
          /\ approvals' = [approvals EXCEPT ![a].status = d]
          /\ AppendAudit(a, IF d = "approved" THEN "approval_approved"
                                              ELSE "approval_rejected")
    /\ UNCHANGED <<taskVars, executions, attempts, wire, time>>

DecideTooLate(a) ==
    /\ approvals[a].status = "pending"
    /\ Expired(a, time)
    /\ approvals' = [approvals EXCEPT ![a].status = "expired"]
    /\ UNCHANGED <<taskVars, executions, attempts, audits, wire, time>>

\* The upstream handles a request, possibly long after its caller gave up.
UpstreamHandles(c) ==
    \E i \in AttemptNumbers, s \in {"applied", "rejected"} :
        /\ wire[c][i] = "sent"
        /\ wire' = [wire EXCEPT ![c][i] = s]
        /\ UNCHANGED <<taskVars, dbVars, time>>

Tick ==
    /\ time < MaxTime
    /\ time' = time + 1
    /\ UNCHANGED <<taskVars, dbVars, wire>>

\* Every call was answered: nothing need happen any more.
AllAnswered ==
    /\ \A c \in Calls : pc[c] = "done"
    /\ UNCHANGED vars

TaskStep(c) ==
    \/ RecordDenial(c) \/ RequestApproval(c)
    \/ Prepare(c) \/ PrepareFails(c)
    \/ LookupKey(c) \/ KeyReused(c)
    \/ ApprovalRefused(c) \/ ApprovalExpires(c) \/ PlanRace(c) \/ Plan(c)
    \/ ResolveSecret(c) \/ SecretFails(c)
    \/ StartAttempt(c) \/ Send(c) \/ NotSent(c)
    \/ Answered(c) \/ NotAnswered(c)
    \/ AttemptRetried(c) \/ AttemptEnded(c) \/ Resume(c)
    \/ Finish(c)

FaultStep(c) ==
    \/ CancelOutside(c) \/ CancelExecutor(c)
    \/ DatabaseFailsOutside(c) \/ InterruptRetryLoop(c)
    \/ Crash(c)

Next ==
    \/ \E c \in Calls :
          \/ ReceiveCall(c) \/ RefuseCall(c)
          \/ TaskStep(c) \/ FaultStep(c)
          \/ Decide(c) \/ DecideTooLate(c)
          \/ UpstreamHandles(c)
    \/ Tick
    \/ AllAnswered

Spec == Init /\ [][Next]_vars

(***************************************************************************)
(* A task that can run is run by the event loop, and every await of the    *)
(* path ends: the executor has a timeout, the database a connection that   *)
(* answers or breaks.                                                      *)
(***************************************************************************)
FairSpec == Spec /\ \A c \in Calls : WF_vars(TaskStep(c))

-----------------------------------------------------------------------------
(***************************************************************************)
(* Correctness                                                             *)
(***************************************************************************)
Planned(c) == executions[c].status # "none"
Terminal(c) == executions[c].status \in TerminalStatuses
Reached(c, i) == wire[c][i] # "unsent"

\* However many calls present an approval id, at most one execution is
\* planned on it, and the row is consumed exactly when that execution exists
\* (consume_locked_approval and executions.add commit together).
ApprovalSpentOnce ==
    /\ \A c, d \in Calls :
          (executions[c].approval = executions[d].approval
             /\ executions[c].approval # None) => c = d
    /\ \A a \in Calls :
          approvals[a].status = "consumed" <=>
              \E c \in Calls : executions[c].approval = a

\* What runs under a policy that asks for approval is the very call a human
\* approved: same principal, tool version, arguments, policy version and
\* key, with the approval on record (_require_matching_call, DecideApproval).
RanAsApproved ==
    \A c \in Calls :
        Planned(c) /\ request[c].effect = "require_approval" =>
            LET a == executions[c].approval IN
            /\ a \in Calls
            /\ \A f \in {"principal", "version", "digest", "policy", "key"} :
                  request[a][f] = request[c][f]
            /\ audits[a]["approval_approved"] = 1
            /\ audits[a]["approval_rejected"] = 0

\* Of all calls with one idempotency key in one scope, only one is ever
\* planned, so a duplicate never reaches the upstream, not even when both
\* looked the key up before either had committed.
OneIntentPerKey ==
    \A c, d \in Calls :
        c # d /\ SameScope(c, d) /\ (\E i \in AttemptNumbers : Reached(c, i))
            => ~Planned(d) /\ \A i \in AttemptNumbers : ~Reached(d, i)

\* Nothing leaves the gateway before the execution, the ALLOWED audit and the
\* attempt that accounts for it are committed, and nothing a policy denied
\* ever leaves it.
SentOnlyOnRecord ==
    \A c \in Calls, i \in AttemptNumbers :
        Reached(c, i) =>
            /\ Planned(c)
            /\ audits[c]["allowed"] = 1
            /\ request[c].effect # "deny"
            /\ i <= Current(c)
            /\ attempts[c][i] # "none"

\* A write that may not be repeated is sent at most once, through every
\* timeout, retry and cancellation (retry_disposition).
NoBlindResend ==
    \A c \in Calls :
        request[c].side_effect \in {"non_idempotent_write", "unknown"} =>
            \A i, j \in AttemptNumbers :
                Reached(c, i) /\ Reached(c, j) => i = j

\* An attempt of such a write that ended unknown is never reported as failed
\* or succeeded by its execution.
UnknownIsKept ==
    \A c \in Calls, i \in AttemptNumbers :
        /\ request[c].side_effect \in {"non_idempotent_write", "unknown"}
        /\ attempts[c][i] = "unknown"
        => executions[c].status \in {"running", "unknown", "cancelled"}

\* The audit trail tells the state: one ALLOWED per execution, one terminal
\* event with the execution's own status once it is terminal, none before,
\* and no tool-call event that contradicts it (Audit in the same transaction).
AuditMatchesState ==
    \A c \in Calls :
        /\ audits[c]["allowed"] = IF Planned(c) THEN 1 ELSE 0
        /\ \A s \in TerminalStatuses :
              audits[c][s] = IF executions[c].status = s THEN 1 ELSE 0
        /\ audits[c]["approval_required"] =
              IF approvals[c].status = "none" THEN 0 ELSE 1
        /\ Planned(c) => /\ audits[c]["denied"] = 0
                         /\ audits[c]["approval_required"] = 0

\* A succeeded execution rests on a last attempt that succeeded and that the
\* upstream applied; the attempts before it all failed.
SucceededIsReal ==
    \A c \in Calls :
        executions[c].status = "succeeded" =>
            /\ Current(c) > 0
            /\ attempts[c][Current(c)] = "succeeded"
            /\ wire[c][Current(c)] = "applied"
            /\ \A i \in 1..(Current(c) - 1) :
                  attempts[c][i] \in {"failed", "unknown"}

\* Attempt rows are numbered without gaps, only the last can be open, and an
\* execution that is closed over an open attempt admits that it does not
\* know: it is unknown or cancelled, never succeeded or failed.
OpenAttemptIsLast ==
    \A c \in Calls, i \in AttemptNumbers :
        /\ attempts[c][i] # "none" <=> i <= Current(c)
        /\ attempts[c][i] = "running" =>
              /\ i = Current(c)
              /\ executions[c].status \in {"running", "unknown", "cancelled"}

\* A client told that its key was already completed can rely on it: an
\* execution of the same arguments succeeded and the upstream applied it.
CompletedIsTrue ==
    \A c \in Calls :
        reply[c] = "idempotency_completed" =>
            \E d \in Calls :
                /\ SameScope(c, d)
                /\ request[d].digest = request[c].digest
                /\ executions[d].status = "succeeded"
                /\ \E i \in AttemptNumbers : wire[d][i] = "applied"

\* A row is left running only by a handler that was cancelled, lost its
\* database or was killed: whoever is told of a result, a refusal or a failure
\* finds it in the row.
RunningIsInterrupted ==
    \A c \in Calls :
        pc[c] = "done" /\ executions[c].status = "running" =>
            reply[c] \in {"none", "cancelled", "error"}

\* What the rows say of the requests that were sent is true, all through the
\* retry loop: nothing is sent off the record, an unknown write stays unknown,
\* a success happened, only the last attempt can be left open, and a row that
\* stays running was interrupted.
AttemptsTellTruth ==
    /\ RunningIsInterrupted
    /\ SentOnlyOnRecord
    /\ UnknownIsKept
    /\ SucceededIsReal
    /\ OpenAttemptIsLast

\* Terminal executions and terminal attempts never change again, whatever
\* late answers, retries or cancellations do.
TerminalIsFinal ==
    [][\A c \in Calls :
          /\ Terminal(c) => executions'[c] = executions[c]
          /\ \A i \in AttemptNumbers :
                attempts[c][i] \in TerminalStatuses =>
                    attempts'[c][i] = attempts[c][i]]_vars

\* Every call that was received is answered.
EveryCallAnswered ==
    \A c \in Calls : (pc[c] # "idle") ~> (pc[c] = "done")

\* The handler ended without recording a result: its request was cancelled, its
\* database failed, or its process died before it could answer.
Abandoned(c) == pc[c] = "done" /\ reply[c] \in {"none", "cancelled", "error"}

\* Every planned execution reaches a terminal status, unless its handler was
\* interrupted: no answer other than an interruption's leaves it running.
EveryExecutionSettles ==
    \A c \in Calls : Planned(c) ~> (Terminal(c) \/ Abandoned(c))

-----------------------------------------------------------------------------
(***************************************************************************)
(* Why it holds: the inductive invariant                                   *)
(***************************************************************************)
BeforePlan == {"idle", "prepare", "deny", "ask", "lookup", "plan"}
AfterPlan ==
    {"secret", "start", "dispatch", "wait", "close", "backoff", "finish"}

\* A running row belongs to the task that planned it, until that task ends,
\* and a denial ends its call.
OwnerInv ==
    \A c \in Calls :
        /\ pc[c] \in BeforePlan => executions[c].status = "none"
        /\ pc[c] \in AfterPlan => executions[c].status = "running"
        /\ executions[c].status = "none" => executions[c] = NoExecution
        /\ pc[c] = "secret" => Current(c) = 0
        /\ pc[c] # "done" => audits[c]["denied"] = 0

\* A task answers when it ends, and one that was not interrupted has settled
\* its row by then.
ReplyInv ==
    \A c \in Calls :
        /\ pc[c] # "done" => reply[c] = "none"
        /\ pc[c] = "done" /\ executions[c].status = "running" =>
              reply[c] \in {"none", "cancelled", "error"}

\* Approval rows belong to calls that ended without planning anything; what
\* a task carries towards its plan is the id of an existing row.
ApprovalInv ==
    \A c \in Calls :
        /\ approvals[c].status # "none" =>
              /\ pc[c] = "done"
              /\ executions[c].status = "none"
        /\ presented[c] # None => approvals[presented[c]].status # "none"
        /\ pc[c] \in {"prepare", "lookup", "plan"} =>
              /\ request[c].effect # "deny"
              /\ request[c].effect = "require_approval" => presented[c] # None

\* The decision events of an approval follow its status.
DecisionInv ==
    \A a \in Calls :
        /\ approvals[a].status \in {"none", "pending"} =>
              /\ audits[a]["approval_approved"] = 0
              /\ audits[a]["approval_rejected"] = 0
        /\ approvals[a].status \in {"approved", "consumed"} =>
              /\ audits[a]["approval_approved"] = 1
              /\ audits[a]["approval_rejected"] = 0

\* The execution rows obey the unique index and were not denied.
PlanInv ==
    \A c \in Calls :
        Planned(c) =>
            /\ request[c].effect # "deny"
            /\ \A d \in Calls : Planned(d) /\ SameScope(c, d) => c = d

\* The retry loop: a fresh row before every request, closed after it.
AttemptInv ==
    \A c \in Calls :
        /\ pc[c] \in {"start", "backoff"} => Current(c) < MaxAttempts
        /\ pc[c] \in {"dispatch", "wait", "close"} =>
              Current(c) > 0 /\ attempts[c][Current(c)] = "running"
        /\ \A i \in AttemptNumbers :
              /\ attempts[c][i] # "none" <=> i <= Current(c)
              /\ i < Current(c) => attempts[c][i] \in {"failed", "unknown"}
              /\ Reached(c, i) => i <= Current(c)
              /\ pc[c] \in {"start", "backoff"} /\ i = Current(c) =>
                    attempts[c][i] \in {"failed", "unknown"}
              /\ pc[c] = "dispatch" /\ i = Current(c) => ~Reached(c, i)

\* What the retry loop hands to _finish is what the last attempt shows.
OutcomeInv ==
    \A c \in Calls :
        /\ pc[c] = "close" /\ outcome[c].kind = "result" =>
              wire[c][Current(c)] = "applied"
        /\ pc[c] = "finish" /\ outcome[c].kind = "result" =>
              /\ Current(c) > 0
              /\ attempts[c][Current(c)] = "succeeded"
              /\ wire[c][Current(c)] = "applied"
        /\ pc[c] = "finish" /\ outcome[c].kind = "failure" =>
              \A i \in AttemptNumbers : attempts[c][i] # "running"

\* A write that must not be repeated: only a failure that cannot have had an
\* effect may lead to another attempt, and there is none.
SingleShotInv ==
    \A c \in Calls :
        request[c].side_effect \in {"non_idempotent_write", "unknown"} =>
            /\ Current(c) <= 1
            /\ pc[c] # "backoff"
            /\ pc[c] = "start" => Current(c) = 0
            /\ pc[c] = "finish" =>
                  \A i \in AttemptNumbers :
                      attempts[c][i] = "unknown" =>
                          TerminalStatus(outcome[c]) \in {"unknown", "cancelled"}

\* The conjunction the proofs carry through every step: together its parts
\* are inductive, and they imply every safety invariant above.
IInv ==
    /\ TypeOK
    /\ OwnerInv
    /\ ReplyInv
    /\ ApprovalInv
    /\ DecisionInv
    /\ PlanInv
    /\ AttemptInv
    /\ OutcomeInv
    /\ SingleShotInv
    /\ ApprovalSpentOnce
    /\ RanAsApproved
    /\ AuditMatchesState
    /\ SucceededIsReal
    /\ OpenAttemptIsLast
    /\ UnknownIsKept
    /\ CompletedIsTrue

-----------------------------------------------------------------------------
(***************************************************************************)
(* What the documents say and the code does not guarantee                  *)
(***************************************************************************)
\* "unknown", not "failed", is the status of a write whose effect cannot be
\* excluded: a failed write has had no effect upstream.
FailedHadNoEffect ==
    \A c \in Calls, i \in AttemptNumbers :
        /\ executions[c].status = "failed"
        /\ request[c].side_effect # "read_only"
        => wire[c][i] # "applied"

\* An expired approval must be decided again: none is consumed at or after
\* its expiry.
ConsumedInTime ==
    [][\A a \in Calls :
          approvals[a].status # "consumed" /\ approvals'[a].status = "consumed"
              => time < approvals[a].expires_at]_vars
=============================================================================
