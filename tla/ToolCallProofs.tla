--------------------------- MODULE ToolCallProofs ---------------------------
(***************************************************************************)
(* The safety of ToolCall for every set of calls and requests, every bound *)
(* and every combination of faults.                                        *)
(***************************************************************************)
EXTENDS ToolCall, TLAPS

\* The status an outcome leads to is a terminal one, and each kind of outcome
\* leads to its own.
LEMMA TerminalStatusType ==
    ASSUME NEW o \in Outcomes
    PROVE  /\ TerminalStatus(o) \in TerminalStatuses
           /\ TerminalStatus(o) = "succeeded" <=> o.kind = "result"
           /\ TerminalStatus(o) = "failed" <=>
                 (o.kind = "failure" /\ ~o.outcome_unknown)
           /\ TerminalStatus(o) = "cancelled" <=> o.kind = "cancelled"
<1>1. o.kind \in {"result", "failure", "exception", "cancelled"}
  BY DEF Outcomes
<1>2. CASE o.kind = "result"
  BY <1>2 DEF TerminalStatus, TerminalStatuses
<1>3. CASE o.kind = "failure"
  BY <1>3 DEF TerminalStatus, TerminalStatuses
<1>4. CASE o.kind = "exception"
  BY <1>4 DEF TerminalStatus, TerminalStatuses
<1>5. CASE o.kind = "cancelled"
  BY <1>5 DEF TerminalStatus, TerminalStatuses
<1>6. QED
  BY <1>1, <1>2, <1>3, <1>4, <1>5

\* The outcomes the executor and the retry loop produce are outcomes.
LEMMA OutcomeType ==
    /\ ExecutorResult \in Outcomes
    /\ CancelledError \in Outcomes
    /\ UnexpectedException \in Outcomes
    /\ \A category \in ErrorCategories, unknown \in BOOLEAN :
          ExecutorFailure(category, unknown) \in Outcomes
    /\ \A o \in Outcomes, side \in SideEffects, hasKey \in BOOLEAN :
          /\ RaisedByRetry(o, side, hasKey) \in Outcomes
          /\ RaisedByRetry(o, side, hasKey).kind = o.kind
BY DEF ExecutorResult, CancelledError, UnexpectedException, ExecutorFailure,
       Outcome, Outcomes, ErrorCategories, RaisedByRetry

\* Type correctness is established initially ...
LEMMA TypeInit == Init => TypeOK
BY BoundAssumption, OutcomeType
DEF Init, TypeOK, PcValues, Replies, ExecutionRows, ExecutionStatuses,
    NoExecution, AttemptStatuses, ApprovalRows, ApprovalStatuses, NoApproval,
    WireStatuses, AttemptNumbers

\* The constants the actions write are of their types.
LEMMA LabelType ==
    /\ {"idle", "prepare", "deny", "ask", "lookup", "plan", "secret", "start",
        "dispatch", "wait", "close", "backoff", "finish", "done"} = PcValues
    /\ {"refused", "denied", "approval_required", "approval_refused",
        "idempotency_conflict", "idempotency_in_progress",
        "idempotency_completed", "idempotency_unknown", "idempotency_failed",
        "idempotency_race", "error", "cancelled"} \subseteq Replies
    /\ TerminalStatuses \subseteq Replies
    /\ TerminalStatuses \subseteq AuditOutcomes
    /\ {"allowed", "denied", "approval_required", "approval_approved",
        "approval_rejected"} \subseteq AuditOutcomes
    /\ TerminalStatuses \subseteq ExecutionStatuses
    /\ {"none", "running"} \subseteq ExecutionStatuses
    /\ {"sent", "applied", "rejected"} \subseteq WireStatuses
BY DEF PcValues, Replies, AuditOutcomes, TerminalStatuses, ExecutionStatuses,
       WireStatuses

\* No other event or status is mistaken for a terminal one.
LEMMA NotTerminal ==
    /\ \A s \in {"allowed", "denied", "approval_required", "approval_approved",
                 "approval_rejected", "none", "running"} :
          s \notin TerminalStatuses
    /\ \A s \in ExecutionStatuses :
          s \in {"none", "running"} \/ s \in TerminalStatuses
BY DEF TerminalStatuses, ExecutionStatuses

\* What AppendAudit, ExecutorEnds and the two attempt transactions leave
\* behind is of its type.
LEMMA AppendAuditType ==
    ASSUME TypeOK, NEW c \in Calls, NEW o \in AuditOutcomes, AppendAudit(c, o)
    PROVE  audits' \in [Calls -> [AuditOutcomes -> Nat]]
BY DEF TypeOK, AppendAudit

\* So is what the executor's end leaves behind.
LEMMA ExecutorEndsType ==
    ASSUME TypeOK, NEW c \in Calls, NEW o \in Outcomes, ExecutorEnds(c, o)
    PROVE  TypeOK'
BY LabelType DEF TypeOK, ExecutorEnds, Goto, dbVars

\* Rows stay rows when a column is overwritten.
LEMMA RowUpdate ==
    /\ \A row \in ExecutionRows, s \in ExecutionStatuses :
          [row EXCEPT !.status = s] \in ExecutionRows
    /\ \A row \in ExecutionRows, n \in 0..MaxAttempts :
          [row EXCEPT !.attempt_count = n] \in ExecutionRows
    /\ \A row \in ApprovalRows, s \in ApprovalStatuses :
          [row EXCEPT !.status = s] \in ApprovalRows
BY DEF ExecutionRows, ApprovalRows

\* start_attempt counts within the bound when it is called below it.
LEMMA StartAttemptTxType ==
    ASSUME TypeOK, NEW c \in Calls, Current(c) < MaxAttempts,
           StartAttemptTx(c)
    PROVE  /\ executions' \in [Calls -> ExecutionRows]
           /\ attempts' \in [Calls -> [AttemptNumbers -> AttemptStatuses]]
<1>1. Current(c) \in 0..MaxAttempts
  BY DEF TypeOK, ExecutionRows, Current
<1>2. Current(c) + 1 \in AttemptNumbers
  BY <1>1, BoundAssumption DEF AttemptNumbers
<1>3. Current(c) + 1 \in 0..MaxAttempts /\ executions[c] \in ExecutionRows
  BY <1>1, BoundAssumption DEF TypeOK
<1>4. executions' \in [Calls -> ExecutionRows]
  <2>1. [executions[c] EXCEPT !.attempt_count = Current(c) + 1]
           \in ExecutionRows
    BY <1>3, RowUpdate
  <2>2. QED
    BY <2>1 DEF TypeOK, StartAttemptTx, Current
<1>5. QED
  BY <1>2, <1>4, LabelType DEF TypeOK, StartAttemptTx, AttemptStatuses

\* Closing an attempt writes a status of its type.
LEMMA FinishAttemptTxType ==
    ASSUME TypeOK, NEW c \in Calls, FinishAttemptTx(c)
    PROVE  attempts' \in [Calls -> [AttemptNumbers -> AttemptStatuses]]
BY TerminalStatusType, LabelType
DEF TypeOK, FinishAttemptTx, AttemptStatuses

\* The approval a plan names is one of the approvals, or none.
LEMMA PlanApprovalType ==
    ASSUME TypeOK, NEW c \in Calls
    PROVE  PlanApproval(c) \in Calls \union {None}
BY DEF TypeOK, PlanApproval

\* The fields a request carries.
LEMMA RequestType ==
    ASSUME TypeOK, NEW c \in Calls
    PROVE  /\ request[c].side_effect \in SideEffects
           /\ request[c].effect \in PolicyEffects
           /\ HasKey(c) \in BOOLEAN
BY RequestAssumption DEF TypeOK, HasKey

\* A call that ends with a commit is told of it, or that it was interrupted.
LEMMA CommittedEffect ==
    ASSUME TypeOK, NEW c \in Calls, NEW r, AnswerCommitted(c, r)
    PROVE  /\ pc' = [pc EXCEPT ![c] = "done"]
           /\ pc' \in [Calls -> PcValues]
           /\ \E a \in {r, "cancelled", "error"} :
                 reply' = [reply EXCEPT ![c] = a]
           /\ r \in Replies => reply' \in [Calls -> Replies]
<1>1. PICK a \in {r} \union Unheard : Answer(c, a)
  BY DEF AnswerCommitted
<1>2. a \in {r, "cancelled", "error"}
  BY DEF Unheard
<1>3. QED
  BY <1>1, <1>2, LabelType DEF Answer, TypeOK

\* So is one that is planned, or it goes on.
LEMMA PlannedEffect ==
    ASSUME TypeOK, NEW c \in Calls, GoOnPlanned(c)
    PROVE  /\ pc' \in [Calls -> PcValues] /\ reply' \in [Calls -> Replies]
           /\ \A d \in Calls : d # c => pc'[d] = pc[d] /\ reply'[d] = reply[d]
           /\ \/ pc'[c] = "secret" /\ reply'[c] = reply[c]
              \/ pc'[c] = "done" /\ reply'[c] \in {"cancelled", "error"}
<1>1. CASE Goto(c, "secret") /\ UNCHANGED reply
  BY <1>1, LabelType DEF Goto, TypeOK
<1>2. CASE \E a \in Unheard : Answer(c, a)
  <2>1. PICK a \in {"cancelled", "error"} : Answer(c, a)
    BY <1>2 DEF Unheard
  <2>2. QED
    BY <2>1, LabelType DEF Answer, TypeOK
<1>3. QED
  BY <1>1, <1>2 DEF GoOnPlanned

\* ... and every step keeps it.
LEMMA TypeStep == IInv /\ [Next]_vars => TypeOK'
<1> SUFFICES ASSUME IInv, [Next]_vars PROVE TypeOK'
  OBVIOUS
<1> USE BoundAssumption, NoneAssumption, LabelType, OutcomeType
<1> USE DEF TypeOK, vars, taskVars, dbVars
<1>a. TypeOK
  BY DEF IInv
<1>b. AttemptInv
  BY DEF IInv
<1>1. ASSUME NEW c \in Calls, ReceiveCall(c) PROVE TypeOK'
  BY <1>a, <1>1 DEF ReceiveCall, Goto
<1>2. ASSUME NEW c \in Calls, RefuseCall(c) PROVE TypeOK'
  BY <1>a, <1>2 DEF RefuseCall, Answer
<1>3. ASSUME NEW c \in Calls, RecordDenial(c) PROVE TypeOK'
  BY <1>a, <1>3, CommittedEffect DEF RecordDenial, AppendAudit
<1>4. ASSUME NEW c \in Calls, RequestApproval(c) PROVE TypeOK'
  BY <1>a, <1>4, CommittedEffect
  DEF RequestApproval, AppendAudit, ApprovalRows, ApprovalStatuses
<1>5. ASSUME NEW c \in Calls, Prepare(c) PROVE TypeOK'
  BY <1>a, <1>5 DEF Prepare, Goto
<1>6. ASSUME NEW c \in Calls, PrepareFails(c) PROVE TypeOK'
  BY <1>a, <1>6 DEF PrepareFails, Answer
<1>7. ASSUME NEW c \in Calls, LookupKey(c) PROVE TypeOK'
  BY <1>a, <1>7 DEF LookupKey, Goto
<1>8. ASSUME NEW c \in Calls, KeyReused(c) PROVE TypeOK'
  BY <1>a, <1>8 DEF KeyReused, Answer, ReuseReply
<1>9. ASSUME NEW c \in Calls, ApprovalRefused(c) PROVE TypeOK'
  BY <1>a, <1>9 DEF ApprovalRefused, Answer
<1>10. ASSUME NEW c \in Calls, ApprovalExpires(c) PROVE TypeOK'
  <2>1. PlanApproval(c) \in Calls
    BY <1>a, <1>10, PlanApprovalType DEF ApprovalExpires
  <2>2. approvals' \in [Calls -> ApprovalRows]
    BY <1>a, <1>10, <2>1
    DEF ApprovalExpires, ApprovalRows, ApprovalStatuses
  <2>3. QED
    BY <1>a, <1>10, <2>2, CommittedEffect DEF ApprovalExpires
<1>11. ASSUME NEW c \in Calls, PlanRace(c) PROVE TypeOK'
  BY <1>a, <1>11 DEF PlanRace, Answer
<1>12. ASSUME NEW c \in Calls, Plan(c) PROVE TypeOK'
  <2>1. pc' \in [Calls -> PcValues] /\ reply' \in [Calls -> Replies]
    BY <1>a, <1>12, PlannedEffect DEF Plan
  <2>2. executions' \in [Calls -> ExecutionRows]
    BY <1>a, <1>12, PlanApprovalType DEF Plan, ExecutionRows
  <2>3. approvals' \in [Calls -> ApprovalRows]
    <3>1. CASE PlanApproval(c) = None
      BY <1>a, <1>12, <3>1 DEF Plan, ConsumeApproval
    <3>2. CASE PlanApproval(c) \in Calls
      BY <1>a, <1>12, <3>2
      DEF Plan, ConsumeApproval, ApprovalRows, ApprovalStatuses
    <3>3. QED
      BY <1>a, <3>1, <3>2, PlanApprovalType
  <2>4. audits' \in [Calls -> [AuditOutcomes -> Nat]]
    BY <1>a, <1>12, AppendAuditType DEF Plan
  <2>5. QED
    BY <1>a, <1>12, <2>1, <2>2, <2>3, <2>4 DEF Plan
<1>13. ASSUME NEW c \in Calls, ResolveSecret(c) PROVE TypeOK'
  BY <1>a, <1>13 DEF ResolveSecret, Goto
<1>14. ASSUME NEW c \in Calls, SecretFails(c) PROVE TypeOK'
  BY <1>a, <1>14 DEF SecretFails, Goto, ErrorCategories
<1>15. ASSUME NEW c \in Calls, StartAttempt(c) PROVE TypeOK'
  BY <1>a, <1>b, <1>15, StartAttemptTxType
  DEF StartAttempt, Goto, AttemptInv
<1>16. ASSUME NEW c \in Calls, Send(c) PROVE TypeOK'
  BY <1>a, <1>16 DEF Send, Goto, Current
<1>17. ASSUME NEW c \in Calls, NotSent(c) PROVE TypeOK'
  <2>1. PICK o \in Outcomes : ExecutorEnds(c, o)
    BY <1>17 DEF NotSent, ErrorCategories
  <2>2. QED
    BY <1>a, <2>1, ExecutorEndsType
<1>18. ASSUME NEW c \in Calls, Answered(c) PROVE TypeOK'
  <2>1. PICK o \in Outcomes : ExecutorEnds(c, o)
    BY <1>18 DEF Answered, ResponseOutcomes, ErrorCategories
  <2>2. QED
    BY <1>a, <2>1, ExecutorEndsType
<1>19. ASSUME NEW c \in Calls, NotAnswered(c) PROVE TypeOK'
  <2>1. PICK o \in Outcomes : ExecutorEnds(c, o)
    BY <1>19 DEF NotAnswered, ErrorCategories
  <2>2. QED
    BY <1>a, <2>1, ExecutorEndsType
<1>20. ASSUME NEW c \in Calls, AttemptRetried(c) PROVE TypeOK'
  BY <1>a, <1>20, FinishAttemptTxType DEF AttemptRetried, Goto
<1>21. ASSUME NEW c \in Calls, AttemptEnded(c) PROVE TypeOK'
  <2>1. outcome' \in [Calls -> Outcomes]
    BY <1>a, <1>21, RequestType DEF AttemptEnded
  <2>2. QED
    BY <1>a, <1>21, <2>1, FinishAttemptTxType DEF AttemptEnded, Goto
<1>22. ASSUME NEW c \in Calls, Resume(c) PROVE TypeOK'
  BY <1>a, <1>22 DEF Resume, Goto
<1>23. ASSUME NEW c \in Calls, Finish(c) PROVE TypeOK'
  <2>1. TerminalStatus(outcome[c]) \in TerminalStatuses
    BY <1>a, TerminalStatusType
  <2>2. executions' \in [Calls -> ExecutionRows]
    BY <1>a, <1>23, <2>1, RowUpdate DEF Finish
  <2>3. audits' \in [Calls -> [AuditOutcomes -> Nat]]
    BY <1>a, <1>23, <2>1, AppendAuditType DEF Finish
  <2>4. QED
    BY <1>a, <1>23, <2>1, <2>2, <2>3, CommittedEffect DEF Finish
<1>24. ASSUME NEW c \in Calls, CancelOutside(c) PROVE TypeOK'
  BY <1>a, <1>24 DEF CancelOutside, Answer
<1>25. ASSUME NEW c \in Calls, CancelExecutor(c) PROVE TypeOK'
  BY <1>a, <1>25, ExecutorEndsType DEF CancelExecutor
<1>26. ASSUME NEW c \in Calls, DatabaseFailsOutside(c) PROVE TypeOK'
  BY <1>a, <1>26 DEF DatabaseFailsOutside, Answer
<1>27. ASSUME NEW c \in Calls, InterruptRetryLoop(c) PROVE TypeOK'
  <2>1. outcome' \in [Calls -> Outcomes]
    BY <1>a, <1>27 DEF InterruptRetryLoop, RaisedInRetryLoop
  <2>2. /\ executions' \in [Calls -> ExecutionRows]
        /\ attempts' \in [Calls -> [AttemptNumbers -> AttemptStatuses]]
    BY <1>a, <1>b, <1>27, StartAttemptTxType, FinishAttemptTxType
    DEF InterruptRetryLoop, AttemptInv
  <2>3. QED
    BY <1>a, <1>27, <2>1, <2>2 DEF InterruptRetryLoop, Goto
<1>28. ASSUME NEW c \in Calls, Crash(c) PROVE TypeOK'
  BY <1>a, <1>28 DEF Crash, Goto
<1>29. ASSUME NEW c \in Calls, Decide(c) PROVE TypeOK'
  <2>1. approvals' \in [Calls -> ApprovalRows]
    <3>1. PICK d \in {"approved", "rejected"} :
             approvals' = [approvals EXCEPT ![c].status = d]
      BY <1>29 DEF Decide
    <3>2. d \in ApprovalStatuses
      BY DEF ApprovalStatuses
    <3>3. [approvals[c] EXCEPT !.status = d] \in ApprovalRows
      BY <1>a, <3>2, RowUpdate
    <3>4. QED
      BY <1>a, <3>1, <3>3
  <2>2. audits' \in [Calls -> [AuditOutcomes -> Nat]]
    BY <1>a, <1>29, AppendAuditType DEF Decide
  <2>3. QED
    BY <1>a, <1>29, <2>1, <2>2 DEF Decide
<1>30. ASSUME NEW c \in Calls, DecideTooLate(c) PROVE TypeOK'
  BY <1>a, <1>30 DEF DecideTooLate, ApprovalRows, ApprovalStatuses
<1>31. ASSUME NEW c \in Calls, UpstreamHandles(c) PROVE TypeOK'
  BY <1>a, <1>31 DEF UpstreamHandles
<1>32. CASE Tick
  BY <1>a, <1>32 DEF Tick
<1>33. CASE AllAnswered
  BY <1>a, <1>33 DEF AllAnswered
<1>34. CASE UNCHANGED vars
  BY <1>a, <1>34
<1>35. QED
  BY <1>1, <1>2, <1>3, <1>4, <1>5, <1>6, <1>7, <1>8, <1>9, <1>10, <1>11,
     <1>12, <1>13, <1>14, <1>15, <1>16, <1>17, <1>18, <1>19, <1>20, <1>21,
     <1>22, <1>23, <1>24, <1>25, <1>26, <1>27, <1>28, <1>29, <1>30, <1>31,
     <1>32, <1>33, <1>34 DEF Next, TaskStep, FaultStep

(***************************************************************************)
(* What the writing transactions do, row by row.                           *)
(***************************************************************************)
\* An appended event counts once, for its call and its outcome.
LEMMA AuditEffect ==
    ASSUME TypeOK, NEW c \in Calls, NEW o \in AuditOutcomes, AppendAudit(c, o)
    PROVE  \A d \in Calls, p \in AuditOutcomes :
              audits'[d][p] = IF d = c /\ p = o THEN audits[d][p] + 1
                                               ELSE audits[d][p]
BY DEF TypeOK, AppendAudit

\* A requested approval is one new pending row.
LEMMA RequestEffect ==
    ASSUME TypeOK, NEW c \in Calls, RequestApproval(c)
    PROVE  /\ \A d \in Calls :
                 approvals'[d].status =
                     IF d = c THEN "pending" ELSE approvals[d].status
           /\ UNCHANGED executions
BY DEF TypeOK, RequestApproval

\* A plan adds one running row and consumes the approval it names, which was
\* approved for this very call.
LEMMA PlanEffect ==
    ASSUME TypeOK, NEW c \in Calls, Plan(c)
    PROVE  /\ \A d \in Calls : d # c => executions'[d] = executions[d]
           /\ executions'[c].status = "running"
           /\ executions'[c].approval = PlanApproval(c)
           /\ executions'[c].attempt_count = 0
           /\ \A a \in Calls :
                 approvals'[a].status =
                     IF a = PlanApproval(c) THEN "consumed"
                                            ELSE approvals[a].status
           /\ PlanApproval(c) # None =>
                 /\ PlanApproval(c) \in Calls
                 /\ approvals[PlanApproval(c)].status = "approved"
                 /\ MatchingCall(PlanApproval(c), c)
<1>1. PlanApproval(c) \in Calls \union {None}
  BY PlanApprovalType
<1>2. CASE PlanApproval(c) = None
  BY <1>2, NoneAssumption DEF TypeOK, Plan, ConsumeApproval
<1>3. CASE PlanApproval(c) # None
  <2>1. approvals' = [approvals EXCEPT ![PlanApproval(c)].status = "consumed"]
    BY <1>3 DEF Plan, ConsumeApproval
  <2>2. \A a \in Calls :
           approvals'[a].status = IF a = PlanApproval(c) THEN "consumed"
                                                         ELSE approvals[a].status
    BY <1>1, <1>3, <2>1 DEF TypeOK, ApprovalRows
  <2>3. QED
    BY <1>1, <1>3, <2>2 DEF TypeOK, Plan, Consumable
<1>4. QED
  BY <1>2, <1>3

\* start_attempt adds the next attempt row and counts it.
LEMMA StartEffect ==
    ASSUME TypeOK, NEW c \in Calls, Current(c) < MaxAttempts,
           StartAttemptTx(c)
    PROVE  /\ \A d \in Calls :
                 /\ executions'[d].status = executions[d].status
                 /\ executions'[d].approval = executions[d].approval
                 /\ d # c => executions'[d] = executions[d]
                 /\ d # c => attempts'[d] = attempts[d]
           /\ Current(c)' = Current(c) + 1
           /\ Current(c) + 1 \in AttemptNumbers
           /\ \A i \in AttemptNumbers :
                 attempts'[c][i] = IF i = Current(c) + 1 THEN "running"
                                                        ELSE attempts[c][i]
<1>1. Current(c) \in 0..MaxAttempts
  BY DEF TypeOK, ExecutionRows, Current
<1>2. Current(c) + 1 \in AttemptNumbers
  BY <1>1, BoundAssumption DEF AttemptNumbers
<1>3. QED
  BY <1>2 DEF TypeOK, ExecutionRows, StartAttemptTx, Current

\* Closing an attempt writes the current row only.
LEMMA FinishAttemptEffect ==
    ASSUME TypeOK, NEW c \in Calls, FinishAttemptTx(c)
    PROVE  /\ \A d \in Calls : d # c => attempts'[d] = attempts[d]
           /\ \A i \in AttemptNumbers :
                 attempts'[c][i] = IF i = Current(c)
                                   THEN TerminalStatus(outcome[c])
                                   ELSE attempts[c][i]
BY DEF TypeOK, FinishAttemptTx

\* _finish writes the status of one row.
LEMMA FinishEffect ==
    ASSUME TypeOK, NEW c \in Calls, Finish(c)
    PROVE  \A d \in Calls :
              /\ executions'[d].approval = executions[d].approval
              /\ Current(d)' = Current(d)
              /\ executions'[d].status =
                    IF d = c THEN TerminalStatus(outcome[c])
                             ELSE executions[d].status
              /\ d # c => executions'[d] = executions[d]
BY DEF TypeOK, ExecutionRows, Finish, Current

\* Who writes the database and the wire: every other step leaves both alone,
\* and no step changes what a call asks for.
LEMMA Frame ==
    ASSUME [Next]_vars
    PROVE  /\ request' = request
           /\ \/ UNCHANGED <<executions, attempts, approvals, audits, wire>>
              \/ \E c \in Calls :
                    \/ RecordDenial(c) \/ RequestApproval(c)
                    \/ ApprovalExpires(c) \/ Plan(c)
                    \/ StartAttempt(c) \/ Send(c)
                    \/ AttemptRetried(c) \/ AttemptEnded(c) \/ Finish(c)
                    \/ InterruptRetryLoop(c)
                    \/ Decide(c) \/ DecideTooLate(c) \/ UpstreamHandles(c)
<1> USE DEF vars, taskVars, dbVars
<1>1. CASE \E c \in Calls :
         \/ ReceiveCall(c) \/ RefuseCall(c) \/ Prepare(c) \/ PrepareFails(c)
         \/ LookupKey(c) \/ KeyReused(c) \/ ApprovalRefused(c) \/ PlanRace(c)
         \/ ResolveSecret(c) \/ SecretFails(c) \/ Resume(c)
         \/ CancelOutside(c) \/ DatabaseFailsOutside(c) \/ Crash(c)
  BY <1>1
  DEF ReceiveCall, RefuseCall, Prepare, PrepareFails, LookupKey, KeyReused,
      ApprovalRefused, PlanRace, ResolveSecret, SecretFails, Resume,
      CancelOutside, DatabaseFailsOutside, Crash
<1>2. CASE \E c \in Calls :
         NotSent(c) \/ Answered(c) \/ NotAnswered(c) \/ CancelExecutor(c)
  BY <1>2 DEF NotSent, Answered, NotAnswered, CancelExecutor, ExecutorEnds
<1>3. CASE \E c \in Calls :
         \/ RecordDenial(c) \/ RequestApproval(c)
         \/ ApprovalExpires(c) \/ Plan(c)
         \/ StartAttempt(c) \/ Send(c)
         \/ AttemptRetried(c) \/ AttemptEnded(c) \/ Finish(c)
         \/ InterruptRetryLoop(c)
         \/ Decide(c) \/ DecideTooLate(c) \/ UpstreamHandles(c)
  BY <1>3
  DEF RecordDenial, RequestApproval, ApprovalExpires, Plan, StartAttempt, Send,
      AttemptRetried, AttemptEnded, Finish, InterruptRetryLoop, Decide,
      DecideTooLate, UpstreamHandles
<1>4. CASE Tick \/ AllAnswered \/ UNCHANGED vars
  BY <1>4 DEF Tick, AllAnswered
<1>5. QED
  BY <1>1, <1>2, <1>3, <1>4 DEF Next, TaskStep, FaultStep

-----------------------------------------------------------------------------
(***************************************************************************)
(* Approvals, idempotency scopes and the audit trail: what the two locked    *)
(* writes of a plan keep true                                                *)
(***************************************************************************)
\* The rows a plan finds: its own execution does not exist yet.
LEMMA PlanFinds ==
    ASSUME TypeOK, OwnerInv, ApprovalInv, NEW c \in Calls, Plan(c)
    PROVE  /\ executions[c].status = "none"
           /\ executions[c].approval = None
           /\ approvals[c].status = "none"
           /\ PlanApproval(c) # c
           /\ request[c].effect # "deny"
           /\ request[c].effect = "require_approval" =>
                 PlanApproval(c) \in Calls
<1>1. pc[c] = "plan"
  BY DEF Plan
<1>2. executions[c] = NoExecution
  BY <1>1 DEF OwnerInv, BeforePlan
<1>3. approvals[c].status = "none"
  BY <1>1 DEF ApprovalInv
<1>4. PlanApproval(c) # c
  BY <1>3, PlanEffect, NoneAssumption
<1>5. request[c].effect # "deny"
  BY <1>1 DEF ApprovalInv
<1>6. request[c].effect = "require_approval" => PlanApproval(c) \in Calls
  BY <1>1 DEF TypeOK, ApprovalInv, PlanApproval
<1>7. QED
  BY <1>2, <1>3, <1>4, <1>5, <1>6 DEF NoExecution

\* The row a call asks for does not exist yet either.
LEMMA RequestFinds ==
    ASSUME OwnerInv, ApprovalInv, NEW c \in Calls, RequestApproval(c)
    PROVE  /\ approvals[c].status = "none"
           /\ executions[c].status = "none"
BY DEF RequestApproval, ApprovalInv, OwnerInv, BeforePlan

\* The executor only works for planned calls with attempts to spare.
LEMMA InterruptEffect ==
    ASSUME TypeOK, AttemptInv, NEW c \in Calls, InterruptRetryLoop(c)
    PROVE  /\ \A d \in Calls :
                 /\ executions'[d].status = executions[d].status
                 /\ executions'[d].approval = executions[d].approval
           /\ UNCHANGED <<approvals, audits>>
<1>1. CASE pc[c] = "start" /\ StartAttemptTx(c)
  BY <1>1, StartEffect DEF InterruptRetryLoop, AttemptInv
<1>2. CASE UNCHANGED executions
  BY <1>2 DEF InterruptRetryLoop
<1>3. QED
  BY <1>1, <1>2 DEF InterruptRetryLoop

\* A new attempt leaves statuses, approvals and events alone.
LEMMA StartAttemptEffect ==
    ASSUME TypeOK, AttemptInv, NEW c \in Calls, StartAttempt(c)
    PROVE  /\ \A d \in Calls :
                 /\ executions'[d].status = executions[d].status
                 /\ executions'[d].approval = executions[d].approval
           /\ UNCHANGED <<approvals, audits>>
BY StartEffect DEF StartAttempt, AttemptInv

\* Only Plan spends an approval, and only one it found approved.
LEMMA SpentOnceStep == IInv /\ [Next]_vars => ApprovalSpentOnce'
<1> SUFFICES ASSUME IInv, [Next]_vars PROVE ApprovalSpentOnce'
  OBVIOUS
<1>a. TypeOK /\ OwnerInv /\ ApprovalInv /\ AttemptInv /\ ApprovalSpentOnce
  BY DEF IInv
<1>b. request' = request
  BY Frame
<1>0. CASE UNCHANGED <<executions, attempts, approvals, audits, wire>>
  BY <1>a, <1>b, <1>0 DEF ApprovalSpentOnce
<1>1. ASSUME NEW c \in Calls, RecordDenial(c) PROVE ApprovalSpentOnce'
  BY <1>a, <1>b, <1>1
  DEF RecordDenial, AnswerCommitted, Answer, AppendAudit, ApprovalSpentOnce
<1>2. ASSUME NEW c \in Calls, RequestApproval(c) PROVE ApprovalSpentOnce'
  BY <1>a, <1>2, RequestEffect, RequestFinds DEF ApprovalSpentOnce
<1>3. ASSUME NEW c \in Calls, ApprovalExpires(c) PROVE ApprovalSpentOnce'
  BY <1>a, <1>3, PlanApprovalType DEF ApprovalExpires, TypeOK, ApprovalSpentOnce
<1>4. ASSUME NEW c \in Calls, Plan(c) PROVE ApprovalSpentOnce'
  <2>1. ~\E d \in Calls : executions[d].approval = PlanApproval(c)
                             /\ PlanApproval(c) # None
    BY <1>a, <1>4, PlanEffect DEF ApprovalSpentOnce
  <2>2. QED
    BY <1>a, <1>4, <2>1, PlanEffect, PlanFinds, NoneAssumption
    DEF ApprovalSpentOnce
<1>5. ASSUME NEW c \in Calls, StartAttempt(c) PROVE ApprovalSpentOnce'
  BY <1>a, <1>5, StartAttemptEffect DEF ApprovalSpentOnce
<1>6. ASSUME NEW c \in Calls, Send(c) PROVE ApprovalSpentOnce'
  BY <1>a, <1>b, <1>6 DEF Send, dbVars, ApprovalSpentOnce
<1>7. ASSUME NEW c \in Calls, AttemptRetried(c) PROVE ApprovalSpentOnce'
  BY <1>a, <1>b, <1>7
  DEF AttemptRetried, Goto, FinishAttemptTx, ApprovalSpentOnce
<1>8. ASSUME NEW c \in Calls, AttemptEnded(c) PROVE ApprovalSpentOnce'
  BY <1>a, <1>b, <1>8
  DEF AttemptEnded, Goto, FinishAttemptTx, ApprovalSpentOnce
<1>9. ASSUME NEW c \in Calls, Finish(c) PROVE ApprovalSpentOnce'
  BY <1>a, <1>9, FinishEffect DEF ApprovalSpentOnce, Finish
<1>10. ASSUME NEW c \in Calls, InterruptRetryLoop(c) PROVE ApprovalSpentOnce'
  BY <1>a, <1>10, InterruptEffect DEF ApprovalSpentOnce
<1>11. ASSUME NEW c \in Calls, Decide(c) PROVE ApprovalSpentOnce'
  BY <1>a, <1>11 DEF Decide, TypeOK, ApprovalSpentOnce
<1>12. ASSUME NEW c \in Calls, DecideTooLate(c) PROVE ApprovalSpentOnce'
  BY <1>a, <1>12 DEF DecideTooLate, TypeOK, ApprovalSpentOnce
<1>13. ASSUME NEW c \in Calls, UpstreamHandles(c) PROVE ApprovalSpentOnce'
  BY <1>a, <1>b, <1>13 DEF UpstreamHandles, dbVars, ApprovalSpentOnce
<1>14. QED
  BY <1>0, <1>1, <1>2, <1>3, <1>4, <1>5, <1>6, <1>7, <1>8, <1>9, <1>10, <1>11,
      <1>12, <1>13, Frame

\* Decisions are taken once, on a pending row.
LEMMA DecisionStep == IInv /\ [Next]_vars => DecisionInv'
<1> SUFFICES ASSUME IInv, [Next]_vars PROVE DecisionInv'
  OBVIOUS
<1>a. TypeOK /\ OwnerInv /\ ApprovalInv /\ AttemptInv /\ DecisionInv
  BY DEF IInv
<1>b. request' = request
  BY Frame
<1>0. CASE UNCHANGED <<executions, attempts, approvals, audits, wire>>
  BY <1>a, NoneAssumption, LabelType, <1>b, <1>0 DEF TypeOK, DecisionInv
<1>1. ASSUME NEW c \in Calls, RecordDenial(c) PROVE DecisionInv'
  BY <1>a, NoneAssumption, LabelType, <1>b, <1>1
  DEF RecordDenial, AnswerCommitted, Answer, AppendAudit, TypeOK, DecisionInv
<1>2. ASSUME NEW c \in Calls, RequestApproval(c) PROVE DecisionInv'
  <2>1. AppendAudit(c, "approval_required")
    BY <1>2 DEF RequestApproval
  <2>2. QED
    BY <1>a, <1>2, <2>1, LabelType, AuditEffect, RequestEffect, RequestFinds
    DEF DecisionInv
<1>3. ASSUME NEW c \in Calls, ApprovalExpires(c) PROVE DecisionInv'
  BY <1>a, NoneAssumption, LabelType, <1>b, <1>3
  DEF ApprovalExpires, AnswerCommitted, Answer, TypeOK, DecisionInv
<1>4. ASSUME NEW c \in Calls, Plan(c) PROVE DecisionInv'
  <2>1. AppendAudit(c, "allowed")
    BY <1>4 DEF Plan
  <2>2. \A a \in Calls, o \in {"approval_approved", "approval_rejected"} :
           audits'[a][o] = audits[a][o]
    BY <1>a, <2>1, LabelType, AuditEffect
  <2>3. QED
    BY <1>a, <1>4, <2>2, PlanEffect, NoneAssumption DEF DecisionInv
<1>5. ASSUME NEW c \in Calls, StartAttempt(c) PROVE DecisionInv'
  BY <1>a, <1>5, StartAttemptEffect DEF DecisionInv
<1>6. ASSUME NEW c \in Calls, Send(c) PROVE DecisionInv'
  BY <1>a, NoneAssumption, LabelType, <1>b, <1>6
  DEF Send, dbVars, TypeOK, DecisionInv
<1>7. ASSUME NEW c \in Calls, AttemptRetried(c) PROVE DecisionInv'
  BY <1>a, NoneAssumption, LabelType, <1>b, <1>7
  DEF AttemptRetried, Goto, FinishAttemptTx, TypeOK, DecisionInv
<1>8. ASSUME NEW c \in Calls, AttemptEnded(c) PROVE DecisionInv'
  BY <1>a, NoneAssumption, LabelType, <1>b, <1>8
  DEF AttemptEnded, Goto, FinishAttemptTx, TypeOK, DecisionInv
<1>9. ASSUME NEW c \in Calls, Finish(c) PROVE DecisionInv'
  <2>1. TerminalStatus(outcome[c]) \in TerminalStatuses
    BY <1>a, TerminalStatusType DEF TypeOK
  <2>2. /\ TerminalStatus(outcome[c]) \in AuditOutcomes
        /\ TerminalStatus(outcome[c]) # "approval_approved"
        /\ TerminalStatus(outcome[c]) # "approval_rejected"
    BY <2>1 DEF TerminalStatuses, AuditOutcomes
  <2>3. AppendAudit(c, TerminalStatus(outcome[c])) /\ UNCHANGED approvals
    BY <1>9 DEF Finish
  <2>4. QED
    BY <1>a, <2>2, <2>3, LabelType, AuditEffect DEF DecisionInv
<1>10. ASSUME NEW c \in Calls, InterruptRetryLoop(c) PROVE DecisionInv'
  BY <1>a, <1>10, InterruptEffect DEF DecisionInv
<1>11. ASSUME NEW c \in Calls, Decide(c) PROVE DecisionInv'
  BY <1>a, NoneAssumption, LabelType, <1>b, <1>11
  DEF Decide, AppendAudit, TypeOK, DecisionInv
<1>12. ASSUME NEW c \in Calls, DecideTooLate(c) PROVE DecisionInv'
  BY <1>a, NoneAssumption, LabelType, <1>b, <1>12
  DEF DecideTooLate, TypeOK, DecisionInv
<1>13. ASSUME NEW c \in Calls, UpstreamHandles(c) PROVE DecisionInv'
  BY <1>a, NoneAssumption, LabelType, <1>b, <1>13
  DEF UpstreamHandles, dbVars, TypeOK, DecisionInv
<1>14. QED
  BY <1>0, <1>1, <1>2, <1>3, <1>4, <1>5, <1>6, <1>7, <1>8, <1>9, <1>10, <1>11,
      <1>12, <1>13, Frame

\* The unique index admits one execution per scope.
LEMMA PlanStep == IInv /\ [Next]_vars => PlanInv'
<1> SUFFICES ASSUME IInv, [Next]_vars PROVE PlanInv'
  OBVIOUS
<1>a. TypeOK /\ OwnerInv /\ ApprovalInv /\ AttemptInv /\ PlanInv
  BY DEF IInv
<1>b. request' = request
  BY Frame
<1>0. CASE UNCHANGED <<executions, attempts, approvals, audits, wire>>
  BY <1>a, <1>b, <1>0 DEF PlanInv, Planned, SameScope, HasKey
<1>1. ASSUME NEW c \in Calls, RecordDenial(c) PROVE PlanInv'
  BY <1>a, <1>b, <1>1
  DEF RecordDenial, AnswerCommitted, Answer, AppendAudit, PlanInv, Planned,
      SameScope, HasKey
<1>2. ASSUME NEW c \in Calls, RequestApproval(c) PROVE PlanInv'
  BY <1>a, <1>b, <1>2
  DEF RequestApproval, AnswerCommitted, Answer, AppendAudit, PlanInv, Planned,
      SameScope,
      HasKey
<1>3. ASSUME NEW c \in Calls, ApprovalExpires(c) PROVE PlanInv'
  BY <1>a, <1>b, <1>3
  DEF ApprovalExpires, AnswerCommitted, Answer, PlanInv, Planned, SameScope,
      HasKey
<1>4. ASSUME NEW c \in Calls, Plan(c) PROVE PlanInv'
  <2>1. \A d \in Calls : Planned(d) => ~SameScope(c, d) /\ ~SameScope(d, c)
    BY <1>4 DEF Plan, InScope, Planned, SameScope, HasKey
  <2>2. \A d, e \in Calls : SameScope(d, e)' <=> SameScope(d, e)
    BY <1>b DEF SameScope, HasKey
  <2>3. \A d \in Calls : d # c => (Planned(d)' <=> Planned(d))
    BY <1>a, <1>4, PlanEffect DEF Planned
  <2>4. QED
    BY <1>a, <1>b, <1>4, <2>1, <2>2, <2>3, PlanFinds DEF PlanInv
<1>5. ASSUME NEW c \in Calls, StartAttempt(c) PROVE PlanInv'
  BY <1>a, <1>b, <1>5, StartAttemptEffect DEF PlanInv, Planned, SameScope, HasKey
<1>6. ASSUME NEW c \in Calls, Send(c) PROVE PlanInv'
  BY <1>a, <1>b, <1>6 DEF Send, dbVars, PlanInv, Planned, SameScope, HasKey
<1>7. ASSUME NEW c \in Calls, AttemptRetried(c) PROVE PlanInv'
  BY <1>a, <1>b, <1>7
  DEF AttemptRetried, Goto, FinishAttemptTx, PlanInv, Planned, SameScope,
      HasKey
<1>8. ASSUME NEW c \in Calls, AttemptEnded(c) PROVE PlanInv'
  BY <1>a, <1>b, <1>8
  DEF AttemptEnded, Goto, FinishAttemptTx, PlanInv, Planned, SameScope, HasKey
<1>9. ASSUME NEW c \in Calls, Finish(c) PROVE PlanInv'
  BY <1>a, <1>b, <1>9, FinishEffect DEF Finish, OwnerInv, AfterPlan, PlanInv, Planned, SameScope, HasKey
<1>10. ASSUME NEW c \in Calls, InterruptRetryLoop(c) PROVE PlanInv'
  BY <1>a, <1>b, <1>10, InterruptEffect DEF PlanInv, Planned, SameScope, HasKey
<1>11. ASSUME NEW c \in Calls, Decide(c) PROVE PlanInv'
  BY <1>a, <1>b, <1>11
  DEF Decide, AppendAudit, PlanInv, Planned, SameScope, HasKey
<1>12. ASSUME NEW c \in Calls, DecideTooLate(c) PROVE PlanInv'
  BY <1>a, <1>b, <1>12 DEF DecideTooLate, PlanInv, Planned, SameScope, HasKey
<1>13. ASSUME NEW c \in Calls, UpstreamHandles(c) PROVE PlanInv'
  BY <1>a, <1>b, <1>13
  DEF UpstreamHandles, dbVars, PlanInv, Planned, SameScope, HasKey
<1>14. QED
  BY <1>0, <1>1, <1>2, <1>3, <1>4, <1>5, <1>6, <1>7, <1>8, <1>9, <1>10, <1>11,
      <1>12, <1>13, Frame

\* A plan is bound to an approval of the very same call, and approvals are
\* never decided twice.
LEMMA RanAsApprovedStep == IInv /\ [Next]_vars => RanAsApproved'
<1> SUFFICES ASSUME IInv, [Next]_vars PROVE RanAsApproved'
  OBVIOUS
<1>a. TypeOK /\ OwnerInv /\ ApprovalInv /\ DecisionInv /\ AttemptInv /\ ApprovalSpentOnce /\ RanAsApproved
  BY DEF IInv
<1>b. request' = request
  BY Frame
<1>0. CASE UNCHANGED <<executions, attempts, approvals, audits, wire>>
  BY <1>a, <1>b, <1>0 DEF RanAsApproved, Planned
<1>1. ASSUME NEW c \in Calls, RecordDenial(c) PROVE RanAsApproved'
  <2>1. AppendAudit(c, "denied") /\ UNCHANGED executions
    BY <1>1 DEF RecordDenial
  <2>2. \A a \in Calls, o \in {"approval_approved", "approval_rejected"} :
           audits'[a][o] = audits[a][o]
    BY <1>a, <2>1, LabelType, AuditEffect
  <2>3. QED
    BY <1>a, <1>b, <2>1, <2>2 DEF RanAsApproved, Planned
<1>2. ASSUME NEW c \in Calls, RequestApproval(c) PROVE RanAsApproved'
  <2>1. AppendAudit(c, "approval_required") /\ UNCHANGED executions
    BY <1>2 DEF RequestApproval
  <2>2. \A a \in Calls, o \in {"approval_approved", "approval_rejected"} :
           audits'[a][o] = audits[a][o]
    BY <1>a, <2>1, LabelType, AuditEffect
  <2>3. QED
    BY <1>a, <1>b, <2>1, <2>2 DEF RanAsApproved, Planned
<1>3. ASSUME NEW c \in Calls, ApprovalExpires(c) PROVE RanAsApproved'
  BY <1>a, <1>b, <1>3
  DEF ApprovalExpires, AnswerCommitted, Answer, RanAsApproved, Planned
<1>4. ASSUME NEW c \in Calls, Plan(c) PROVE RanAsApproved'
  <2>1. AppendAudit(c, "allowed")
    BY <1>4 DEF Plan
  <2>2. \A a \in Calls, o \in {"approval_approved", "approval_rejected"} :
           audits'[a][o] = audits[a][o]
    BY <1>a, <2>1, LabelType, AuditEffect
  <2>3. ASSUME request[c].effect = "require_approval"
        PROVE  LET a == PlanApproval(c) IN
               /\ a \in Calls
               /\ MatchingCall(a, c)
               /\ audits[a]["approval_approved"] = 1
               /\ audits[a]["approval_rejected"] = 0
    BY <1>a, <1>4, <2>3, PlanEffect, PlanFinds, NoneAssumption DEF DecisionInv
  <2>4. \A d \in Calls : d # c =>
           /\ Planned(d)' = Planned(d)
           /\ executions'[d].approval = executions[d].approval
    BY <1>a, <1>4, PlanEffect DEF Planned
  <2>5. executions'[c].approval = PlanApproval(c)
    BY <1>a, <1>4, PlanEffect, NoneAssumption
  <2>6. QED
    BY <1>a, <1>b, <2>2, <2>3, <2>4, <2>5 DEF RanAsApproved, MatchingCall
<1>5. ASSUME NEW c \in Calls, StartAttempt(c) PROVE RanAsApproved'
  BY <1>a, <1>b, <1>5, StartAttemptEffect DEF RanAsApproved, Planned
<1>6. ASSUME NEW c \in Calls, Send(c) PROVE RanAsApproved'
  BY <1>a, <1>b, <1>6 DEF Send, dbVars, RanAsApproved, Planned
<1>7. ASSUME NEW c \in Calls, AttemptRetried(c) PROVE RanAsApproved'
  BY <1>a, <1>b, <1>7
  DEF AttemptRetried, Goto, FinishAttemptTx, RanAsApproved, Planned
<1>8. ASSUME NEW c \in Calls, AttemptEnded(c) PROVE RanAsApproved'
  BY <1>a, <1>b, <1>8
  DEF AttemptEnded, Goto, FinishAttemptTx, RanAsApproved, Planned
<1>9. ASSUME NEW c \in Calls, Finish(c) PROVE RanAsApproved'
  <2>1. TerminalStatus(outcome[c]) \in TerminalStatuses
    BY <1>a, TerminalStatusType DEF TypeOK
  <2>2. AppendAudit(c, TerminalStatus(outcome[c])) /\ Planned(c)
    BY <1>9 DEF Finish, Planned
  <2>3. /\ TerminalStatus(outcome[c]) \in AuditOutcomes
        /\ TerminalStatus(outcome[c]) # "approval_approved"
        /\ TerminalStatus(outcome[c]) # "approval_rejected"
    BY <2>1 DEF TerminalStatuses, AuditOutcomes
  <2>4. \A a \in Calls, o \in {"approval_approved", "approval_rejected"} :
           audits'[a][o] = audits[a][o]
    BY <1>a, <2>2, <2>3, LabelType, AuditEffect
  <2>5. QED
    BY <1>a, <1>b, <1>9, <2>2, <2>4, FinishEffect DEF RanAsApproved, Planned
<1>10. ASSUME NEW c \in Calls, InterruptRetryLoop(c) PROVE RanAsApproved'
  BY <1>a, <1>b, <1>10, InterruptEffect DEF RanAsApproved, Planned
<1>11. ASSUME NEW c \in Calls, Decide(c) PROVE RanAsApproved'
  <2>1. approvals[c].status = "pending" /\ UNCHANGED executions
    BY <1>11 DEF Decide
  <2>2. \A d \in Calls : executions[d].approval # c
    BY <1>a, <2>1 DEF ApprovalSpentOnce
  <2>3. \A a \in Calls : a # c => audits'[a] = audits[a]
    BY <1>a, <1>11 DEF Decide, AppendAudit, TypeOK
  <2>4. QED
    BY <1>a, <1>b, <2>1, <2>2, <2>3 DEF RanAsApproved, Planned
<1>12. ASSUME NEW c \in Calls, DecideTooLate(c) PROVE RanAsApproved'
  BY <1>a, <1>b, <1>12 DEF DecideTooLate, RanAsApproved, Planned
<1>13. ASSUME NEW c \in Calls, UpstreamHandles(c) PROVE RanAsApproved'
  BY <1>a, <1>b, <1>13 DEF UpstreamHandles, dbVars, RanAsApproved, Planned
<1>14. QED
  BY <1>0, <1>1, <1>2, <1>3, <1>4, <1>5, <1>6, <1>7, <1>8, <1>9, <1>10, <1>11,
      <1>12, <1>13, Frame

\* Every row that enters or changes its status takes its event with it.
LEMMA AuditStep == IInv /\ [Next]_vars => AuditMatchesState'
<1> SUFFICES ASSUME IInv, [Next]_vars PROVE AuditMatchesState'
  OBVIOUS
<1>a. TypeOK /\ OwnerInv /\ ApprovalInv /\ AttemptInv /\ AuditMatchesState
  BY DEF IInv
<1>b. request' = request
  BY Frame
<1>0. CASE UNCHANGED <<executions, attempts, approvals, audits, wire>>
  BY <1>a, <1>b, <1>0 DEF AuditMatchesState, Planned
<1>1. ASSUME NEW c \in Calls, RecordDenial(c) PROVE AuditMatchesState'
  <2>1. AppendAudit(c, "denied") /\ UNCHANGED <<executions, approvals>>
    BY <1>1 DEF RecordDenial
  <2>2. ~Planned(c)
    BY <1>a, <1>1 DEF RecordDenial, OwnerInv, BeforePlan, Planned
  <2>3. \A d \in Calls, o \in AuditOutcomes :
           d # c \/ o # "denied" => audits'[d][o] = audits[d][o]
    BY <1>a, <2>1, LabelType, AuditEffect
  <2>4. QED
    BY <1>a, <2>1, <2>2, <2>3, LabelType, NotTerminal
    DEF AuditMatchesState, Planned
<1>2. ASSUME NEW c \in Calls, RequestApproval(c) PROVE AuditMatchesState'
  <2>1. AppendAudit(c, "approval_required") /\ UNCHANGED executions
    BY <1>2 DEF RequestApproval
  <2>2. \A d \in Calls, o \in AuditOutcomes :
           audits'[d][o] = IF d = c /\ o = "approval_required"
                           THEN audits[d][o] + 1 ELSE audits[d][o]
    BY <1>a, <2>1, LabelType, AuditEffect
  <2>3. QED
    BY <1>a, <1>2, <2>1, <2>2, LabelType, NotTerminal, RequestEffect, RequestFinds
    DEF AuditMatchesState, Planned
<1>3. ASSUME NEW c \in Calls, ApprovalExpires(c) PROVE AuditMatchesState'
  <2>1. \A a \in Calls :
           approvals'[a].status = "none" <=> approvals[a].status = "none"
    BY <1>a, <1>3, PlanApprovalType DEF ApprovalExpires, TypeOK
  <2>2. QED
    BY <1>a, <1>3, <2>1 DEF ApprovalExpires, AuditMatchesState, Planned
<1>4. ASSUME NEW c \in Calls, Plan(c) PROVE AuditMatchesState'
  <2>1. AppendAudit(c, "allowed")
    BY <1>4 DEF Plan
  <2>2. \A d \in Calls, o \in AuditOutcomes :
           audits'[d][o] = IF d = c /\ o = "allowed"
                           THEN audits[d][o] + 1 ELSE audits[d][o]
    BY <1>a, <2>1, LabelType, AuditEffect
  <2>3. \A a \in Calls :
           approvals'[a].status = "none" <=> approvals[a].status = "none"
    BY <1>a, <1>4, PlanEffect, NoneAssumption
  <2>4. audits[c]["denied"] = 0
    BY <1>a, <1>4 DEF Plan, OwnerInv
  <2>5. QED
    BY <1>a, <1>4, <2>2, <2>3, <2>4, LabelType, NotTerminal, PlanEffect, PlanFinds
    DEF AuditMatchesState, Planned
<1>5. ASSUME NEW c \in Calls, StartAttempt(c) PROVE AuditMatchesState'
  BY <1>a, <1>5, StartAttemptEffect DEF AuditMatchesState, Planned
<1>6. ASSUME NEW c \in Calls, Send(c) PROVE AuditMatchesState'
  BY <1>a, <1>b, <1>6 DEF Send, dbVars, AuditMatchesState, Planned
<1>7. ASSUME NEW c \in Calls, AttemptRetried(c) PROVE AuditMatchesState'
  BY <1>a, <1>b, <1>7
  DEF AttemptRetried, Goto, FinishAttemptTx, AuditMatchesState, Planned
<1>8. ASSUME NEW c \in Calls, AttemptEnded(c) PROVE AuditMatchesState'
  BY <1>a, <1>b, <1>8
  DEF AttemptEnded, Goto, FinishAttemptTx, AuditMatchesState, Planned
<1>9. ASSUME NEW c \in Calls, Finish(c) PROVE AuditMatchesState'
  <2>1. TerminalStatus(outcome[c]) \in TerminalStatuses
    BY <1>a, TerminalStatusType DEF TypeOK
  <2>2. AppendAudit(c, TerminalStatus(outcome[c]))
    BY <1>9 DEF Finish
  <2>3. \A d \in Calls, o \in AuditOutcomes :
           audits'[d][o] = IF d = c /\ o = TerminalStatus(outcome[c])
                           THEN audits[d][o] + 1 ELSE audits[d][o]
    BY <1>a, <2>1, <2>2, LabelType, AuditEffect
  <2>4. executions[c].status = "running" /\ UNCHANGED approvals
    BY <1>9 DEF Finish
  <2>5. QED
    BY <1>a, <1>9, <2>1, <2>3, <2>4, LabelType, NotTerminal, FinishEffect
    DEF AuditMatchesState, Planned
<1>10. ASSUME NEW c \in Calls, InterruptRetryLoop(c) PROVE AuditMatchesState'
  BY <1>a, <1>10, InterruptEffect DEF AuditMatchesState, Planned
<1>11. ASSUME NEW c \in Calls, Decide(c) PROVE AuditMatchesState'
  <2>1. \A d \in Calls, o \in AuditOutcomes :
           o \notin {"approval_approved", "approval_rejected"} =>
               audits'[d][o] = audits[d][o]
    BY <1>a, <1>11 DEF Decide, AppendAudit, TypeOK
  <2>2. \A a \in Calls :
           approvals'[a].status = "none" <=> approvals[a].status = "none"
    BY <1>a, <1>11 DEF Decide, TypeOK
  <2>3. QED
    BY <1>a, <1>11, <2>1, <2>2, LabelType, NotTerminal
    DEF Decide, AuditMatchesState, Planned
<1>12. ASSUME NEW c \in Calls, DecideTooLate(c) PROVE AuditMatchesState'
  <2>1. \A a \in Calls :
           approvals'[a].status = "none" <=> approvals[a].status = "none"
    BY <1>a, <1>12 DEF DecideTooLate, TypeOK
  <2>2. QED
    BY <1>a, <1>12, <2>1 DEF DecideTooLate, AuditMatchesState, Planned
<1>13. ASSUME NEW c \in Calls, UpstreamHandles(c) PROVE AuditMatchesState'
  BY <1>a, <1>b, <1>13 DEF UpstreamHandles, dbVars, AuditMatchesState, Planned
<1>14. QED
  BY <1>0, <1>1, <1>2, <1>3, <1>4, <1>5, <1>6, <1>7, <1>8, <1>9, <1>10, <1>11,
      <1>12, <1>13, Frame

-----------------------------------------------------------------------------
(***************************************************************************)
(* The tasks on their way: who owns a row, what the retry loop has written   *)
(* before and after each request                                             *)
(***************************************************************************)
\* However the executor ends, the task goes on to close its attempt.
LEMMA ExecutorEffect ==
    ASSUME TypeOK, NEW c \in Calls,
           NotSent(c) \/ Answered(c) \/ NotAnswered(c) \/ CancelExecutor(c)
    PROVE  /\ pc[c] \in {"dispatch", "wait"}
           /\ pc' = [pc EXCEPT ![c] = "close"]
           /\ \E o \in Outcomes : outcome' = [outcome EXCEPT ![c] = o]
           /\ UNCHANGED <<request, presented, now, reply, executions, attempts,
                          approvals, audits, wire, time>>
BY OutcomeType
DEF NotSent, Answered, ResponseOutcomes, NotAnswered, CancelExecutor,
    ExecutorEnds, Goto, dbVars, ErrorCategories

\* A task plans once, and works on its own row until it ends.
LEMMA OwnerStep == IInv /\ [Next]_vars => OwnerInv'
<1> SUFFICES ASSUME IInv, [Next]_vars PROVE OwnerInv'
  OBVIOUS
<1> USE DEF vars, taskVars, dbVars
<1>a. TypeOK /\ OwnerInv /\ AttemptInv
  BY DEF IInv
<1>b. request' = request
  BY Frame
<1>1. ASSUME NEW c \in Calls,
          \/ ReceiveCall(c) \/ RefuseCall(c) \/ Prepare(c)
          \/ PrepareFails(c) \/ LookupKey(c) \/ KeyReused(c)
          \/ ApprovalRefused(c) \/ PlanRace(c)
       PROVE  OwnerInv'
  BY <1>a, <1>b, LabelType, <1>1
  DEF ReceiveCall, Goto, RefuseCall, Answer, Prepare, PrepareFails, LookupKey,
      KeyReused, ApprovalRefused, PlanRace, TypeOK, OwnerInv, BeforePlan,
      AfterPlan, Current
<1>2. ASSUME NEW c \in Calls, ResolveSecret(c) PROVE OwnerInv'
  BY <1>a, <1>b, LabelType, <1>2
  DEF ResolveSecret, Goto, TypeOK, OwnerInv, BeforePlan, AfterPlan, Current
<1>3. ASSUME NEW c \in Calls, SecretFails(c) PROVE OwnerInv'
  BY <1>a, <1>b, LabelType, <1>3
  DEF SecretFails, Goto, TypeOK, OwnerInv, BeforePlan, AfterPlan, Current
<1>4. ASSUME NEW c \in Calls, Resume(c) PROVE OwnerInv'
  BY <1>a, <1>b, LabelType, <1>4
  DEF Resume, Goto, TypeOK, OwnerInv, BeforePlan, AfterPlan, Current
<1>5. ASSUME NEW c \in Calls, CancelOutside(c) PROVE OwnerInv'
  BY <1>a, <1>b, LabelType, <1>5
  DEF CancelOutside, Answer, TypeOK, OwnerInv, BeforePlan, AfterPlan, Current
<1>6. ASSUME NEW c \in Calls, DatabaseFailsOutside(c) PROVE OwnerInv'
  BY <1>a, <1>b, LabelType, <1>6
  DEF DatabaseFailsOutside, Answer, TypeOK, OwnerInv, BeforePlan, AfterPlan,
      Current
<1>7. ASSUME NEW c \in Calls, Crash(c) PROVE OwnerInv'
  BY <1>a, <1>b, LabelType, <1>7
  DEF Crash, Goto, TypeOK, OwnerInv, BeforePlan, AfterPlan, Current
<1>8. ASSUME NEW c \in Calls,
          \/ NotSent(c) \/ Answered(c) \/ NotAnswered(c)
          \/ CancelExecutor(c)
       PROVE  OwnerInv'
  <2>1. /\ pc[c] \in {"dispatch", "wait"}
        /\ pc' = [pc EXCEPT ![c] = "close"]
        /\ UNCHANGED <<executions, audits>>
    BY <1>a, <1>8, ExecutorEffect
  <2>2. QED
    BY <1>a, <2>1 DEF TypeOK, OwnerInv, BeforePlan, AfterPlan, Current
<1>9. ASSUME NEW c \in Calls, RecordDenial(c) PROVE OwnerInv'
  BY <1>a, <1>b, LabelType, <1>9
  DEF RecordDenial, AnswerCommitted, Answer, AppendAudit, TypeOK, OwnerInv,
      BeforePlan,
      AfterPlan, Current
<1>10. ASSUME NEW c \in Calls, RequestApproval(c) PROVE OwnerInv'
  BY <1>a, <1>b, LabelType, <1>10
  DEF RequestApproval, AnswerCommitted, Answer, AppendAudit, TypeOK, OwnerInv,
      BeforePlan,
      AfterPlan, Current
<1>11. ASSUME NEW c \in Calls, ApprovalExpires(c) PROVE OwnerInv'
  BY <1>a, <1>b, LabelType, <1>11
  DEF ApprovalExpires, AnswerCommitted, Answer, TypeOK, OwnerInv, BeforePlan,
      AfterPlan,
      Current
<1>12. ASSUME NEW c \in Calls, Plan(c) PROVE OwnerInv'
  BY <1>a, <1>b, LabelType, <1>12
  DEF Plan, GoOnPlanned, Answer, Goto, AppendAudit, ConsumeApproval, TypeOK,
      OwnerInv, BeforePlan,
      AfterPlan, Current
<1>13. ASSUME NEW c \in Calls, StartAttempt(c) PROVE OwnerInv'
  BY <1>a, <1>b, LabelType, <1>13
  DEF StartAttempt, Goto, StartAttemptTx, Current, TypeOK, OwnerInv,
      BeforePlan, AfterPlan, Current
<1>14. ASSUME NEW c \in Calls, Send(c) PROVE OwnerInv'
  BY <1>a, <1>b, LabelType, <1>14
  DEF Send, Goto, Current, TypeOK, OwnerInv, BeforePlan, AfterPlan, Current
<1>15. ASSUME NEW c \in Calls, AttemptRetried(c) PROVE OwnerInv'
  BY <1>a, <1>b, LabelType, <1>15
  DEF AttemptRetried, Goto, FinishAttemptTx, TypeOK, OwnerInv, BeforePlan,
      AfterPlan, Current
<1>16. ASSUME NEW c \in Calls, AttemptEnded(c) PROVE OwnerInv'
  BY <1>a, <1>b, LabelType, <1>16
  DEF AttemptEnded, Goto, FinishAttemptTx, TypeOK, OwnerInv, BeforePlan,
      AfterPlan, Current
<1>17. ASSUME NEW c \in Calls, Finish(c) PROVE OwnerInv'
  <2>1. TerminalStatus(outcome[c]) \in TerminalStatuses
    BY <1>a, TerminalStatusType DEF TypeOK
  <2>2. TerminalStatus(outcome[c]) \notin {"none", "denied"}
    BY <2>1, NotTerminal
  <2>3. \A d \in Calls : d # c =>
           /\ pc'[d] = pc[d]
           /\ executions'[d] = executions[d]
           /\ audits'[d] = audits[d]
    BY <1>a, <1>17 DEF Finish, AnswerCommitted, Answer, AppendAudit, TypeOK
  <2>4. pc'[c] = "done" /\ executions'[c].status # "none"
    BY <1>a, <1>17, <2>2, FinishEffect
    DEF Finish, AnswerCommitted, Answer, TypeOK
  <2>5. QED
    BY <1>a, <2>3, <2>4 DEF OwnerInv, BeforePlan, AfterPlan, Current
<1>18. ASSUME NEW c \in Calls, InterruptRetryLoop(c) PROVE OwnerInv'
  <2>1. /\ \A d \in Calls : d # c => pc'[d] = pc[d]
        /\ pc'[c] = "finish"
        /\ pc[c] \in {"start", "close", "backoff"}
        /\ UNCHANGED audits
    BY <1>a, <1>18 DEF InterruptRetryLoop, Goto, TypeOK
  <2>2. \A d \in Calls :
           /\ executions'[d].status = executions[d].status
           /\ d # c => executions'[d] = executions[d]
    BY <1>a, <1>18, StartEffect DEF InterruptRetryLoop, AttemptInv
  <2>3. QED
    BY <1>a, <2>1, <2>2 DEF OwnerInv, BeforePlan, AfterPlan, Current
<1>19. ASSUME NEW c \in Calls, Decide(c) PROVE OwnerInv'
  BY <1>a, <1>b, LabelType, <1>19
  DEF Decide, AppendAudit, TypeOK, OwnerInv, BeforePlan, AfterPlan, Current
<1>20. ASSUME NEW c \in Calls, DecideTooLate(c) PROVE OwnerInv'
  BY <1>a, <1>b, LabelType, <1>20
  DEF DecideTooLate, TypeOK, OwnerInv, BeforePlan, AfterPlan, Current
<1>21. ASSUME NEW c \in Calls, UpstreamHandles(c) PROVE OwnerInv'
  BY <1>a, <1>b, LabelType, <1>21
  DEF UpstreamHandles, TypeOK, OwnerInv, BeforePlan, AfterPlan, Current
<1>22. CASE Tick \/ AllAnswered \/ UNCHANGED vars
  BY <1>a, <1>b, LabelType, <1>22
  DEF Tick, AllAnswered, TypeOK, OwnerInv, BeforePlan, AfterPlan, Current
<1>23. QED
  BY <1>1, <1>2, <1>3, <1>4, <1>5, <1>6, <1>7, <1>8, <1>9, <1>10, <1>11,
      <1>12, <1>13, <1>14, <1>15, <1>16, <1>17, <1>18, <1>19, <1>20, <1>21,
      <1>22
  DEF Next, TaskStep, FaultStep

\* A call that asks for an approval ends there.
LEMMA ApprovalStep == IInv /\ [Next]_vars => ApprovalInv'
<1> SUFFICES ASSUME IInv, [Next]_vars PROVE ApprovalInv'
  OBVIOUS
<1> USE DEF vars, taskVars, dbVars
<1>a. TypeOK /\ OwnerInv /\ ApprovalInv /\ AttemptInv
  BY DEF IInv
<1>b. request' = request
  BY Frame
<1>1. ASSUME NEW c \in Calls,
          \/ ReceiveCall(c) \/ RefuseCall(c) \/ Prepare(c)
          \/ PrepareFails(c) \/ LookupKey(c) \/ KeyReused(c)
          \/ ApprovalRefused(c) \/ PlanRace(c)
       PROVE  ApprovalInv'
  BY <1>a, <1>b, NoneAssumption, <1>1
  DEF ReceiveCall, Goto, RefuseCall, Answer, Prepare, PrepareFails, LookupKey,
      KeyReused, ApprovalRefused, PlanRace, TypeOK, ApprovalInv
<1>2. ASSUME NEW c \in Calls,
          \/ ResolveSecret(c) \/ SecretFails(c) \/ Resume(c)
          \/ CancelOutside(c) \/ DatabaseFailsOutside(c) \/ Crash(c)
       PROVE  ApprovalInv'
  BY <1>a, <1>b, NoneAssumption, <1>2
  DEF ResolveSecret, Goto, SecretFails, Resume, CancelOutside, Answer,
      DatabaseFailsOutside, Crash, TypeOK, ApprovalInv
<1>3. ASSUME NEW c \in Calls,
          \/ NotSent(c) \/ Answered(c) \/ NotAnswered(c)
          \/ CancelExecutor(c)
       PROVE  ApprovalInv'
  BY <1>a, <1>b, NoneAssumption, <1>3
  DEF NotSent, ExecutorEnds, Goto, Answered, NotAnswered, CancelExecutor,
      TypeOK, ApprovalInv
<1>4. ASSUME NEW c \in Calls, RecordDenial(c) PROVE ApprovalInv'
  BY <1>a, <1>b, NoneAssumption, <1>4
  DEF RecordDenial, AnswerCommitted, Answer, AppendAudit, TypeOK, ApprovalInv
<1>5. ASSUME NEW c \in Calls, RequestApproval(c) PROVE ApprovalInv'
  <2>1. /\ \A d \in Calls : d # c => pc'[d] = pc[d]
        /\ pc'[c] = "done"
        /\ UNCHANGED presented
    BY <1>a, <1>5 DEF RequestApproval, AnswerCommitted, Answer, TypeOK
  <2>2. \A d \in Calls : approvals'[d].status # "none" =>
           pc'[d] = "done" /\ executions'[d].status = "none"
    BY <1>a, <1>5, <2>1, RequestEffect, RequestFinds DEF ApprovalInv
  <2>3. \A a \in Calls : approvals[a].status # "none" =>
           approvals'[a].status # "none"
    BY <1>a, <1>5, RequestEffect
  <2>4. \A d \in Calls : presented[d] # None =>
           approvals'[presented[d]].status # "none"
    BY <1>a, <2>3 DEF TypeOK, ApprovalInv
  <2>5. QED
    BY <1>a, <1>b, <2>1, <2>2, <2>4 DEF ApprovalInv
<1>6. ASSUME NEW c \in Calls, ApprovalExpires(c) PROVE ApprovalInv'
  BY <1>a, <1>b, NoneAssumption, <1>6
  DEF ApprovalExpires, AnswerCommitted, Answer, TypeOK, ApprovalInv
<1>7. ASSUME NEW c \in Calls, Plan(c) PROVE ApprovalInv'
  <2>1. /\ \A d \in Calls : d # c => pc'[d] = pc[d]
        /\ pc'[c] \in {"secret", "done"}
        /\ UNCHANGED presented
    BY <1>a, <1>7, PlannedEffect DEF Plan, TypeOK
  <2>2. \A a \in Calls :
           approvals'[a].status = "none" <=> approvals[a].status = "none"
    BY <1>a, <1>7, PlanEffect, NoneAssumption
  <2>3. \A d \in Calls : approvals'[d].status # "none" =>
           pc'[d] = "done" /\ executions'[d].status = "none"
    BY <1>a, <1>7, <2>1, <2>2, PlanEffect, PlanFinds DEF ApprovalInv
  <2>4. \A d \in Calls : presented[d] # None =>
           approvals'[presented[d]].status # "none"
    BY <1>a, <2>2 DEF TypeOK, ApprovalInv
  <2>5. QED
    BY <1>a, <1>b, <2>1, <2>3, <2>4 DEF ApprovalInv
<1>8. ASSUME NEW c \in Calls, StartAttempt(c) PROVE ApprovalInv'
  BY <1>a, <1>b, NoneAssumption, <1>8
  DEF StartAttempt, Goto, StartAttemptTx, Current, TypeOK, ApprovalInv
<1>9. ASSUME NEW c \in Calls, Send(c) PROVE ApprovalInv'
  BY <1>a, <1>b, NoneAssumption, <1>9
  DEF Send, Goto, Current, TypeOK, ApprovalInv
<1>10. ASSUME NEW c \in Calls, AttemptRetried(c) PROVE ApprovalInv'
  BY <1>a, <1>b, NoneAssumption, <1>10
  DEF AttemptRetried, Goto, FinishAttemptTx, TypeOK, ApprovalInv
<1>11. ASSUME NEW c \in Calls, AttemptEnded(c) PROVE ApprovalInv'
  BY <1>a, <1>b, NoneAssumption, <1>11
  DEF AttemptEnded, Goto, FinishAttemptTx, TypeOK, ApprovalInv
<1>12. ASSUME NEW c \in Calls, Finish(c) PROVE ApprovalInv'
  BY <1>a, <1>b, NoneAssumption, <1>12
  DEF Finish, AnswerCommitted, Answer, AppendAudit, TypeOK, ApprovalInv
<1>13. ASSUME NEW c \in Calls, InterruptRetryLoop(c) PROVE ApprovalInv'
  BY <1>a, <1>b, NoneAssumption, <1>13
  DEF InterruptRetryLoop, Goto, StartAttemptTx, FinishAttemptTx,
      RaisedInRetryLoop, Current, TypeOK, ApprovalInv
<1>14. ASSUME NEW c \in Calls, Decide(c) PROVE ApprovalInv'
  BY <1>a, <1>b, NoneAssumption, <1>14
  DEF Decide, AppendAudit, TypeOK, ApprovalInv
<1>15. ASSUME NEW c \in Calls, DecideTooLate(c) PROVE ApprovalInv'
  BY <1>a, <1>b, NoneAssumption, <1>15 DEF DecideTooLate, TypeOK, ApprovalInv
<1>16. ASSUME NEW c \in Calls, UpstreamHandles(c) PROVE ApprovalInv'
  BY <1>a, <1>b, NoneAssumption, <1>16
  DEF UpstreamHandles, TypeOK, ApprovalInv
<1>17. CASE Tick \/ AllAnswered \/ UNCHANGED vars
  BY <1>a, <1>b, NoneAssumption, <1>17
  DEF Tick, AllAnswered, TypeOK, ApprovalInv
<1>18. QED
  BY <1>1, <1>2, <1>3, <1>4, <1>5, <1>6, <1>7, <1>8, <1>9, <1>10, <1>11,
      <1>12, <1>13, <1>14, <1>15, <1>16, <1>17
  DEF Next, TaskStep, FaultStep

\* Attempt numbers and counters are numbers.
LEMMA CounterType ==
    ASSUME TypeOK, NEW c \in Calls
    PROVE  /\ Current(c) \in 0..MaxAttempts
           /\ Current(c) \in Nat
           /\ \A i \in AttemptNumbers : i \in Nat /\ i > 0 /\ i <= MaxAttempts
BY BoundAssumption DEF TypeOK, ExecutionRows, Current, AttemptNumbers

\* A retried outcome was a failure, recorded as failed or unknown.
LEMMA RetriedStatus ==
    ASSUME TypeOK, NEW c \in Calls, MayRetry(c)
    PROVE  /\ TerminalStatus(outcome[c]) \in {"failed", "unknown"}
           /\ Current(c) < MaxAttempts
<1>1. outcome[c] \in Outcomes /\ outcome[c].kind = "failure"
  BY DEF TypeOK, MayRetry
<1>2. TerminalStatus(outcome[c]) \in TerminalStatuses \ {"succeeded", "cancelled"}
  BY <1>1, TerminalStatusType
<1>3. QED
  BY <1>2 DEF TerminalStatuses, MayRetry

\* The three ways out of the retry loop in the middle of a transaction.
LEMMA InterruptCases ==
    ASSUME TypeOK, AttemptInv, NEW c \in Calls, InterruptRetryLoop(c)
    PROVE  /\ pc' = [pc EXCEPT ![c] = "finish"]
           /\ wire' = wire
           /\ outcome' = [outcome EXCEPT ![c] = CancelledError]
              \/ outcome' = [outcome EXCEPT ![c] = UnexpectedException]
           /\ \/ /\ pc[c] = "start" /\ Current(c) < MaxAttempts
                 /\ StartAttemptTx(c)
              \/ pc[c] = "close" /\ FinishAttemptTx(c) /\ UNCHANGED executions
              \/ UNCHANGED <<executions, attempts>>
BY DEF InterruptRetryLoop, RaisedInRetryLoop, Goto, AttemptInv

\* A fresh row before every request, closed after it.
LEMMA AttemptStep == IInv /\ [Next]_vars => AttemptInv'
<1> SUFFICES ASSUME IInv, [Next]_vars PROVE AttemptInv'
  OBVIOUS
<1> USE DEF vars, taskVars, dbVars
<1>a. TypeOK /\ OwnerInv /\ AttemptInv
  BY DEF IInv
<1>b. request' = request
  BY Frame
<1>1. ASSUME NEW c \in Calls,
          \/ ReceiveCall(c) \/ RefuseCall(c) \/ Prepare(c)
          \/ PrepareFails(c) \/ LookupKey(c) \/ KeyReused(c)
          \/ ApprovalRefused(c) \/ PlanRace(c)
       PROVE  AttemptInv'
  BY <1>a, <1>b, BoundAssumption, <1>1
  DEF ReceiveCall, Goto, RefuseCall, Answer, Prepare, PrepareFails, LookupKey,
      KeyReused, ApprovalRefused, PlanRace, TypeOK, AttemptInv, Current,
      Reached
<1>2. ASSUME NEW c \in Calls, ResolveSecret(c) PROVE AttemptInv'
  <2>1. Current(c) = 0
    BY <1>a, <1>2 DEF ResolveSecret, OwnerInv
  <2>2. /\ \A d \in Calls : d # c =>
              /\ pc'[d] = pc[d] /\ Current(d)' = Current(d)
              /\ attempts'[d] = attempts[d] /\ wire'[d] = wire[d]
        /\ pc'[c] = "start" /\ UNCHANGED <<executions, attempts, wire>>
    BY <1>a, <1>2 DEF ResolveSecret, Goto, Current, TypeOK
  <2>3. QED
    BY <1>a, <2>1, <2>2, CounterType, BoundAssumption
    DEF AttemptInv, Reached, Current
<1>3. ASSUME NEW c \in Calls, SecretFails(c) PROVE AttemptInv'
  BY <1>a, <1>b, BoundAssumption, <1>3
  DEF SecretFails, Goto, TypeOK, AttemptInv, Current, Reached
<1>4. ASSUME NEW c \in Calls, Resume(c) PROVE AttemptInv'
  BY <1>a, <1>b, BoundAssumption, <1>4
  DEF Resume, Goto, TypeOK, AttemptInv, Current, Reached
<1>5. ASSUME NEW c \in Calls, CancelOutside(c) PROVE AttemptInv'
  BY <1>a, <1>b, BoundAssumption, <1>5
  DEF CancelOutside, Answer, TypeOK, AttemptInv, Current, Reached
<1>6. ASSUME NEW c \in Calls, DatabaseFailsOutside(c) PROVE AttemptInv'
  BY <1>a, <1>b, BoundAssumption, <1>6
  DEF DatabaseFailsOutside, Answer, TypeOK, AttemptInv, Current, Reached
<1>7. ASSUME NEW c \in Calls, Crash(c) PROVE AttemptInv'
  BY <1>a, <1>b, BoundAssumption, <1>7
  DEF Crash, Goto, TypeOK, AttemptInv, Current, Reached
<1>8. ASSUME NEW c \in Calls,
          \/ NotSent(c) \/ Answered(c) \/ NotAnswered(c)
          \/ CancelExecutor(c)
       PROVE  AttemptInv'
  <2>1. /\ pc[c] \in {"dispatch", "wait"}
        /\ pc' = [pc EXCEPT ![c] = "close"]
        /\ UNCHANGED <<executions, attempts, wire>>
    BY <1>a, <1>8, ExecutorEffect
  <2>2. QED
    BY <1>a, <2>1 DEF TypeOK, AttemptInv, Current, Reached
<1>9. ASSUME NEW c \in Calls, RecordDenial(c) PROVE AttemptInv'
  BY <1>a, <1>b, BoundAssumption, <1>9
  DEF RecordDenial, AnswerCommitted, Answer, AppendAudit, TypeOK, AttemptInv,
      Current, Reached
<1>10. ASSUME NEW c \in Calls, RequestApproval(c) PROVE AttemptInv'
  BY <1>a, <1>b, BoundAssumption, <1>10
  DEF RequestApproval, AnswerCommitted, Answer, AppendAudit, TypeOK,
      AttemptInv, Current,
      Reached
<1>11. ASSUME NEW c \in Calls, ApprovalExpires(c) PROVE AttemptInv'
  BY <1>a, <1>b, BoundAssumption, <1>11
  DEF ApprovalExpires, AnswerCommitted, Answer, TypeOK, AttemptInv, Current,
      Reached
<1>12. ASSUME NEW c \in Calls, Plan(c) PROVE AttemptInv'
  <2>1. Current(c) = 0 /\ Current(c)' = 0
    BY <1>a, <1>12, PlanEffect
    DEF Plan, OwnerInv, BeforePlan, NoExecution, Current
  <2>2. /\ \A d \in Calls : d # c =>
              /\ pc'[d] = pc[d] /\ Current(d)' = Current(d)
              /\ attempts'[d] = attempts[d] /\ wire'[d] = wire[d]
        /\ pc'[c] \in {"secret", "done"} /\ UNCHANGED <<attempts, wire>>
    BY <1>a, <1>12, PlanEffect, PlannedEffect DEF Plan, Current, TypeOK
  <2>3. QED
    BY <1>a, <2>1, <2>2, CounterType DEF AttemptInv, Reached
<1>13. ASSUME NEW c \in Calls, StartAttempt(c) PROVE AttemptInv'
  <2>1. Current(c) < MaxAttempts /\ pc[c] = "start" /\ StartAttemptTx(c)
    BY <1>a, <1>13 DEF StartAttempt, AttemptInv
  <2>2. /\ \A d \in Calls : d # c =>
              /\ pc'[d] = pc[d] /\ Current(d)' = Current(d)
              /\ attempts'[d] = attempts[d] /\ wire'[d] = wire[d]
        /\ pc'[c] = "dispatch" /\ wire'[c] = wire[c]
    BY <1>a, <1>13, <2>1, StartEffect DEF StartAttempt, Goto, Current, TypeOK
  <2>3. QED
    BY <1>a, <2>1, <2>2, StartEffect, CounterType DEF AttemptInv, Reached
<1>14. ASSUME NEW c \in Calls, Send(c) PROVE AttemptInv'
  BY <1>a, <1>b, BoundAssumption, <1>14
  DEF Send, Goto, Current, TypeOK, AttemptInv, Current, Reached
<1>15. ASSUME NEW c \in Calls, AttemptRetried(c) PROVE AttemptInv'
  <2>1. /\ \A d \in Calls : d # c =>
              /\ pc'[d] = pc[d] /\ Current(d)' = Current(d)
              /\ attempts'[d] = attempts[d] /\ wire'[d] = wire[d]
        /\ pc'[c] = "backoff" /\ Current(c)' = Current(c) /\ wire'[c] = wire[c]
    BY <1>a, <1>15, FinishAttemptEffect
    DEF AttemptRetried, Goto, Current, TypeOK
  <2>2. \A i \in AttemptNumbers :
           attempts'[c][i] = IF i = Current(c) THEN TerminalStatus(outcome[c])
                                               ELSE attempts[c][i]
    BY <1>a, <1>15, FinishAttemptEffect DEF AttemptRetried
  <2>3. TerminalStatus(outcome[c]) # "none" /\ MayRetry(c)
    BY <1>a, <1>15, TerminalStatusType, NotTerminal, RetriedStatus
    DEF AttemptRetried, TypeOK
  <2>4. pc[c] = "close"
    BY <1>15 DEF AttemptRetried
  <2>5. QED
    BY <1>a, <2>1, <2>2, <2>3, <2>4, CounterType, RetriedStatus DEF AttemptInv, Reached
<1>16. ASSUME NEW c \in Calls, AttemptEnded(c) PROVE AttemptInv'
  <2>1. /\ \A d \in Calls : d # c =>
              /\ pc'[d] = pc[d] /\ Current(d)' = Current(d)
              /\ attempts'[d] = attempts[d] /\ wire'[d] = wire[d]
        /\ pc'[c] = "finish" /\ Current(c)' = Current(c) /\ wire'[c] = wire[c]
    BY <1>a, <1>16, FinishAttemptEffect
    DEF AttemptEnded, Goto, Current, TypeOK
  <2>2. \A i \in AttemptNumbers :
           attempts'[c][i] = IF i = Current(c) THEN TerminalStatus(outcome[c])
                                               ELSE attempts[c][i]
    BY <1>a, <1>16, FinishAttemptEffect DEF AttemptEnded
  <2>3. TerminalStatus(outcome[c]) # "none"
    BY <1>a, <1>16, TerminalStatusType, NotTerminal DEF TypeOK
  <2>4. pc[c] = "close"
    BY <1>16 DEF AttemptEnded
  <2>5. QED
    BY <1>a, <2>1, <2>2, <2>3, <2>4, CounterType DEF AttemptInv, Reached
<1>17. ASSUME NEW c \in Calls, Finish(c) PROVE AttemptInv'
  BY <1>a, <1>b, BoundAssumption, <1>17
  DEF Finish, AnswerCommitted, Answer, AppendAudit, TypeOK, AttemptInv,
      Current, Reached
<1>18. ASSUME NEW c \in Calls, InterruptRetryLoop(c) PROVE AttemptInv'
  <2>1. pc' = [pc EXCEPT ![c] = "finish"] /\ wire' = wire
    BY <1>a, <1>18, InterruptCases
  <2>2. CASE pc[c] = "start" /\ Current(c) < MaxAttempts /\ StartAttemptTx(c)
    <3>1. /\ \A d \in Calls : d # c =>
                  /\ pc'[d] = pc[d] /\ Current(d)' = Current(d)
                  /\ attempts'[d] = attempts[d] /\ wire'[d] = wire[d]
          /\ pc'[c] = "finish"
      BY <1>a, <2>1, <2>2, StartEffect DEF Current, TypeOK
    <3>2. QED
      BY <1>a, <2>1, <2>2, <3>1, StartEffect, CounterType
      DEF AttemptInv, Reached
  <2>3. CASE pc[c] = "close" /\ FinishAttemptTx(c) /\ UNCHANGED executions
    <3>1. /\ \A d \in Calls : d # c =>
                  /\ pc'[d] = pc[d] /\ Current(d)' = Current(d)
                  /\ attempts'[d] = attempts[d] /\ wire'[d] = wire[d]
          /\ pc'[c] = "finish" /\ Current(c)' = Current(c)
      BY <1>a, <2>1, <2>3, FinishAttemptEffect DEF Current, TypeOK
    <3>2. TerminalStatus(outcome[c]) # "none"
      BY <1>a, TerminalStatusType, NotTerminal DEF TypeOK
    <3>3. QED
      BY <1>a, <2>1, <2>3, <3>1, <3>2, FinishAttemptEffect, CounterType
      DEF AttemptInv, Reached
  <2>4. CASE UNCHANGED <<executions, attempts>>
    BY <1>a, <2>1, <2>4 DEF AttemptInv, Reached, Current, TypeOK
  <2>5. QED
    BY <1>a, <1>18, <2>2, <2>3, <2>4, InterruptCases
<1>19. ASSUME NEW c \in Calls, Decide(c) PROVE AttemptInv'
  BY <1>a, <1>b, BoundAssumption, <1>19
  DEF Decide, AppendAudit, TypeOK, AttemptInv, Current, Reached
<1>20. ASSUME NEW c \in Calls, DecideTooLate(c) PROVE AttemptInv'
  BY <1>a, <1>b, BoundAssumption, <1>20
  DEF DecideTooLate, TypeOK, AttemptInv, Current, Reached
<1>21. ASSUME NEW c \in Calls, UpstreamHandles(c) PROVE AttemptInv'
  BY <1>a, <1>b, BoundAssumption, <1>21
  DEF UpstreamHandles, TypeOK, AttemptInv, Current, Reached
<1>22. CASE Tick \/ AllAnswered \/ UNCHANGED vars
  BY <1>a, <1>b, BoundAssumption, <1>22
  DEF Tick, AllAnswered, TypeOK, AttemptInv, Current, Reached
<1>23. QED
  BY <1>1, <1>2, <1>3, <1>4, <1>5, <1>6, <1>7, <1>8, <1>9, <1>10, <1>11,
      <1>12, <1>13, <1>14, <1>15, <1>16, <1>17, <1>18, <1>19, <1>20, <1>21,
      <1>22
  DEF Next, TaskStep, FaultStep

\* A result is only derived from a request the upstream applied.
LEMMA ResultIsApplied ==
    ASSUME TypeOK, NEW c \in Calls,
           NotSent(c) \/ Answered(c) \/ NotAnswered(c) \/ CancelExecutor(c),
           outcome'[c].kind = "result"
    PROVE  wire[c][Current(c)] = "applied"
<1>1. CASE NotSent(c) \/ NotAnswered(c) \/ CancelExecutor(c)
  BY <1>1
  DEF NotSent, NotAnswered, CancelExecutor, ExecutorEnds, ExecutorFailure,
      CancelledError, UnexpectedException, Outcome, TypeOK
<1>2. CASE Answered(c)
  <2>1. PICK o \in ResponseOutcomes(wire[c][Current(c)]) :
           outcome' = [outcome EXCEPT ![c] = o]
    BY <1>2 DEF Answered, ExecutorEnds
  <2>2. o.kind = "result"
    BY <2>1 DEF TypeOK
  <2>3. QED
    BY <2>1, <2>2 DEF ResponseOutcomes, ExecutorFailure, Outcome
<1>3. QED
  BY <1>1, <1>2

\* The outcome agrees with the last attempt.
LEMMA OutcomeStep == IInv /\ [Next]_vars => OutcomeInv'
<1> SUFFICES ASSUME IInv, [Next]_vars PROVE OutcomeInv'
  OBVIOUS
<1> USE DEF vars, taskVars, dbVars
<1>a. TypeOK /\ OwnerInv /\ AttemptInv /\ OutcomeInv
  BY DEF IInv
<1>b. request' = request
  BY Frame
<1>1. ASSUME NEW c \in Calls, ReceiveCall(c) PROVE OutcomeInv'
  BY <1>a, <1>b, BoundAssumption, <1>1
  DEF ReceiveCall, Goto, TypeOK, OutcomeInv, Current
<1>2. ASSUME NEW c \in Calls,
          \/ RefuseCall(c) \/ Prepare(c) \/ PrepareFails(c) \/ LookupKey(c)
          \/ KeyReused(c) \/ ApprovalRefused(c) \/ PlanRace(c)
       PROVE  OutcomeInv'
  <2>1. /\ \A d \in Calls : d # c =>
              /\ pc'[d] = pc[d] /\ Current(d)' = Current(d)
              /\ attempts'[d] = attempts[d] /\ wire'[d] = wire[d]
              /\ outcome'[d] = outcome[d]
        /\ pc'[c] \notin {"close", "finish"}
    BY <1>a, <1>2
    DEF RefuseCall, Prepare, PrepareFails, LookupKey, KeyReused,
        ApprovalRefused, PlanRace, Goto, Answer, Current, TypeOK
  <2>2. QED
    BY <1>a, <2>1 DEF OutcomeInv
<1>3. ASSUME NEW c \in Calls, ResolveSecret(c) PROVE OutcomeInv'
  BY <1>a, <1>b, BoundAssumption, <1>3
  DEF ResolveSecret, Goto, TypeOK, OutcomeInv, Current
<1>4. ASSUME NEW c \in Calls, SecretFails(c) PROVE OutcomeInv'
  <2>1. /\ \A d \in Calls : d # c =>
              /\ pc'[d] = pc[d] /\ Current(d)' = Current(d)
              /\ attempts'[d] = attempts[d] /\ wire'[d] = wire[d]
              /\ outcome'[d] = outcome[d]
        /\ pc'[c] = "finish" /\ outcome'[c].kind = "failure"
        /\ UNCHANGED attempts
    BY <1>a, <1>4
    DEF SecretFails, Goto, Current, TypeOK, ExecutorFailure, Outcome
  <2>2. \A i \in AttemptNumbers : attempts[c][i] = "none"
    BY <1>a, <1>4, CounterType DEF SecretFails, OwnerInv, AttemptInv
  <2>3. QED
    BY <1>a, <2>1, <2>2 DEF OutcomeInv
<1>5. ASSUME NEW c \in Calls, Resume(c) PROVE OutcomeInv'
  BY <1>a, <1>b, BoundAssumption, <1>5
  DEF Resume, Goto, TypeOK, OutcomeInv, Current
<1>6. ASSUME NEW c \in Calls, CancelOutside(c) PROVE OutcomeInv'
  BY <1>a, <1>b, BoundAssumption, <1>6
  DEF CancelOutside, Answer, TypeOK, OutcomeInv, Current
<1>7. ASSUME NEW c \in Calls, DatabaseFailsOutside(c) PROVE OutcomeInv'
  BY <1>a, <1>b, BoundAssumption, <1>7
  DEF DatabaseFailsOutside, Answer, TypeOK, OutcomeInv, Current
<1>8. ASSUME NEW c \in Calls, Crash(c) PROVE OutcomeInv'
  BY <1>a, <1>b, BoundAssumption, <1>8
  DEF Crash, Goto, TypeOK, OutcomeInv, Current
<1>9. ASSUME NEW c \in Calls,
          \/ NotSent(c) \/ Answered(c) \/ NotAnswered(c)
          \/ CancelExecutor(c)
       PROVE  OutcomeInv'
  <2>1. /\ \A d \in Calls : d # c =>
              /\ pc'[d] = pc[d] /\ Current(d)' = Current(d)
              /\ attempts'[d] = attempts[d] /\ wire'[d] = wire[d]
              /\ outcome'[d] = outcome[d]
        /\ pc'[c] = "close" /\ UNCHANGED <<executions, wire>>
    BY <1>a, <1>9, ExecutorEffect DEF Current, TypeOK
  <2>2. outcome'[c].kind = "result" => wire[c][Current(c)] = "applied"
    BY <1>a, <1>9, ResultIsApplied
  <2>3. QED
    BY <1>a, <2>1, <2>2 DEF OutcomeInv, Current
<1>10. ASSUME NEW c \in Calls, RecordDenial(c) PROVE OutcomeInv'
  BY <1>a, <1>b, BoundAssumption, <1>10
  DEF RecordDenial, AnswerCommitted, Answer, AppendAudit, TypeOK, OutcomeInv,
      Current
<1>11. ASSUME NEW c \in Calls, RequestApproval(c) PROVE OutcomeInv'
  BY <1>a, <1>b, BoundAssumption, <1>11
  DEF RequestApproval, AnswerCommitted, Answer, AppendAudit, TypeOK,
      OutcomeInv, Current
<1>12. ASSUME NEW c \in Calls, ApprovalExpires(c) PROVE OutcomeInv'
  BY <1>a, <1>b, BoundAssumption, <1>12
  DEF ApprovalExpires, AnswerCommitted, Answer, TypeOK, OutcomeInv, Current
<1>13. ASSUME NEW c \in Calls, Plan(c) PROVE OutcomeInv'
  BY <1>a, <1>b, BoundAssumption, <1>13
  DEF Plan, GoOnPlanned, Answer, Goto, AppendAudit, ConsumeApproval, TypeOK,
      OutcomeInv, Current
<1>14. ASSUME NEW c \in Calls, StartAttempt(c) PROVE OutcomeInv'
  BY <1>a, <1>b, BoundAssumption, <1>14
  DEF StartAttempt, Goto, StartAttemptTx, Current, TypeOK, OutcomeInv, Current
<1>15. ASSUME NEW c \in Calls, Send(c) PROVE OutcomeInv'
  BY <1>a, <1>b, BoundAssumption, <1>15
  DEF Send, Goto, Current, TypeOK, OutcomeInv, Current
<1>16. ASSUME NEW c \in Calls, AttemptRetried(c) PROVE OutcomeInv'
  BY <1>a, <1>b, BoundAssumption, <1>16
  DEF AttemptRetried, Goto, FinishAttemptTx, TypeOK, OutcomeInv, Current
<1>17. ASSUME NEW c \in Calls, AttemptEnded(c) PROVE OutcomeInv'
  <2>1. /\ \A d \in Calls : d # c =>
              /\ pc'[d] = pc[d] /\ Current(d)' = Current(d)
              /\ attempts'[d] = attempts[d] /\ wire'[d] = wire[d]
              /\ outcome'[d] = outcome[d]
        /\ pc'[c] = "finish" /\ Current(c)' = Current(c) /\ wire' = wire
    BY <1>a, <1>17, FinishAttemptEffect DEF AttemptEnded, Goto, Current, TypeOK
  <2>2. outcome'[c].kind = outcome[c].kind
    BY <1>a, <1>17, OutcomeType, RequestType DEF AttemptEnded, TypeOK
  <2>3. /\ pc[c] = "close" /\ Current(c) > 0
        /\ Current(c) \in AttemptNumbers
    BY <1>a, <1>17, CounterType DEF AttemptEnded, AttemptInv, AttemptNumbers
  <2>4. /\ TerminalStatus(outcome[c]) # "running"
        /\ outcome[c].kind = "result" => TerminalStatus(outcome[c]) = "succeeded"
    BY <1>a, TerminalStatusType, NotTerminal DEF TypeOK
  <2>5. \A i \in AttemptNumbers :
           attempts'[c][i] = IF i = Current(c) THEN TerminalStatus(outcome[c])
                                               ELSE attempts[c][i]
    BY <1>a, <1>17, FinishAttemptEffect DEF AttemptEnded
  <2>6. \A i \in AttemptNumbers : i # Current(c) => attempts[c][i] # "running"
    BY <1>a, CounterType DEF AttemptInv
  <2>7. QED
    BY <1>a, <2>1, <2>2, <2>3, <2>4, <2>5, <2>6 DEF OutcomeInv
<1>18. ASSUME NEW c \in Calls, Finish(c) PROVE OutcomeInv'
  BY <1>a, <1>b, BoundAssumption, <1>18
  DEF Finish, AnswerCommitted, Answer, AppendAudit, TypeOK, OutcomeInv, Current
<1>19. ASSUME NEW c \in Calls, InterruptRetryLoop(c) PROVE OutcomeInv'
  <2>1. /\ \A d \in Calls : d # c =>
              /\ pc'[d] = pc[d] /\ Current(d)' = Current(d)
              /\ attempts'[d] = attempts[d] /\ wire'[d] = wire[d]
              /\ outcome'[d] = outcome[d]
        /\ pc'[c] = "finish" /\ outcome'[c].kind \in {"cancelled", "exception"}
    BY <1>a, <1>19, InterruptCases, StartEffect, FinishAttemptEffect
    DEF Current, TypeOK, CancelledError, UnexpectedException, Outcome
  <2>2. QED
    BY <1>a, <2>1 DEF OutcomeInv
<1>20. ASSUME NEW c \in Calls, Decide(c) PROVE OutcomeInv'
  BY <1>a, <1>b, BoundAssumption, <1>20
  DEF Decide, AppendAudit, TypeOK, OutcomeInv, Current
<1>21. ASSUME NEW c \in Calls, DecideTooLate(c) PROVE OutcomeInv'
  BY <1>a, <1>b, BoundAssumption, <1>21
  DEF DecideTooLate, TypeOK, OutcomeInv, Current
<1>22. ASSUME NEW c \in Calls, UpstreamHandles(c) PROVE OutcomeInv'
  BY <1>a, <1>b, BoundAssumption, <1>22
  DEF UpstreamHandles, TypeOK, OutcomeInv, Current
<1>23. CASE Tick \/ AllAnswered \/ UNCHANGED vars
  BY <1>a, <1>b, BoundAssumption, <1>23
  DEF Tick, AllAnswered, TypeOK, OutcomeInv, Current
<1>24. QED
  BY <1>1, <1>2, <1>3, <1>4, <1>5, <1>6, <1>7, <1>8, <1>9, <1>10, <1>11,
      <1>12, <1>13, <1>14, <1>15, <1>16, <1>17, <1>18, <1>19, <1>20, <1>21,
      <1>22, <1>23
  DEF Next, TaskStep, FaultStep

\* What may not be repeated is neither retried nor reported differently.
LEMMA NeverRetried ==
    ASSUME NEW c \in Calls,
           request[c].side_effect \in {"non_idempotent_write", "unknown"}
    PROVE  /\ ~MayRetry(c)
           /\ \A o : RaisedByRetry(o, request[c].side_effect, HasKey(c)) = o
BY DEF MayRetry, retry_disposition, RaisedByRetry

\* A write that must not be repeated has one attempt.
LEMMA SingleShotStep == IInv /\ [Next]_vars => SingleShotInv'
<1> SUFFICES ASSUME IInv, [Next]_vars PROVE SingleShotInv'
  OBVIOUS
<1> USE DEF vars, taskVars, dbVars
<1>a. TypeOK /\ OwnerInv /\ AttemptInv /\ SingleShotInv
  BY DEF IInv
<1>b. request' = request
  BY Frame
<1>1. ASSUME NEW c \in Calls, ReceiveCall(c) PROVE SingleShotInv'
  BY <1>a, <1>b, BoundAssumption, <1>1
  DEF ReceiveCall, Goto, TypeOK, SingleShotInv, Current
<1>2. ASSUME NEW c \in Calls,
          \/ RefuseCall(c) \/ Prepare(c) \/ PrepareFails(c) \/ LookupKey(c)
          \/ KeyReused(c) \/ ApprovalRefused(c) \/ PlanRace(c)
       PROVE  SingleShotInv'
  BY <1>a, <1>b, BoundAssumption, <1>2
  DEF RefuseCall, Answer, Prepare, Goto, PrepareFails, LookupKey, KeyReused,
      ApprovalRefused, PlanRace, TypeOK, SingleShotInv, Current
<1>3. ASSUME NEW c \in Calls, ResolveSecret(c) PROVE SingleShotInv'
  <2>1. Current(c) = 0
    BY <1>a, <1>3 DEF ResolveSecret, OwnerInv
  <2>2. /\ \A d \in Calls : d # c =>
              /\ pc'[d] = pc[d] /\ Current(d)' = Current(d)
              /\ attempts'[d] = attempts[d] /\ wire'[d] = wire[d]
              /\ outcome'[d] = outcome[d]
        /\ pc'[c] = "start" /\ Current(c)' = Current(c)
    BY <1>a, <1>3 DEF ResolveSecret, Goto, Current, TypeOK
  <2>3. QED
    BY <1>a, <1>b, <2>1, <2>2 DEF SingleShotInv
<1>4. ASSUME NEW c \in Calls, SecretFails(c) PROVE SingleShotInv'
  <2>1. /\ \A d \in Calls : d # c =>
              /\ pc'[d] = pc[d] /\ Current(d)' = Current(d)
              /\ attempts'[d] = attempts[d] /\ wire'[d] = wire[d]
              /\ outcome'[d] = outcome[d]
        /\ pc'[c] = "finish" /\ Current(c)' = Current(c) /\ UNCHANGED attempts
    BY <1>a, <1>4 DEF SecretFails, Goto, Current, TypeOK
  <2>2. \A i \in AttemptNumbers : attempts[c][i] = "none"
    BY <1>a, <1>4, CounterType DEF SecretFails, OwnerInv, AttemptInv
  <2>3. QED
    BY <1>a, <1>b, <2>1, <2>2 DEF SingleShotInv
<1>5. ASSUME NEW c \in Calls, Resume(c) PROVE SingleShotInv'
  BY <1>a, <1>b, BoundAssumption, <1>5
  DEF Resume, Goto, TypeOK, SingleShotInv, Current
<1>6. ASSUME NEW c \in Calls, CancelOutside(c) PROVE SingleShotInv'
  BY <1>a, <1>b, BoundAssumption, <1>6
  DEF CancelOutside, Answer, TypeOK, SingleShotInv, Current
<1>7. ASSUME NEW c \in Calls, DatabaseFailsOutside(c) PROVE SingleShotInv'
  BY <1>a, <1>b, BoundAssumption, <1>7
  DEF DatabaseFailsOutside, Answer, TypeOK, SingleShotInv, Current
<1>8. ASSUME NEW c \in Calls, Crash(c) PROVE SingleShotInv'
  BY <1>a, <1>b, BoundAssumption, <1>8
  DEF Crash, Goto, TypeOK, SingleShotInv, Current
<1>9. ASSUME NEW c \in Calls,
          \/ NotSent(c) \/ Answered(c) \/ NotAnswered(c)
          \/ CancelExecutor(c)
       PROVE  SingleShotInv'
  BY <1>a, <1>b, BoundAssumption, <1>9
  DEF NotSent, ExecutorEnds, Goto, Answered, NotAnswered, CancelExecutor,
      TypeOK, SingleShotInv, Current
<1>10. ASSUME NEW c \in Calls, RecordDenial(c) PROVE SingleShotInv'
  BY <1>a, <1>b, BoundAssumption, <1>10
  DEF RecordDenial, AnswerCommitted, Answer, AppendAudit, TypeOK,
      SingleShotInv, Current
<1>11. ASSUME NEW c \in Calls, RequestApproval(c) PROVE SingleShotInv'
  BY <1>a, <1>b, BoundAssumption, <1>11
  DEF RequestApproval, AnswerCommitted, Answer, AppendAudit, TypeOK,
      SingleShotInv, Current
<1>12. ASSUME NEW c \in Calls, ApprovalExpires(c) PROVE SingleShotInv'
  BY <1>a, <1>b, BoundAssumption, <1>12
  DEF ApprovalExpires, AnswerCommitted, Answer, TypeOK, SingleShotInv, Current
<1>13. ASSUME NEW c \in Calls, Plan(c) PROVE SingleShotInv'
  BY <1>a, <1>b, BoundAssumption, <1>13
  DEF Plan, GoOnPlanned, Answer, Goto, AppendAudit, ConsumeApproval, TypeOK,
      SingleShotInv, Current
<1>14. ASSUME NEW c \in Calls, StartAttempt(c) PROVE SingleShotInv'
  BY <1>a, <1>b, BoundAssumption, <1>14
  DEF StartAttempt, Goto, StartAttemptTx, Current, TypeOK, SingleShotInv,
      Current
<1>15. ASSUME NEW c \in Calls, Send(c) PROVE SingleShotInv'
  BY <1>a, <1>b, BoundAssumption, <1>15
  DEF Send, Goto, Current, TypeOK, SingleShotInv, Current
<1>16. ASSUME NEW c \in Calls, AttemptRetried(c) PROVE SingleShotInv'
  <2>1. ~(request[c].side_effect \in {"non_idempotent_write", "unknown"})
    BY <1>16, NeverRetried DEF AttemptRetried
  <2>2. /\ \A d \in Calls : d # c =>
              /\ pc'[d] = pc[d] /\ Current(d)' = Current(d)
              /\ attempts'[d] = attempts[d] /\ wire'[d] = wire[d]
              /\ outcome'[d] = outcome[d]
    BY <1>a, <1>16, FinishAttemptEffect DEF AttemptRetried, Goto, Current, TypeOK
  <2>3. QED
    BY <1>a, <1>b, <2>1, <2>2 DEF SingleShotInv
<1>17. ASSUME NEW c \in Calls, AttemptEnded(c) PROVE SingleShotInv'
  <2>1. /\ \A d \in Calls : d # c =>
              /\ pc'[d] = pc[d] /\ Current(d)' = Current(d)
              /\ attempts'[d] = attempts[d] /\ wire'[d] = wire[d]
              /\ outcome'[d] = outcome[d]
        /\ pc'[c] = "finish" /\ Current(c)' = Current(c)
    BY <1>a, <1>17, FinishAttemptEffect DEF AttemptEnded, Goto, Current, TypeOK
  <2>2. request[c].side_effect \in {"non_idempotent_write", "unknown"} =>
           outcome'[c] = outcome[c]
    BY <1>a, <1>17, NeverRetried DEF AttemptEnded, TypeOK
  <2>3. \A i \in AttemptNumbers :
           attempts'[c][i] = IF i = Current(c) THEN TerminalStatus(outcome[c])
                                               ELSE attempts[c][i]
    BY <1>a, <1>17, FinishAttemptEffect DEF AttemptEnded
  <2>4. request[c].side_effect \in {"non_idempotent_write", "unknown"} =>
           \A i \in AttemptNumbers : i # Current(c) => attempts[c][i] = "none"
    BY <1>a, <1>17, CounterType DEF AttemptEnded, AttemptInv, SingleShotInv
  <2>5. QED
    BY <1>a, <1>b, <2>1, <2>2, <2>3, <2>4 DEF SingleShotInv
<1>18. ASSUME NEW c \in Calls, Finish(c) PROVE SingleShotInv'
  BY <1>a, <1>b, BoundAssumption, <1>18
  DEF Finish, AnswerCommitted, Answer, AppendAudit, TypeOK, SingleShotInv,
      Current
<1>19. ASSUME NEW c \in Calls, InterruptRetryLoop(c) PROVE SingleShotInv'
  <2>1. /\ \A d \in Calls : d # c =>
              /\ pc'[d] = pc[d] /\ Current(d)' = Current(d)
              /\ attempts'[d] = attempts[d] /\ wire'[d] = wire[d]
              /\ outcome'[d] = outcome[d]
        /\ pc'[c] = "finish"
        /\ TerminalStatus(outcome'[c]) \in {"cancelled", "unknown"}
    BY <1>a, <1>19, InterruptCases, StartEffect, FinishAttemptEffect
    DEF Current, TypeOK, CancelledError, UnexpectedException, Outcome,
        TerminalStatus
  <2>2. request[c].side_effect \in {"non_idempotent_write", "unknown"} =>
           Current(c)' <= 1
    BY <1>a, <1>19, InterruptCases, StartEffect DEF SingleShotInv, Current
  <2>3. QED
    BY <1>a, <1>b, <2>1, <2>2 DEF SingleShotInv
<1>20. ASSUME NEW c \in Calls, Decide(c) PROVE SingleShotInv'
  BY <1>a, <1>b, BoundAssumption, <1>20
  DEF Decide, AppendAudit, TypeOK, SingleShotInv, Current
<1>21. ASSUME NEW c \in Calls, DecideTooLate(c) PROVE SingleShotInv'
  BY <1>a, <1>b, BoundAssumption, <1>21
  DEF DecideTooLate, TypeOK, SingleShotInv, Current
<1>22. ASSUME NEW c \in Calls, UpstreamHandles(c) PROVE SingleShotInv'
  BY <1>a, <1>b, BoundAssumption, <1>22
  DEF UpstreamHandles, TypeOK, SingleShotInv, Current
<1>23. CASE Tick \/ AllAnswered \/ UNCHANGED vars
  BY <1>a, <1>b, BoundAssumption, <1>23
  DEF Tick, AllAnswered, TypeOK, SingleShotInv, Current
<1>24. QED
  BY <1>1, <1>2, <1>3, <1>4, <1>5, <1>6, <1>7, <1>8, <1>9, <1>10, <1>11,
      <1>12, <1>13, <1>14, <1>15, <1>16, <1>17, <1>18, <1>19, <1>20, <1>21,
      <1>22, <1>23
  DEF Next, TaskStep, FaultStep
=============================================================================
