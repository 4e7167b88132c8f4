-------------------------- MODULE ToolCallTheorems --------------------------
(***************************************************************************)
(* The invariant is inductive, and with it the safety of the call path     *)
(* for any number of calls, requests and attempts, and under every fault.  *)
(***************************************************************************)
EXTENDS ToolCallProofs, ToolCallRefinement

\* What a step may never take back: terminal executions, terminal attempts,
\* and an effect at the upstream.
Final ==
    \A c \in Calls :
        /\ Terminal(c) => /\ executions'[c] = executions[c]
                          /\ attempts'[c] = attempts[c]
        /\ \A i \in AttemptNumbers :
              /\ attempts[c][i] \in TerminalStatuses =>
                    attempts'[c][i] = attempts[c][i]
              /\ wire[c][i] = "applied" => wire'[c][i] = "applied"

\* Terminal rows are never written again, and effects are never undone.
LEMMA FinalStep == IInv /\ [Next]_vars => Final
<1> SUFFICES ASSUME IInv, [Next]_vars PROVE Final
  OBVIOUS
<1>a. TypeOK /\ OwnerInv /\ ApprovalInv /\ AttemptInv
  BY DEF IInv
<1>b. request' = request
  BY Frame
<1>0. CASE UNCHANGED <<executions, attempts, approvals, audits, wire>>
  BY <1>a, <1>b, <1>0 DEF Final
<1>1. ASSUME NEW c \in Calls, RecordDenial(c) PROVE Final
  BY <1>1 DEF RecordDenial, Final
<1>2. ASSUME NEW c \in Calls, RequestApproval(c) PROVE Final
  BY <1>2 DEF RequestApproval, Final
<1>3. ASSUME NEW c \in Calls, ApprovalExpires(c) PROVE Final
  BY <1>3 DEF ApprovalExpires, Final
<1>4. ASSUME NEW c \in Calls, Plan(c) PROVE Final
  <2>1. /\ executions[c].status = "none"
        /\ \A d \in Calls : d # c => executions'[d] = executions[d]
        /\ UNCHANGED <<attempts, wire>>
    BY <1>a, <1>4, PlanEffect, PlanFinds DEF Plan
  <2>2. QED
    BY <2>1, NotTerminal DEF Final, Terminal
<1>5. ASSUME NEW c \in Calls, StartAttempt(c) PROVE Final
  <2>1. /\ Current(c) < MaxAttempts /\ StartAttemptTx(c)
        /\ executions[c].status = "running" /\ wire' = wire
    BY <1>a, <1>5 DEF StartAttempt, StartAttemptTx, AttemptInv
  <2>2. attempts[c][Current(c) + 1] = "none"
    BY <1>a, <2>1, StartEffect, CounterType DEF AttemptInv
  <2>3. QED
    BY <1>a, <2>1, <2>2, StartEffect, NotTerminal DEF Final, Terminal
<1>6. ASSUME NEW c \in Calls, Send(c) PROVE Final
  <2>1. wire[c][Current(c)] = "unsent"
    BY <1>a, <1>6, CounterType DEF Send, AttemptInv, Reached, AttemptNumbers
  <2>2. QED
    BY <1>a, <1>6, <2>1 DEF Send, Final, TypeOK, dbVars
<1>7. ASSUME NEW c \in Calls, AttemptRetried(c) PROVE Final
  <2>1. executions[c].status = "running"
    BY <1>a, <1>7 DEF AttemptRetried, OwnerInv, AfterPlan
  <2>2. QED
    BY <1>a, <1>7, <2>1, FinishAttemptEffect, NotTerminal
    DEF AttemptRetried, FinishAttemptTx, Final, Terminal
<1>8. ASSUME NEW c \in Calls, AttemptEnded(c) PROVE Final
  <2>1. executions[c].status = "running"
    BY <1>a, <1>8 DEF AttemptEnded, OwnerInv, AfterPlan
  <2>2. QED
    BY <1>a, <1>8, <2>1, FinishAttemptEffect, NotTerminal
    DEF AttemptEnded, FinishAttemptTx, Final, Terminal
<1>9. ASSUME NEW c \in Calls, Finish(c) PROVE Final
  BY <1>a, <1>9, FinishEffect, NotTerminal DEF Finish, Final, Terminal
<1>10. ASSUME NEW c \in Calls, InterruptRetryLoop(c) PROVE Final
  <2>1. wire' = wire
    BY <1>a, <1>10, InterruptCases
  <2>2. CASE pc[c] = "start" /\ Current(c) < MaxAttempts /\ StartAttemptTx(c)
    <3>1. executions[c].status = "running"
      BY <2>2 DEF StartAttemptTx
    <3>2. attempts[c][Current(c) + 1] = "none"
      BY <1>a, <2>2, StartEffect, CounterType DEF AttemptInv
    <3>3. QED
      BY <1>a, <2>1, <2>2, <3>1, <3>2, StartEffect, NotTerminal
      DEF Final, Terminal
  <2>3. CASE pc[c] = "close" /\ FinishAttemptTx(c) /\ UNCHANGED executions
    <3>1. executions[c].status = "running"
      BY <1>a, <2>3 DEF OwnerInv, AfterPlan
    <3>2. QED
      BY <1>a, <2>1, <2>3, <3>1, FinishAttemptEffect, NotTerminal
      DEF FinishAttemptTx, Final, Terminal
  <2>4. CASE UNCHANGED <<executions, attempts>>
    BY <2>1, <2>4 DEF Final
  <2>5. QED
    BY <1>a, <1>10, <2>2, <2>3, <2>4, InterruptCases
<1>11. ASSUME NEW c \in Calls, Decide(c) PROVE Final
  BY <1>11 DEF Decide, Final
<1>12. ASSUME NEW c \in Calls, DecideTooLate(c) PROVE Final
  BY <1>12 DEF DecideTooLate, Final
<1>13. ASSUME NEW c \in Calls, UpstreamHandles(c) PROVE Final
  BY <1>a, <1>13 DEF UpstreamHandles, Final, TypeOK, dbVars
<1>14. QED
  BY <1>0, <1>1, <1>2, <1>3, <1>4, <1>5, <1>6, <1>7, <1>8, <1>9, <1>10, <1>11,
      <1>12, <1>13, Frame

\* A status becomes succeeded, failed or unknown only when _finish says so.
LEMMA SettledByFinish ==
    ASSUME IInv, [Next]_vars, NEW d \in Calls,
           executions'[d].status \in TerminalStatuses, ~Terminal(d)
    PROVE  Finish(d)
<1>a. TypeOK /\ OwnerInv /\ AttemptInv
  BY DEF IInv
<1>1. CASE UNCHANGED executions
  BY <1>1 DEF Terminal
<1>2. ASSUME NEW c \in Calls, Plan(c) PROVE FALSE
  BY <1>a, <1>2, PlanEffect, NotTerminal DEF Terminal
<1>3. ASSUME NEW c \in Calls, StartAttempt(c) \/ InterruptRetryLoop(c) PROVE FALSE
  BY <1>a, <1>3, StartAttemptEffect, InterruptEffect DEF Terminal
<1>4. ASSUME NEW c \in Calls, Finish(c) PROVE Finish(d)
  BY <1>a, <1>4, FinishEffect DEF Terminal
<1>5. QED
  BY <1>1, <1>2, <1>3, <1>4, Frame
  DEF RecordDenial, RequestApproval, ApprovalExpires, Send, AttemptRetried,
      AttemptEnded, Decide, DecideTooLate, UpstreamHandles, dbVars

\* What the final transaction of a call finds.
LEMMA FinishFinds ==
    ASSUME IInv, NEW d \in Calls, Finish(d)
    PROVE  /\ executions[d].status = "running"
           /\ executions'[d].status = TerminalStatus(outcome[d])
           /\ Current(d)' = Current(d)
           /\ UNCHANGED <<request, attempts, wire>>
           /\ executions'[d].status = "succeeded" =>
                 /\ Current(d) > 0
                 /\ Current(d) \in AttemptNumbers
                 /\ attempts[d][Current(d)] = "succeeded"
                 /\ wire[d][Current(d)] = "applied"
           /\ executions'[d].status = "failed" =>
                 \A i \in AttemptNumbers : attempts[d][i] # "running"
<1>a. TypeOK /\ OutcomeInv /\ outcome[d] \in Outcomes
  BY DEF IInv, TypeOK
<1>1. /\ executions'[d].status = TerminalStatus(outcome[d])
      /\ Current(d)' = Current(d)
  BY <1>a, FinishEffect
<1>2. /\ TerminalStatus(outcome[d]) = "succeeded" <=> outcome[d].kind = "result"
      /\ TerminalStatus(outcome[d]) = "failed" => outcome[d].kind = "failure"
  BY <1>a, TerminalStatusType
<1>3. /\ pc[d] = "finish" /\ executions[d].status = "running"
      /\ UNCHANGED <<request, attempts, wire>>
  BY DEF Finish
<1>4. Current(d) > 0 => Current(d) \in AttemptNumbers
  BY <1>a, CounterType DEF AttemptNumbers
<1>5. QED
  BY <1>a, <1>1, <1>2, <1>3, <1>4 DEF OutcomeInv

\* Success is claimed on a last attempt that succeeded.
LEMMA SucceededStep == IInv /\ [Next]_vars => SucceededIsReal'
<1> SUFFICES ASSUME IInv, [Next]_vars, NEW d \in Calls,
                    executions'[d].status = "succeeded"
             PROVE  /\ Current(d)' > 0
                    /\ attempts'[d][Current(d)'] = "succeeded"
                    /\ wire'[d][Current(d)'] = "applied"
                    /\ \A i \in 1..(Current(d)' - 1) :
                          attempts'[d][i] \in {"failed", "unknown"}
  BY DEF SucceededIsReal
<1>a. /\ TypeOK /\ AttemptInv /\ SucceededIsReal
      /\ "succeeded" \in TerminalStatuses
      /\ "failed" \in TerminalStatuses /\ "unknown" \in TerminalStatuses
  BY DEF IInv, TerminalStatuses
<1>b. /\ Current(d) \in 0..MaxAttempts /\ MaxAttempts \in Nat
      /\ \A i \in 1..(Current(d) - 1) : i \in AttemptNumbers /\ i < Current(d)
      /\ Current(d) > 0 => Current(d) \in AttemptNumbers
  BY <1>a, CounterType, BoundAssumption DEF AttemptNumbers
<1>1. CASE Terminal(d)
  <2>1. executions'[d] = executions[d] /\ Current(d)' = Current(d)
    BY <1>1, FinalStep DEF Final, Current
  <2>2. /\ Current(d) > 0
        /\ attempts[d][Current(d)] = "succeeded"
        /\ wire[d][Current(d)] = "applied"
        /\ \A i \in 1..(Current(d) - 1) : attempts[d][i] \in {"failed", "unknown"}
    BY <1>a, <2>1 DEF SucceededIsReal
  <2>3. QED
    BY <1>a, <1>b, <2>1, <2>2, FinalStep DEF Final
<1>2. CASE ~Terminal(d)
  <2>1. Finish(d)
    BY <1>a, <1>2, SettledByFinish
  <2>2. QED
    BY <1>a, <1>b, <2>1, FinishFinds DEF AttemptInv
<1>3. QED
  BY <1>1, <1>2

\* An attempt is left open only under a status that does not claim to know.
LEMMA OpenStep == IInv /\ [Next]_vars => OpenAttemptIsLast'
<1> SUFFICES ASSUME IInv, [Next]_vars, NEW d \in Calls, NEW i \in AttemptNumbers
             PROVE  /\ attempts'[d][i] # "none" <=> i <= Current(d)'
                    /\ attempts'[d][i] = "running" =>
                          /\ i = Current(d)'
                          /\ executions'[d].status \in
                                {"running", "unknown", "cancelled"}
  BY DEF OpenAttemptIsLast
<1>a. TypeOK /\ OwnerInv /\ AttemptInv /\ OpenAttemptIsLast
  BY DEF IInv
<1>b. TypeOK' /\ AttemptInv'
  BY TypeStep, AttemptStep
<1>1. attempts'[d][i] # "none" <=> i <= Current(d)'
  BY <1>b DEF AttemptInv
<1>c. Current(d)' \in Nat /\ i \in Nat
  BY <1>a, <1>b, CounterType DEF TypeOK, ExecutionRows, Current
<1>2. attempts'[d][i] = "running" => i = Current(d)'
  BY <1>b, <1>c, <1>1 DEF AttemptInv
<1>3. ASSUME attempts'[d][i] = "running"
      PROVE  executions'[d].status \in {"running", "unknown", "cancelled"}
  <2>1. executions'[d].status \in ExecutionStatuses
    BY <1>b DEF TypeOK, ExecutionRows
  <2>2. executions'[d].status # "none"
    <3>1. SUFFICES ASSUME executions'[d].status = "none" PROVE FALSE
      OBVIOUS
    <3>2. Current(d)' = 0
      BY <3>1, OwnerStep DEF OwnerInv, NoExecution, Current
    <3>3. QED
      BY <1>1, <1>3, <3>2, <1>a, CounterType
  <2>3. CASE Terminal(d)
    <3>1. executions'[d] = executions[d] /\ attempts'[d] = attempts[d]
      BY <2>3, FinalStep DEF Final
    <3>2. QED
      BY <1>a, <1>3, <3>1 DEF OpenAttemptIsLast
  <2>4. CASE ~Terminal(d) /\ executions'[d].status \in TerminalStatuses
    <3>1. Finish(d)
      BY <2>4, SettledByFinish
    <3>2. attempts[d][i] = "running" /\ i = Current(d)
      BY <1>a, <1>3, <3>1, FinishFinds DEF OpenAttemptIsLast
    <3>3. QED
      BY <2>4, <3>1, <3>2, FinishFinds DEF TerminalStatuses
  <2>5. QED
    BY <2>1, <2>2, <2>3, <2>4, NotTerminal
<1>4. QED
  BY <1>1, <1>2, <1>3

\* An unknown write stays unknown in the execution.
LEMMA UnknownStep == IInv /\ [Next]_vars => UnknownIsKept'
<1> SUFFICES ASSUME IInv, [Next]_vars, NEW d \in Calls, NEW i \in AttemptNumbers,
                    request'[d].side_effect \in {"non_idempotent_write", "unknown"},
                    attempts'[d][i] = "unknown"
             PROVE  executions'[d].status \in {"running", "unknown", "cancelled"}
  BY DEF UnknownIsKept
<1>a. /\ TypeOK /\ OwnerInv /\ SingleShotInv /\ UnknownIsKept
      /\ TypeOK' /\ AttemptInv' /\ OwnerInv'
  BY TypeStep, AttemptStep, OwnerStep DEF IInv
<1>b. request' = request
  BY Frame
<1>1. executions'[d].status \in ExecutionStatuses
  BY <1>a DEF TypeOK, ExecutionRows
<1>2. executions'[d].status # "none"
  <2>1. SUFFICES ASSUME executions'[d].status = "none" PROVE FALSE
    OBVIOUS
  <2>2. Current(d)' = 0
    BY <1>a, <2>1 DEF OwnerInv, NoExecution, Current
  <2>3. QED
    BY <1>a, <2>2, CounterType DEF AttemptInv
<1>3. CASE Terminal(d)
  <2>1. executions'[d] = executions[d] /\ attempts'[d] = attempts[d]
    BY <1>3, FinalStep DEF Final
  <2>2. QED
    BY <1>a, <1>b, <2>1 DEF UnknownIsKept
<1>4. CASE ~Terminal(d) /\ executions'[d].status \in TerminalStatuses
  <2>1. Finish(d)
    BY <1>4, SettledByFinish
  <2>2. /\ attempts[d][i] = "unknown" /\ pc[d] = "finish"
        /\ executions'[d].status = TerminalStatus(outcome[d])
    BY <2>1, FinishFinds DEF Finish
  <2>3. QED
    BY <1>a, <1>b, <2>2 DEF SingleShotInv
<1>5. QED
  BY <1>1, <1>2, <1>3, <1>4, NotTerminal

\* Who may tell a client that its key was completed.
LEMMA ReplyWriters ==
    ASSUME TypeOK, [Next]_vars, NEW c \in Calls, reply'[c] # reply[c],
           reply'[c] = "idempotency_completed"
    PROVE  KeyReused(c)
<1> USE DEF TypeOK, vars, taskVars, dbVars
<1>1. ASSUME NEW e \in Calls,
          \/ RefuseCall(e) \/ RecordDenial(e) \/ RequestApproval(e)
          \/ PrepareFails(e) \/ ApprovalRefused(e) \/ ApprovalExpires(e)
          \/ PlanRace(e) \/ CancelOutside(e) \/ DatabaseFailsOutside(e)
      PROVE  FALSE
  BY <1>1, CommittedEffect
  DEF RefuseCall, RecordDenial, RequestApproval, PrepareFails,
      ApprovalRefused, ApprovalExpires, PlanRace, CancelOutside,
      DatabaseFailsOutside, Answer
<1>2. ASSUME NEW e \in Calls, Finish(e) PROVE FALSE
  <2>1. TerminalStatus(outcome[e]) \in TerminalStatuses
    BY TerminalStatusType
  <2>2. TerminalStatus(outcome[e]) # "idempotency_completed"
    BY <2>1 DEF TerminalStatuses
  <2>3. AnswerCommitted(e, TerminalStatus(outcome[e]))
    BY <1>2 DEF Finish
  <2>4. PICK a \in {TerminalStatus(outcome[e]), "cancelled", "error"} :
            reply' = [reply EXCEPT ![e] = a]
    BY <2>3, CommittedEffect
  <2>5. a # "idempotency_completed"
    BY <2>2, <2>4
  <2>6. QED
    BY <2>4, <2>5
<1>3. ASSUME NEW e \in Calls, KeyReused(e) PROVE KeyReused(c)
  BY <1>3 DEF KeyReused, Answer
<1>4. CASE UNCHANGED reply
  BY <1>4
<1>5. ASSUME NEW e \in Calls, Plan(e) PROVE FALSE
  <2>1. /\ \A d \in Calls : d # e => reply'[d] = reply[d]
        /\ reply'[e] = reply[e] \/ reply'[e] \in {"cancelled", "error"}
    BY <1>5, PlannedEffect DEF Plan
  <2>2. QED
    BY <2>1
<1>6. QED
  BY <1>1, <1>2, <1>3, <1>4, <1>5
  DEF Next, TaskStep, FaultStep, ReceiveCall, Prepare, LookupKey,
      ResolveSecret, SecretFails, StartAttempt, Send, NotSent, Answered,
      NotAnswered, ExecutorEnds, AttemptRetried, AttemptEnded, Resume,
      CancelExecutor, InterruptRetryLoop, Crash, Decide, DecideTooLate,
      UpstreamHandles, Tick, AllAnswered

\* A call that goes on has no answer yet, and one that ends has settled its
\* row or was interrupted.
LEMMA AnswerKeeps ==
    ASSUME ReplyInv, NEW c \in Calls, pc[c] # "done",
           \A d \in Calls : d # c =>
              /\ pc'[d] = pc[d] /\ reply'[d] = reply[d]
              /\ executions'[d].status = executions[d].status,
           \/ pc'[c] # "done" /\ reply'[c] = reply[c]
           \/ pc'[c] = "done" /\ executions'[c].status # "running"
           \/ pc'[c] = "done" /\ reply'[c] \in {"none", "cancelled", "error"}
    PROVE  ReplyInv'
BY DEF ReplyInv

\* Every step keeps that.
LEMMA ReplyStep == IInv /\ [Next]_vars => ReplyInv'
<1> SUFFICES ASSUME IInv, [Next]_vars PROVE ReplyInv'
  OBVIOUS
<1>a. TypeOK /\ OwnerInv /\ ReplyInv /\ AttemptInv
  BY DEF IInv
<1>1. ASSUME NEW c \in Calls,
             \/ ReceiveCall(c) \/ Prepare(c) \/ LookupKey(c)
             \/ ResolveSecret(c) \/ SecretFails(c) \/ Send(c)
             \/ AttemptRetried(c) \/ AttemptEnded(c) \/ Resume(c)
      PROVE  ReplyInv'
  <2>1. /\ pc[c] # "done" /\ UNCHANGED <<reply, executions>>
        /\ pc'[c] # "done" /\ \A d \in Calls : d # c => pc'[d] = pc[d]
    BY <1>a, <1>1
    DEF ReceiveCall, Prepare, LookupKey, ResolveSecret, SecretFails, Send,
        AttemptRetried, AttemptEnded, Resume, Goto, TypeOK, dbVars
  <2>2. QED
    BY <1>a, <2>1, AnswerKeeps
<1>2. ASSUME NEW c \in Calls,
             NotSent(c) \/ Answered(c) \/ NotAnswered(c) \/ CancelExecutor(c)
      PROVE  ReplyInv'
  <2>1. /\ pc[c] # "done" /\ pc' = [pc EXCEPT ![c] = "close"]
        /\ UNCHANGED <<reply, executions>>
    BY <1>a, <1>2, ExecutorEffect
  <2>2. QED
    BY <1>a, <2>1, AnswerKeeps DEF TypeOK
<1>3. ASSUME NEW c \in Calls, StartAttempt(c) \/ InterruptRetryLoop(c)
      PROVE  ReplyInv'
  <2>1. /\ pc[c] # "done" /\ pc'[c] # "done" /\ UNCHANGED reply
        /\ \A d \in Calls : d # c => pc'[d] = pc[d]
    BY <1>a, <1>3
    DEF StartAttempt, InterruptRetryLoop, Goto, TypeOK
  <2>2. \A d \in Calls : executions'[d].status = executions[d].status
    BY <1>a, <1>3, StartAttemptEffect, InterruptEffect
  <2>3. QED
    BY <1>a, <2>1, <2>2, AnswerKeeps
<1>4. ASSUME NEW c \in Calls,
             \/ RefuseCall(c) \/ RecordDenial(c) \/ RequestApproval(c)
             \/ PrepareFails(c) \/ KeyReused(c) \/ ApprovalRefused(c)
             \/ ApprovalExpires(c) \/ PlanRace(c)
      PROVE  ReplyInv'
  <2>1. /\ pc[c] \in BeforePlan /\ executions' = executions
        /\ \/ \E r : Answer(c, r)
           \/ \E r : AnswerCommitted(c, r)
    BY <1>4
    DEF RefuseCall, RecordDenial, RequestApproval, PrepareFails, KeyReused,
        ApprovalRefused, ApprovalExpires, PlanRace, BeforePlan, dbVars
  <2>2. /\ pc'[c] = "done"
        /\ \A d \in Calls : d # c => pc'[d] = pc[d] /\ reply'[d] = reply[d]
    BY <1>a, <2>1 DEF AnswerCommitted, Answer, TypeOK
  <2>3. executions'[c].status # "running" /\ pc[c] # "done"
    BY <1>a, <2>1 DEF OwnerInv, BeforePlan
  <2>4. QED
    BY <1>a, <2>1, <2>2, <2>3, AnswerKeeps
<1>5. ASSUME NEW c \in Calls,
             CancelOutside(c) \/ DatabaseFailsOutside(c) \/ Crash(c)
      PROVE  ReplyInv'
  <2>1. /\ pc[c] # "done" /\ pc'[c] = "done" /\ executions' = executions
        /\ \A d \in Calls : d # c => pc'[d] = pc[d] /\ reply'[d] = reply[d]
        /\ reply'[c] \in {reply[c], "cancelled", "error"}
    BY <1>a, <1>5
    DEF CancelOutside, DatabaseFailsOutside, Crash, Answer, Goto, TypeOK, dbVars
  <2>2. reply[c] = "none"
    BY <1>a, <2>1 DEF ReplyInv
  <2>3. QED
    BY <1>a, <2>1, <2>2, AnswerKeeps
<1>6. ASSUME NEW c \in Calls, Plan(c) PROVE ReplyInv'
  <2>1. /\ pc[c] # "done"
        /\ \A d \in Calls : d # c => executions'[d] = executions[d]
    BY <1>a, <1>6, PlanEffect DEF Plan
  <2>2. QED
    BY <1>a, <1>6, <2>1, PlannedEffect, AnswerKeeps DEF Plan
<1>7. ASSUME NEW c \in Calls, Finish(c) PROVE ReplyInv'
  <2>1. TerminalStatus(outcome[c]) \in TerminalStatuses
    BY <1>a, TerminalStatusType DEF TypeOK
  <2>2. /\ executions'[c].status # "running"
        /\ \A d \in Calls : d # c => executions'[d] = executions[d]
    BY <1>a, <1>7, <2>1, FinishEffect, NotTerminal
  <2>3. /\ pc[c] # "done" /\ pc'[c] = "done"
        /\ \A d \in Calls : d # c => pc'[d] = pc[d] /\ reply'[d] = reply[d]
    BY <1>a, <1>7 DEF Finish, AnswerCommitted, Answer, TypeOK
  <2>4. QED
    BY <1>a, <2>2, <2>3, AnswerKeeps
<1>8. CASE \/ Tick \/ AllAnswered \/ UNCHANGED vars
           \/ \E c \in Calls : Decide(c) \/ DecideTooLate(c) \/ UpstreamHandles(c)
  BY <1>a, <1>8
  DEF Tick, AllAnswered, Decide, DecideTooLate, UpstreamHandles, vars,
      taskVars, dbVars, ReplyInv
<1>9. QED
  BY <1>1, <1>2, <1>3, <1>4, <1>5, <1>6, <1>7, <1>8
  DEF Next, TaskStep, FaultStep

\* Only the lookup of a finished execution says "completed".
LEMMA CompletedStep == IInv /\ [Next]_vars => CompletedIsTrue'
<1> SUFFICES ASSUME IInv, [Next]_vars, NEW c \in Calls,
                    reply'[c] = "idempotency_completed"
             PROVE  \E d \in Calls :
                       /\ SameScope(c, d)'
                       /\ request'[d].digest = request'[c].digest
                       /\ executions'[d].status = "succeeded"
                       /\ \E i \in AttemptNumbers : wire'[d][i] = "applied"
  BY DEF CompletedIsTrue
<1> DEFINE Shown(d) == /\ SameScope(c, d)
                       /\ request[d].digest = request[c].digest
                       /\ executions[d].status = "succeeded"
                       /\ \E i \in AttemptNumbers : wire[d][i] = "applied"
<1>a. TypeOK /\ SucceededIsReal /\ CompletedIsTrue
  BY DEF IInv
<1>b. request' = request
  BY Frame
<1>1. \E d \in Calls : Shown(d)
  <2>1. CASE reply[c] = "idempotency_completed"
    BY <1>a, <2>1 DEF CompletedIsTrue
  <2>2. CASE reply[c] # "idempotency_completed"
    <3>1. KeyReused(c)
      BY <1>a, <2>2, ReplyWriters
    <3>2. PICK d \in InScope(c) : reply' = [reply EXCEPT ![c] = ReuseReply(c, d)]
      BY <3>1 DEF KeyReused, Answer
    <3>3. /\ d \in Calls /\ SameScope(c, d)
          /\ ReuseReply(c, d) = "idempotency_completed"
      BY <1>a, <3>2 DEF InScope, TypeOK
    <3>4. /\ executions[d].status = "succeeded"
          /\ request[d].digest = request[c].digest
      BY <3>3 DEF ReuseReply
    <3>5. /\ wire[d][Current(d)] = "applied"
          /\ Current(d) \in AttemptNumbers
      BY <1>a, <3>3, <3>4, CounterType DEF SucceededIsReal, AttemptNumbers
    <3>6. QED
      BY <3>3, <3>4, <3>5
  <2>3. QED
    BY <2>1, <2>2
<1>2. PICK d \in Calls : Shown(d)
  BY <1>1
<1>3. Terminal(d)
  BY <1>2 DEF Terminal, TerminalStatuses
<1>4. /\ executions'[d] = executions[d]
      /\ \E i \in AttemptNumbers : wire'[d][i] = "applied"
  BY <1>2, <1>3, FinalStep DEF Final
<1>5. QED
  BY <1>b, <1>2, <1>4 DEF SameScope, HasKey

(***************************************************************************)
(* The invariant is inductive.                                             *)
(***************************************************************************)
\* IInv holds before the first call ...
LEMMA IInvInit == Init => IInv
<1> SUFFICES ASSUME Init PROVE IInv
  OBVIOUS
<1>1. TypeOK
  BY TypeInit
<1> USE <1>1, CounterType DEF Init
<1>2. OwnerInv
  BY LabelType DEF OwnerInv, BeforePlan, AfterPlan, NoExecution, Current
<1>3. ApprovalInv
  BY DEF ApprovalInv, NoApproval
<1>4. DecisionInv
  BY LabelType DEF DecisionInv, NoApproval
<1>5. PlanInv
  BY DEF PlanInv, Planned, NoExecution
<1>6. AttemptInv
  BY BoundAssumption DEF AttemptInv, Reached, Current, NoExecution
<1>7. OutcomeInv /\ SingleShotInv
  BY DEF OutcomeInv, SingleShotInv, Current, NoExecution
<1>8. ApprovalSpentOnce
  BY NoneAssumption DEF ApprovalSpentOnce, NoExecution, NoApproval
<1>9. RanAsApproved
  BY DEF RanAsApproved, Planned, NoExecution
<1>10. AuditMatchesState
  BY LabelType, NotTerminal
  DEF AuditMatchesState, Planned, NoExecution, NoApproval
<1>11. SucceededIsReal
  BY DEF SucceededIsReal, NoExecution
<1>12. OpenAttemptIsLast
  BY DEF OpenAttemptIsLast, Current, NoExecution
<1>13. UnknownIsKept
  BY DEF UnknownIsKept
<1>14. CompletedIsTrue
  BY DEF CompletedIsTrue
<1>15. ReplyInv
  BY DEF ReplyInv
<1>16. QED
  BY <1>1, <1>2, <1>3, <1>4, <1>5, <1>6, <1>7, <1>8, <1>9, <1>10, <1>11,
     <1>12, <1>13, <1>14, <1>15 DEF IInv

\* ... and every step of every actor keeps it ...
LEMMA IInvStep == IInv /\ [Next]_vars => IInv'
BY TypeStep, OwnerStep, ApprovalStep, DecisionStep, PlanStep, AttemptStep,
   OutcomeStep, SingleShotStep, SpentOnceStep, RanAsApprovedStep, AuditStep,
   SucceededStep, OpenStep, UnknownStep, CompletedStep, ReplyStep
DEF IInv

\* ... so it holds in every reachable state of the gateway.
THEOREM Invariance == Spec => []IInv
BY IInvInit, IInvStep, PTL DEF Spec

(***************************************************************************)
(* The safety of the call path.                                            *)
(***************************************************************************)
\* A request on the wire belongs to a planned execution and to an attempt row.
LEMMA ReachedIsPlanned ==
    ASSUME IInv, NEW c \in Calls, NEW i \in AttemptNumbers, Reached(c, i)
    PROVE  Planned(c) /\ i <= Current(c) /\ attempts[c][i] # "none"
<1>a. TypeOK /\ OwnerInv /\ AttemptInv
  BY DEF IInv
<1>1. i <= Current(c) /\ attempts[c][i] # "none"
  BY <1>a DEF AttemptInv
<1>2. Current(c) # 0
  BY <1>a, <1>1, CounterType
<1>3. Planned(c)
  BY <1>a, <1>2 DEF OwnerInv, NoExecution, Current, Planned
<1>4. QED
  BY <1>1, <1>3

\* Every variable has its type in every reachable state; in particular the
\* retry loop of ExecuteWithRetry never counts past max_attempts.
THEOREM TypeCorrect == Spec => []TypeOK
<1>1. IInv => TypeOK
  BY DEF IInv
<1>2. QED
  BY <1>1, Invariance, PTL

\* However many calls race for an approval, at most one execution is planned
\* on it, and the row is consumed exactly when that execution exists.
THEOREM SpentOnce == Spec => []ApprovalSpentOnce
<1>1. IInv => ApprovalSpentOnce
  BY DEF IInv
<1>2. QED
  BY <1>1, Invariance, PTL

\* Under a policy that asks for approval only the very call a human approved
\* is planned.
THEOREM ApprovedOnly == Spec => []RanAsApproved
<1>1. IInv => RanAsApproved
  BY DEF IInv
<1>2. QED
  BY <1>1, Invariance, PTL

\* Calls that share an idempotency scope never both reach the upstream.
THEOREM KeyOnce == Spec => []OneIntentPerKey
<1>1. IInv => OneIntentPerKey
  <2> SUFFICES ASSUME IInv, NEW c \in Calls, NEW d \in Calls, c # d,
                      SameScope(c, d),
                      NEW i \in AttemptNumbers, Reached(c, i)
               PROVE  ~Planned(d) /\ \A j \in AttemptNumbers : ~Reached(d, j)
    BY DEF OneIntentPerKey
  <2>1. Planned(c)
    BY ReachedIsPlanned
  <2>2. ~Planned(d)
    BY <2>1 DEF IInv, PlanInv
  <2>3. QED
    BY <2>2, ReachedIsPlanned
<1>2. QED
  BY <1>1, Invariance, PTL

\* Nothing leaves the gateway before the execution, its ALLOWED event and the
\* attempt are committed, and nothing denied ever leaves it.
THEOREM OnRecord == Spec => []SentOnlyOnRecord
<1>1. IInv => SentOnlyOnRecord
  <2> SUFFICES ASSUME IInv, NEW c \in Calls, NEW i \in AttemptNumbers,
                      Reached(c, i)
               PROVE  /\ Planned(c)
                      /\ audits[c]["allowed"] = 1
                      /\ request[c].effect # "deny"
                      /\ i <= Current(c)
                      /\ attempts[c][i] # "none"
    BY DEF SentOnlyOnRecord
  <2>1. Planned(c) /\ i <= Current(c) /\ attempts[c][i] # "none"
    BY ReachedIsPlanned
  <2>2. QED
    BY <2>1 DEF IInv, AuditMatchesState, PlanInv
<1>2. QED
  BY <1>1, Invariance, PTL

\* A write that may not be repeated is sent at most once.
THEOREM NeverResent == Spec => []NoBlindResend
<1>1. IInv => NoBlindResend
  <2> SUFFICES ASSUME IInv, NEW c \in Calls,
                      request[c].side_effect
                          \in {"non_idempotent_write", "unknown"},
                      NEW i \in AttemptNumbers, NEW j \in AttemptNumbers,
                      Reached(c, i), Reached(c, j)
               PROVE  i = j
    BY DEF NoBlindResend
  <2>1. i <= Current(c) /\ j <= Current(c) /\ Current(c) <= 1
    BY ReachedIsPlanned DEF IInv, SingleShotInv
  <2>2. QED
    BY <2>1, CounterType DEF IInv
<1>2. QED
  BY <1>1, Invariance, PTL

\* A write of unknown outcome is never reported as failed or succeeded when it
\* may not be repeated.
THEOREM UnknownKept == Spec => []UnknownIsKept
<1>1. IInv => UnknownIsKept
  BY DEF IInv
<1>2. QED
  BY <1>1, Invariance, PTL

\* The audit trail and the rows never disagree.
THEOREM AuditTrail == Spec => []AuditMatchesState
<1>1. IInv => AuditMatchesState
  BY DEF IInv
<1>2. QED
  BY <1>1, Invariance, PTL

\* A succeeded execution rests on a last attempt that succeeded upstream.
THEOREM SuccessIsReal == Spec => []SucceededIsReal
<1>1. IInv => SucceededIsReal
  BY DEF IInv
<1>2. QED
  BY <1>1, Invariance, PTL

\* Attempts are numbered without gaps, and only the last can be left open.
THEOREM OpenIsLast == Spec => []OpenAttemptIsLast
<1>1. IInv => OpenAttemptIsLast
  BY DEF IInv
<1>2. QED
  BY <1>1, Invariance, PTL

\* The rows of executions and attempts tell the truth about what was sent.
THEOREM RowsAreTrue == Spec => []AttemptsTellTruth
<1>1. IInv => RunningIsInterrupted
  BY DEF IInv, ReplyInv, RunningIsInterrupted
<1>2. RunningIsInterrupted /\ SentOnlyOnRecord /\ UnknownIsKept
      /\ SucceededIsReal /\ OpenAttemptIsLast => AttemptsTellTruth
  BY DEF AttemptsTellTruth
<1>3. QED
  BY <1>1, <1>2, Invariance, OnRecord, UnknownKept, SuccessIsReal,
     OpenIsLast, PTL

\* A client told that its key was completed can rely on it.
THEOREM CompletedReply == Spec => []CompletedIsTrue
<1>1. IInv => CompletedIsTrue
  BY DEF IInv
<1>2. QED
  BY <1>1, Invariance, PTL

\* Terminal executions and attempts never change again.
THEOREM FinalStaysFinal == Spec => TerminalIsFinal
<1>1. IInv /\ [Next]_vars =>
         [\A c \in Calls :
             /\ Terminal(c) => executions'[c] = executions[c]
             /\ \A i \in AttemptNumbers :
                   attempts[c][i] \in TerminalStatuses =>
                       attempts'[c][i] = attempts[c][i]]_vars
  BY FinalStep DEF Final
<1>2. QED
  BY <1>1, Invariance, PTL DEF Spec, TerminalIsFinal

(***************************************************************************)
(* The call path implements Governance.                                    *)
(***************************************************************************)
\* A status written to one approval row moves one token.
LEMMA TokenMove ==
    ASSUME NEW a \in Calls, NEW s,
           \A d \in Calls :
              approvals'[d].status = IF d = a THEN s ELSE approvals[d].status
    PROVE  [d \in Calls |-> TokenOf(approvals'[d].status)] =
           [[d \in Calls |-> TokenOf(approvals[d].status)]
               EXCEPT ![a] = TokenOf(s)]
OBVIOUS

\* A status written to one execution row moves one intent.
LEMMA IntentMove ==
    ASSUME NEW c \in Calls, NEW s,
           \A d \in Calls :
              executions'[d].status = IF d = c THEN s ELSE executions[d].status
    PROVE  [d \in Calls |-> IntentOf(executions'[d].status)] =
           [[d \in Calls |-> IntentOf(executions[d].status)]
               EXCEPT ![c] = IntentOf(s)]
OBVIOUS

\* The statuses the two kinds of row can have, as tokens and as intents.
LEMMA Mapping ==
    /\ TokenOf("none") = "unasked"
    /\ TokenOf("pending") = "asked"
    /\ TokenOf("approved") = "granted"
    /\ TokenOf("consumed") = "spent"
    /\ TokenOf("rejected") = "closed"
    /\ TokenOf("expired") = "closed"
    /\ IntentOf("none") = "new"
    /\ IntentOf("running") = "open"
    /\ \A s \in TerminalStatuses : IntentOf(s) = s
BY NotTerminal DEF TokenOf, IntentOf

\* Equal columns are equal terms.
LEMMA MatchingIsBinding ==
    ASSUME NEW a \in Calls, NEW c \in Calls, MatchingCall(a, c)
    PROVE  Binding(request[a]) = Binding(request[c])
BY DEF MatchingCall, Binding

\* Steps that leave the statuses and the consumed approvals alone are
\* invisible to Governance.
LEMMA Unseen ==
    ASSUME request' = request,
           \A d \in Calls : /\ approvals'[d].status = approvals[d].status
                            /\ executions'[d].status = executions[d].status
                            /\ executions'[d].approval = executions[d].approval
    PROVE  UNCHANGED G!gvars
BY DEF G!gvars

\* Every step is a step of Governance, or is invisible to it.
LEMMA GovernanceStep == IInv /\ [Next]_vars => [G!GNext]_(G!gvars)
<1> SUFFICES ASSUME IInv, [Next]_vars PROVE G!GNext \/ UNCHANGED G!gvars
  OBVIOUS
<1>a. TypeOK /\ OwnerInv /\ ApprovalInv /\ AttemptInv
  BY DEF IInv
<1>b. request' = request
  BY Frame
<1>0. CASE UNCHANGED <<executions, attempts, approvals, audits, wire>>
  BY <1>b, <1>0, Unseen
<1>1. ASSUME NEW c \in Calls, RequestApproval(c) PROVE G!GNext
  <2>1. approvals[c].status = "none" /\ executions' = executions
    BY <1>a, <1>1, RequestEffect, RequestFinds
  <2>2. G!Ask(c)
    BY <1>a, <1>1, <1>b, <2>1, RequestEffect, TokenMove, Mapping
    DEF G!Ask, G!Move
  <2>3. QED
    BY <2>2 DEF G!GNext
<1>2. ASSUME NEW c \in Calls, ApprovalExpires(c) PROVE G!GNext
  <2>1. PICK a \in Calls : a = PlanApproval(c)
    BY <1>a, <1>2, PlanApprovalType DEF ApprovalExpires
  <2>2. /\ approvals[a].status = "approved" /\ executions' = executions
        /\ \A d \in Calls :
              approvals'[d].status = IF d = a THEN "expired"
                                              ELSE approvals[d].status
    BY <1>a, <1>2, <2>1 DEF ApprovalExpires, TypeOK, ApprovalRows
  <2>3. G!Close(a)
    BY <1>b, <2>2, TokenMove, Mapping DEF G!Close, G!Move
  <2>4. QED
    BY <2>3 DEF G!GNext
<1>3. ASSUME NEW c \in Calls, Plan(c) PROVE G!GNext
  <2>1. /\ executions[c].status = "none"
        /\ executions[c].approval = None
    BY <1>a, <1>3, PlanFinds DEF OwnerInv, NoExecution
  <2>2. \A d \in Calls :
           executions'[d].status = IF d = c THEN "running"
                                            ELSE executions[d].status
    BY <1>a, <1>3, PlanEffect
  <2>3. CASE PlanApproval(c) = None
    <3>1. request[c].effect = "allow"
      BY <1>a, <1>3, <2>3, RequestType DEF Plan, PlanApproval, ApprovalInv, PolicyEffects
    <3>2. \A d \in Calls : /\ approvals'[d].status = approvals[d].status
                           /\ executions'[d].approval = executions[d].approval
      BY <1>a, <1>3, <2>1, <2>3, PlanEffect, NoneAssumption
    <3>3. G!AdmitFreely(c)
      BY <1>b, <2>1, <2>2, <3>1, <3>2, IntentMove, Mapping DEF G!AdmitFreely
    <3>4. QED
      BY <3>3 DEF G!GNext
  <2>4. CASE PlanApproval(c) # None
    <3>1. PICK a \in Calls : a = PlanApproval(c)
      BY <1>a, <1>3, <2>4, PlanEffect
    <3>2. /\ approvals[a].status = "approved"
          /\ Binding(request[a]) = Binding(request[c])
          /\ \A d \in Calls :
                approvals'[d].status = IF d = a THEN "consumed"
                                                ELSE approvals[d].status
      BY <1>a, <1>3, <2>4, <3>1, PlanEffect, MatchingIsBinding
    <3>3. [d \in Calls |-> executions'[d].approval] =
             [[d \in Calls |-> executions[d].approval] EXCEPT ![c] = a]
      <4>1. \A d \in Calls :
               executions'[d].approval = IF d = c THEN a
                                                  ELSE executions[d].approval
        BY <1>a, <1>3, <3>1, PlanEffect
      <4>2. QED
        BY <4>1
    <3>4. [d \in Calls |-> TokenOf(approvals'[d].status)] =
             [[d \in Calls |-> TokenOf(approvals[d].status)]
                 EXCEPT ![a] = "spent"]
      BY <3>2, TokenMove, Mapping
    <3>5. [d \in Calls |-> IntentOf(executions'[d].status)] =
             [[d \in Calls |-> IntentOf(executions[d].status)]
                 EXCEPT ![c] = "open"]
      BY <2>2, IntentMove, Mapping
    <3>6. G!AdmitOn(c, a)
      BY <1>b, <2>1, <3>2, <3>3, <3>4, <3>5, Mapping DEF G!AdmitOn
    <3>7. QED
      BY <3>6 DEF G!GNext
  <2>5. QED
    BY <2>3, <2>4
<1>4. ASSUME NEW c \in Calls, StartAttempt(c) \/ InterruptRetryLoop(c)
      PROVE  UNCHANGED G!gvars
  BY <1>a, <1>b, <1>4, StartAttemptEffect, InterruptEffect, Unseen
<1>5. ASSUME NEW c \in Calls, Finish(c) PROVE G!GNext
  <2>1. /\ TerminalStatus(outcome[c]) \in TerminalStatuses
        /\ executions[c].status = "running" /\ approvals' = approvals
    BY <1>a, <1>5, TerminalStatusType DEF TypeOK, Finish
  <2>2. G!Settle(c)
    <3>1. [d \in Calls |-> IntentOf(executions'[d].status)] =
             [[d \in Calls |-> IntentOf(executions[d].status)]
                 EXCEPT ![c] = TerminalStatus(outcome[c])]
      BY <1>a, <1>5, <2>1, FinishEffect, IntentMove, Mapping
    <3>2. \A d \in Calls : executions'[d].approval = executions[d].approval
      BY <1>a, <1>5, FinishEffect
    <3>3. QED
      BY <1>b, <2>1, <3>1, <3>2, Mapping DEF G!Settle
  <2>3. QED
    BY <2>2 DEF G!GNext
<1>6. ASSUME NEW c \in Calls, Decide(c) PROVE G!GNext
  <2>1. PICK s \in {"approved", "rejected"} :
           approvals' = [approvals EXCEPT ![c].status = s]
    BY <1>6 DEF Decide
  <2>2. /\ approvals[c].status = "pending" /\ executions' = executions
        /\ \A d \in Calls :
              approvals'[d].status = IF d = c THEN s ELSE approvals[d].status
    BY <1>a, <1>6, <2>1 DEF Decide, TypeOK, ApprovalRows
  <2>3. CASE s = "approved"
    <3>1. G!Grant(c)
      BY <1>b, <2>2, <2>3, TokenMove, Mapping DEF G!Grant, G!Move
    <3>2. QED
      BY <3>1 DEF G!GNext
  <2>4. CASE s = "rejected"
    <3>1. G!Close(c)
      BY <1>b, <2>2, <2>4, TokenMove, Mapping DEF G!Close, G!Move
    <3>2. QED
      BY <3>1 DEF G!GNext
  <2>5. QED
    BY <2>3, <2>4
<1>7. ASSUME NEW c \in Calls, DecideTooLate(c) PROVE G!GNext
  <2>1. /\ approvals[c].status = "pending" /\ executions' = executions
        /\ \A d \in Calls :
              approvals'[d].status = IF d = c THEN "expired"
                                              ELSE approvals[d].status
    BY <1>a, <1>7 DEF DecideTooLate, TypeOK, ApprovalRows
  <2>2. G!Close(c)
    BY <1>b, <2>1, TokenMove, Mapping DEF G!Close, G!Move
  <2>3. QED
    BY <2>2 DEF G!GNext
<1>8. ASSUME NEW c \in Calls,
             \/ RecordDenial(c) \/ Send(c) \/ AttemptRetried(c)
             \/ AttemptEnded(c) \/ UpstreamHandles(c)
      PROVE  UNCHANGED G!gvars
  BY <1>b, <1>8, Unseen
  DEF RecordDenial, Send, AttemptRetried, AttemptEnded, UpstreamHandles, dbVars
<1>9. QED
  BY <1>0, <1>1, <1>2, <1>3, <1>4, <1>5, <1>6, <1>7, <1>8, Frame

\* Before the first call no token is asked for and no intent is admitted.
LEMMA GovernanceInit == Init => G!GInit
BY Mapping
DEF Init, G!GInit, NoExecution, NoApproval

\* The call path implements Governance: an approval row is a token that is
\* asked for, decided, and spent in one step with the admission of the very
\* call it was granted for, and an execution row is an intent that is admitted
\* once and settled once, whatever tasks, retries and faults do in between.
THEOREM GovernanceImplemented == Spec => ImplementsGovernance
BY GovernanceInit, GovernanceStep, Invariance, PTL
DEF Spec, ImplementsGovernance, G!GSpec
=============================================================================
