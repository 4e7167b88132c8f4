------------------------ MODULE CatalogPublishProofs ------------------------
(***************************************************************************)
(* The safety of CatalogPublish for every set of sessions, operations,     *)
(* tools and upstreams.                                                    *)
(***************************************************************************)
EXTENDS CatalogPublish, FiniteSetTheorems, TLAPS

\* The columns of a command.
LEMMA CommandType ==
    ASSUME NEW c \in Commands
    PROVE  /\ c.kind \in Kinds /\ c.op \in Ops /\ c.tool \in Tools
           /\ c.kind # "publish" => c.tool = ToolOf[c.op] /\ c.digests_match
           /\ ToolOf[c.op] \in Tools /\ UpstreamOf[c.op] \in Upstreams
BY CommandAssumption, MappingAssumption

\* The columns of the command that a session is at.
LEMMA BusyType ==
    ASSUME TypeOK, CommandInv, NEW t \in Txns, pc[t] # "idle"
    PROVE  /\ cmd[t] \in Commands
           /\ cmd[t].kind \in Kinds /\ cmd[t].op \in Ops
           /\ cmd[t].tool \in Tools
           /\ cmd[t].kind # "publish" => cmd[t].tool = ToolOf[cmd[t].op]
           /\ ToolOf[cmd[t].op] \in Tools
           /\ UpstreamOf[cmd[t].op] \in Upstreams
BY CommandType DEF CommandInv

\* The row a FOR UPDATE asks for is a row.
LEMMA WantedType ==
    ASSUME TypeOK, CommandInv, NEW t \in Txns, pc[t] \in LockLabels
    PROVE  Wanted(t) \in Rows
<1>1. /\ cmd[t].op \in Ops /\ cmd[t].tool \in Tools
      /\ UpstreamOf[cmd[t].op] \in Upstreams
  BY BusyType DEF LockLabels
<1>2. pc[t] \in {"current_version", "current_binding"} => current[t] \in Ops
  BY DEF TypeOK, CommandInv
<1>3. CASE pc[t] = "operation"
  BY <1>1, <1>3 DEF Wanted, Rows
<1>4. CASE pc[t] \in {"review_upstream", "upstream"}
  BY <1>1, <1>4 DEF Wanted, Rows
<1>5. CASE pc[t] \in {"review_tool", "add_tool", "direct_tool", "tool"}
  BY <1>1, <1>5 DEF Wanted, Rows
<1>6. CASE pc[t] \in {"direct_version", "version"}
  BY <1>1, <1>6 DEF Wanted, Rows
<1>7. CASE pc[t] \in {"direct_binding", "binding"}
  BY <1>1, <1>7 DEF Wanted, Rows
<1>8. CASE pc[t] = "current_version"
  BY <1>2, <1>8 DEF Wanted, Rows
<1>9. CASE pc[t] = "current_binding"
  BY <1>2, <1>9 DEF Wanted, Rows
<1>10. QED
  BY <1>3, <1>4, <1>5, <1>6, <1>7, <1>8, <1>9 DEF LockLabels, Labels

\* What each statement asks for, by label.
LEMMA WantedIs ==
    ASSUME NEW t \in Txns
    PROVE  /\ pc[t] = "operation" => Wanted(t) = <<"operation", cmd[t].op>>
           /\ pc[t] \in {"review_upstream", "upstream"} =>
                 Wanted(t) = <<"upstream", UpstreamOf[cmd[t].op]>>
           /\ pc[t] \in {"review_tool", "add_tool", "direct_tool", "tool"} =>
                 Wanted(t) = <<"tool", cmd[t].tool>>
           /\ pc[t] \in {"direct_version", "version"} =>
                 Wanted(t) = <<"version", cmd[t].op>>
           /\ pc[t] \in {"direct_binding", "binding"} =>
                 Wanted(t) = <<"binding", cmd[t].op>>
           /\ pc[t] = "current_version" =>
                 Wanted(t) = <<"version", current[t]>>
           /\ pc[t] = "current_binding" =>
                 Wanted(t) = <<"binding", current[t]>>
BY DEF Wanted

(***************************************************************************)
(* The kinds of step.                                                      *)
(***************************************************************************)
\* A statement that only takes a lock, with what the code has checked.
LockStep(t) ==
    /\ \/ /\ pc[t] = "review_tool" /\ NoRow(t)
          /\ Goto(t, "add_tool") /\ UNCHANGED lock
       \/ /\ ~NoRow(t)
          /\ \/ /\ LockRow(t, "review_upstream")
                /\ pc[t] = "operation" /\ cmd[t].op \notin accepted
             \/ /\ LockRow(t, "direct_version")
                /\ pc[t] = "operation" /\ cmd[t].kind = "direct"
             \/ /\ LockRow(t, "review_tool")
                /\ pc[t] = "review_upstream"
                /\ upstreams[UpstreamOf[cmd[t].op]] = "active"
             \/ LockRow(t, "number") /\ pc[t] \in {"review_tool", "add_tool"}
             \/ LockRow(t, "direct_binding") /\ pc[t] = "direct_version"
             \/ LockRow(t, "direct_tool") /\ pc[t] = "direct_binding"
             \/ LockRow(t, "upstream") /\ pc[t] \in {"direct_tool", "binding"}
             \/ LockRow(t, "version") /\ pc[t] = "tool"
             \/ LockRow(t, "binding") /\ pc[t] = "version"
             \/ LockRow(t, "current") /\ pc[t] = "upstream" /\ ValidSnapshot(t)
             \/ LockRow(t, "current_binding") /\ pc[t] = "current_version"
             \/ LockRow(t, "commit") /\ pc[t] = "current_binding"
    /\ UNCHANGED <<dbVars, cmd, number, fresh, current>>

\* Every step is a lock, a rollback, a read, a commit, or another session's
\* single statement.
LEMMA StepKinds ==
    ASSUME [Next]_vars
    PROVE  \/ \E t \in Txns :
                 \/ Begin(t) \/ LockStep(t) \/ Rollback(t)
                 \/ NextVersionNumber(t) \/ ReadCurrent(t)
                 \/ Accept(t) \/ Publish(t)
           \/ \E o \in Ops : SubmitForReview(o)
           \/ \E u \in Upstreams : DisableUpstream(u)
           \/ UNCHANGED vars
<1>1. ASSUME NEW t \in Txns,
             \/ LockOperation(t) \/ LockDirectTool(t)
      PROVE  LockStep(t) \/ Rollback(t)
  BY <1>1 DEF LockOperation, LockDirectTool, LockStep, Rollback, NoRow
<1>2. ASSUME NEW t \in Txns,
             \/ LockReviewUpstream(t) \/ LockReviewTool(t) \/ AddTool(t)
             \/ LockDirectVersion(t) \/ LockDirectBinding(t)
             \/ LockTool(t) \/ LockVersion(t) \/ LockBinding(t)
             \/ LockUpstream(t) \/ LockCurrentVersion(t)
             \/ LockCurrentBinding(t)
      PROVE  LockStep(t)
  BY <1>2
  DEF LockStep, LockReviewUpstream, LockReviewTool, AddTool,
      LockDirectVersion, LockDirectBinding, LockTool, LockVersion,
      LockBinding, LockUpstream, LockCurrentVersion, LockCurrentBinding, NoRow
<1>3. ASSUME NEW t \in Txns,
             Refused(t) \/ Conflicts(t) \/ DeadlockVictim(t) \/ Fails(t)
      PROVE  Rollback(t)
  BY <1>3 DEF Refused, Conflicts, DeadlockVictim, Fails
<1>4. QED
  BY <1>1, <1>2, <1>3 DEF Next, TxStep

\* A next version number is a positive number, and greater than all in use.
LEMMA NextNumberType ==
    ASSUME TypeOK, NEW n \in Tools, NEW k \in NextNumbers(n)
    PROVE  /\ k \in Nat /\ k > 0
           /\ \A o \in VersionsOf(n) : versions[o].number < k
<1>1. Cardinality(Ops) \in Nat
  BY OpsAssumption, FS_CardinalityType
<1>2. QED
  BY <1>1 DEF NextNumbers

(***************************************************************************)
(* The invariant is inductive.                                             *)
(***************************************************************************)
\* Type correctness.
LEMMA TypeInit == Init => TypeOK
BY AbsentAssumption
DEF Init, TypeOK, NoVersion, BindingStatuses, Labels

\* Rows stay rows.
LEMMA VersionUpdate ==
    /\ \A k \in Nat \ {0}, s \in VersionStatuses \ {"none"} :
          [status |-> s, number |-> k] \in ToolVersions
    /\ \A v \in ToolVersions, s \in VersionStatuses \ {"none"} :
          [v EXCEPT !.status = s] \in ToolVersions
    /\ \A v \in ToolVersions \union {NoVersion} :
          /\ v.status \in VersionStatuses /\ v.number \in Nat
          /\ v.status # "none" <=> v \in ToolVersions
          /\ v.status # "none" => v.number > 0
BY DEF ToolVersions, NoVersion, VersionStatuses

\* The end of a transaction.
LEMMA EndType ==
    ASSUME TypeOK, NEW t \in Txns, End(t)
    PROVE  /\ lock' \in [Rows -> Txns \union {None}]
           /\ pc' \in [Txns -> Labels]
           /\ cmd' \in [Txns -> Commands \union {None}]
           /\ number' \in [Txns -> Nat]
           /\ fresh' \in [Txns -> BOOLEAN]
           /\ current' \in [Txns -> Ops \union {None}]
BY DEF TypeOK, End, Forget, Labels

\* Every step keeps the variables in their types.
LEMMA TypeStep == IInv /\ [Next]_vars => TypeOK'
<1> SUFFICES ASSUME IInv, [Next]_vars PROVE TypeOK'
  OBVIOUS
<1>a. /\ TypeOK /\ CommandInv /\ NumberInv /\ TargetInv
      /\ CurrentInv /\ OperationInv /\ PublicationConsistent
  BY DEF IInv
<1>1. ASSUME NEW t \in Txns, Begin(t) PROVE TypeOK'
  BY <1>a, <1>1 DEF Begin, TypeOK, Goto, FirstLabel, Labels, dbVars
<1>2. ASSUME NEW t \in Txns, LockStep(t) PROVE TypeOK'
  <2>1. lock' \in [Rows -> Txns \union {None}]
    BY <1>a, <1>2, WantedType DEF LockStep, LockRow, TypeOK
  <2>2. pc' \in [Txns -> Labels]
    BY <1>a, <1>2 DEF LockStep, LockRow, TypeOK, Goto, Labels
  <2>3. QED
    BY <1>a, <1>2, <2>1, <2>2 DEF LockStep, TypeOK, dbVars
<1>3. ASSUME NEW t \in Txns, Rollback(t) PROVE TypeOK'
  BY <1>a, <1>3, EndType DEF Rollback, TypeOK, dbVars
<1>4. ASSUME NEW t \in Txns, NextVersionNumber(t) PROVE TypeOK'
  <2>1. cmd[t].tool \in Tools
    BY <1>a, <1>4, BusyType DEF NextVersionNumber
  <2>2. number' \in [Txns -> Nat]
    BY <1>a, <1>4, <2>1, NextNumberType DEF NextVersionNumber, TypeOK
  <2>3. QED
    BY <1>a, <1>4, <2>2
    DEF NextVersionNumber, TypeOK, Goto, Labels, dbVars
<1>5. ASSUME NEW t \in Txns, ReadCurrent(t) PROVE TypeOK'
  BY <1>a, <1>5
  DEF ReadCurrent, TypeOK, Goto, Labels, dbVars, PublishedOf, VersionsOf
<1>6. ASSUME NEW t \in Txns, Accept(t) PROVE TypeOK'
  <2>1. /\ cmd[t].op \in Ops /\ cmd[t].tool \in Tools /\ End(t)
        /\ number[t] \in Nat \ {0}
    BY <1>a, <1>6, BusyType DEF Accept, CommandInv, NumberInv, TypeOK
  <2>2. versions' \in [Ops -> ToolVersions \union {NoVersion}]
    BY <1>a, <1>6, <2>1, VersionUpdate DEF Accept, TypeOK, VersionStatuses
  <2>3. /\ tools' \in [Tools -> {"none", "disabled", "active"}]
        /\ bindings' \in [Ops -> BindingStatuses]
        /\ accepted' \subseteq Ops /\ upstreams' = upstreams
    BY <1>a, <1>6, <2>1 DEF Accept, TypeOK, BindingStatuses
  <2>4. QED
    BY <1>a, <2>1, <2>2, <2>3, EndType DEF TypeOK
<1>7. ASSUME NEW t \in Txns, Publish(t) PROVE TypeOK'
  <2>1. /\ cmd[t].op \in Ops /\ cmd[t].tool \in Tools /\ End(t)
        /\ pc[t] = "commit"
    BY <1>a, <1>7, BusyType DEF Publish
  <2>2. TargetNumber(t) \in Nat \ {0}
    <3>1. CASE fresh[t]
      BY <1>a, <3>1 DEF TargetNumber, NumberInv, TypeOK
    <3>2. CASE ~fresh[t]
      BY <1>a, <2>1, <3>2, VersionUpdate
      DEF TargetNumber, TargetInv, TypeOK, Switching
    <3>3. QED
      BY <3>1, <3>2
  <2>3. current[t] # None => versions[current[t]] \in ToolVersions
    BY <1>a, <2>1, VersionUpdate
    DEF CurrentInv, Found, PublishedOf, VersionsOf, TypeOK
  <2>4. versions' \in [Ops -> ToolVersions \union {NoVersion}]
    BY <1>a, <1>7, <2>1, <2>2, <2>3, VersionUpdate, AbsentAssumption
    DEF Publish, SwitchVersions, TypeOK, VersionStatuses
  <2>5. /\ tools' \in [Tools -> {"none", "disabled", "active"}]
        /\ bindings' \in [Ops -> BindingStatuses]
        /\ accepted' \subseteq Ops /\ upstreams' = upstreams
    BY <1>a, <1>7, <2>1
    DEF Publish, SwitchBindings, TypeOK, BindingStatuses
  <2>6. QED
    BY <1>a, <2>1, <2>4, <2>5, EndType DEF TypeOK
<1>8. ASSUME NEW o \in Ops, SubmitForReview(o) PROVE TypeOK'
  <2>1. versions[o] \in ToolVersions
    BY <1>a, <1>8, VersionUpdate DEF SubmitForReview, TypeOK
  <2>2. versions' \in [Ops -> ToolVersions \union {NoVersion}]
    BY <1>a, <1>8, <2>1, VersionUpdate
    DEF SubmitForReview, TypeOK, VersionStatuses
  <2>3. QED
    BY <1>a, <1>8, <2>2 DEF SubmitForReview, TypeOK
<1>9. ASSUME NEW u \in Upstreams, DisableUpstream(u) PROVE TypeOK'
  BY <1>a, <1>9 DEF DisableUpstream, TypeOK
<1>10. CASE UNCHANGED vars
  BY <1>a, <1>10 DEF vars, dbVars, TypeOK
<1>11. QED
  BY <1>1, <1>2, <1>3, <1>4, <1>5, <1>6, <1>7, <1>8, <1>9, <1>10, StepKinds

\* A session's steps leave the other sessions alone.
LEMMA OthersKept ==
    ASSUME TypeOK, NEW t \in Txns, NEW u \in Txns, u # t,
           \/ Begin(t) \/ LockStep(t) \/ Rollback(t)
           \/ NextVersionNumber(t) \/ ReadCurrent(t)
           \/ Accept(t) \/ Publish(t)
    PROVE  /\ pc'[u] = pc[u] /\ cmd'[u] = cmd[u] /\ number'[u] = number[u]
           /\ fresh'[u] = fresh[u] /\ current'[u] = current[u]
BY DEF TypeOK, Begin, LockStep, LockRow, Rollback, End, Forget, Goto,
       NextVersionNumber, ReadCurrent, Accept, Publish

\* A session that has ended is idle.
LEMMA Ended ==
    ASSUME TypeOK, NEW t \in Txns, End(t)
    PROVE  /\ pc'[t] = "idle" /\ cmd'[t] = None /\ ~fresh'[t]
           /\ current'[t] = None
BY DEF TypeOK, End, Forget

\* The statements that lock, from label to label.
LEMMA LockMoves ==
    ASSUME TypeOK, NEW t \in Txns, LockStep(t)
    PROVE  \/ pc[t] = "operation" /\ pc'[t] = "review_upstream"
           \/ /\ pc[t] = "operation" /\ pc'[t] = "direct_version"
              /\ cmd[t].kind = "direct"
           \/ pc[t] = "review_upstream" /\ pc'[t] = "review_tool"
           \/ pc[t] = "review_tool" /\ pc'[t] = "add_tool"
           \/ pc[t] \in {"review_tool", "add_tool"} /\ pc'[t] = "number"
           \/ pc[t] = "direct_version" /\ pc'[t] = "direct_binding"
           \/ pc[t] = "direct_binding" /\ pc'[t] = "direct_tool"
           \/ pc[t] \in {"direct_tool", "binding"} /\ pc'[t] = "upstream"
           \/ pc[t] = "tool" /\ pc'[t] = "version"
           \/ pc[t] = "version" /\ pc'[t] = "binding"
           \/ pc[t] = "upstream" /\ pc'[t] = "current"
           \/ pc[t] = "current_version" /\ pc'[t] = "current_binding"
           \/ pc[t] = "current_binding" /\ pc'[t] = "commit"
BY DEF LockStep, LockRow, Goto, TypeOK

\* What a command is doing fits its statement.
LEMMA CommandStep == IInv /\ [Next]_vars => CommandInv'
<1> SUFFICES ASSUME IInv, [Next]_vars PROVE CommandInv'
  OBVIOUS
<1>a. TypeOK /\ CommandInv
  BY DEF IInv
<1>b. ASSUME NEW t \in Txns, End(t) PROVE CommandInv'
  <2>1. \A u \in Txns : u # t =>
           /\ pc'[u] = pc[u] /\ cmd'[u] = cmd[u]
           /\ fresh'[u] = fresh[u] /\ current'[u] = current[u]
    BY <1>a, <1>b DEF TypeOK, End, Forget
  <2>2. QED
    BY <1>a, <1>b, <2>1, Ended DEF CommandInv, Switching, Found
<1>1. ASSUME NEW t \in Txns, Begin(t) PROVE CommandInv'
  <2>1. PICK c \in Commands : /\ cmd' = [cmd EXCEPT ![t] = c]
                              /\ Goto(t, FirstLabel(c.kind))
    BY <1>1 DEF Begin
  <2>2. /\ c.kind \in Kinds /\ ~fresh[t] /\ current[t] = None
        /\ UNCHANGED <<fresh, current>>
    BY <1>a, <1>1, CommandType DEF Begin, CommandInv, Switching, Found
  <2>3. QED
    BY <1>a, <2>1, <2>2
    DEF CommandInv, Switching, Found, Goto, FirstLabel, Kinds, TypeOK
<1>2. ASSUME NEW t \in Txns, LockStep(t) PROVE CommandInv'
  <2>1. pc[t] # "idle" /\ cmd[t] \in Commands /\ cmd[t].kind \in Kinds
    BY <1>a, <1>2, BusyType DEF LockStep, LockRow, LockLabels
  <2>2. UNCHANGED <<cmd, fresh, current>>
    BY <1>2 DEF LockStep
  <2>3. \A u \in Txns : u # t => pc'[u] = pc[u]
    BY <1>a, <1>2, OthersKept
  <2>4. pc[t] = "upstream" /\ pc'[t] = "current" =>
           cmd[t].tool = ToolOf[cmd[t].op]
    BY <1>a, <1>2 DEF LockStep, LockRow, Goto, TypeOK, ValidSnapshot
  <2>5. QED
    BY <1>a, <1>2, <2>1, <2>2, <2>3, <2>4, LockMoves
    DEF CommandInv, Switching, Found, Kinds
<1>3. ASSUME NEW t \in Txns, Rollback(t) \/ Accept(t) \/ Publish(t)
      PROVE  CommandInv'
  BY <1>3, <1>b DEF Rollback, Accept, Publish
<1>4. ASSUME NEW t \in Txns, NextVersionNumber(t) PROVE CommandInv'
  <2>1. /\ cmd[t] \in Commands /\ cmd[t].kind \in Kinds
        /\ cmd[t].kind # "publish" => cmd[t].tool = ToolOf[cmd[t].op]
    BY <1>a, <1>4, BusyType DEF NextVersionNumber
  <2>2. QED
    BY <1>a, <1>4, <2>1
    DEF NextVersionNumber, Goto, TypeOK, CommandInv, Switching, Found, Kinds
<1>5. ASSUME NEW t \in Txns, ReadCurrent(t) PROVE CommandInv'
  BY <1>a, <1>5, AbsentAssumption
  DEF ReadCurrent, Goto, TypeOK, CommandInv, Switching, Found, PublishedOf,
      VersionsOf
<1>6. ASSUME NEW o \in Ops, SubmitForReview(o) PROVE CommandInv'
  BY <1>a, <1>6 DEF SubmitForReview, CommandInv
<1>7. ASSUME NEW u \in Upstreams, DisableUpstream(u) PROVE CommandInv'
  BY <1>a, <1>7 DEF DisableUpstream, CommandInv
<1>8. CASE UNCHANGED vars
  BY <1>a, <1>8 DEF vars, dbVars, CommandInv
<1>9. QED
  BY <1>1, <1>2, <1>3, <1>4, <1>5, <1>6, <1>7, <1>8, StepKinds

\* What a session holds depends on the session alone.
LEMMA HoldsKept ==
    ASSUME NEW u, NEW r,
           /\ pc'[u] = pc[u] /\ cmd'[u] = cmd[u]
           /\ fresh'[u] = fresh[u] /\ current'[u] = current[u]
    PROVE  Holds(u, r)' <=> Holds(u, r)
BY DEF Holds

\* A statement that has its lock holds one row more.
LEMMA HoldsMore ==
    ASSUME TypeOK, CommandInv, NEW t \in Txns, LockStep(t),
           pc'[t] # "add_tool", NEW r \in Rows
    PROVE  Holds(t, r)' <=> (Holds(t, r) \/ r = Wanted(t))
<1>1. UNCHANGED <<cmd, fresh, current>>
  BY DEF LockStep
<1>2. /\ fresh[t] => pc[t] \in {"accept"} \union Switching
      /\ current[t] # None => pc[t] \in Found
  BY DEF CommandInv
<1>4. cmd[t].kind \in Kinds
  BY BusyType DEF LockStep, LockRow, LockLabels
<1> USE <1>1, <1>2, <1>4, WantedIs DEF Holds, Switching, Found
<1>5. CASE pc[t] = "operation"
  BY <1>5, LockMoves DEF CommandInv
<1>6. CASE pc[t] \in {"review_upstream", "review_tool", "add_tool"}
  BY <1>6, LockMoves DEF CommandInv
<1>7. CASE pc[t] \in {"direct_version", "direct_binding", "direct_tool"}
  BY <1>7, LockMoves DEF CommandInv
<1>8. CASE pc[t] \in {"tool", "version", "binding"}
  BY <1>8, LockMoves DEF CommandInv
<1>9. CASE pc[t] = "upstream"
  BY <1>9, LockMoves DEF CommandInv
<1>10. CASE pc[t] \in {"current_version", "current_binding"}
  BY <1>10, LockMoves DEF CommandInv
<1>11. QED
  BY <1>5, <1>6, <1>7, <1>8, <1>9, <1>10, LockMoves

\* The locks are where the statements put them.
LEMMA LockInvStep == IInv /\ [Next]_vars => LockInv'
<1> SUFFICES ASSUME IInv, [Next]_vars, NEW u \in Txns, NEW r \in Rows
             PROVE  lock'[r] = u <=> Holds(u, r)'
  BY DEF LockInv
<1>a. TypeOK /\ CommandInv /\ LockInv
  BY DEF IInv
<1>b. (lock[r] = u <=> Holds(u, r)) /\ u # None
  BY <1>a, AbsentAssumption DEF LockInv
<1>c. ASSUME NEW t \in Txns, u # t,
             \/ Begin(t) \/ LockStep(t) \/ Rollback(t)
             \/ NextVersionNumber(t) \/ ReadCurrent(t)
             \/ Accept(t) \/ Publish(t)
      PROVE  Holds(u, r)' <=> Holds(u, r)
  BY <1>a, <1>c, OthersKept, HoldsKept
<1>d. ASSUME NEW t \in Txns, Rollback(t) \/ Accept(t) \/ Publish(t)
      PROVE  lock'[r] = u <=> Holds(u, r)'
  <2>1. End(t)
    BY <1>d DEF Rollback, Accept, Publish
  <2>2. lock'[r] = IF lock[r] = t THEN None ELSE lock[r]
    BY <2>1 DEF End
  <2>3. CASE u = t
    BY <1>a, <1>b, <2>1, <2>2, <2>3, Ended DEF Holds, Switching
  <2>4. CASE u # t
    BY <1>b, <1>c, <1>d, <2>2, <2>4
  <2>5. QED
    BY <2>3, <2>4
<1>1. ASSUME NEW t \in Txns, Begin(t) PROVE lock'[r] = u <=> Holds(u, r)'
  <2>1. lock' = lock
    BY <1>1 DEF Begin
  <2>2. CASE u = t
    <3>1. ~Holds(u, r)
      BY <1>1, <2>2 DEF Begin, Holds, Switching
    <3>2. \/ pc'[t] = "operation"
          \/ pc'[t] = "tool" /\ cmd'[t].kind = "publish"
      BY <1>a, <1>1 DEF Begin, Goto, FirstLabel, TypeOK
    <3>3. ~Holds(u, r)'
      BY <2>2, <3>2 DEF Holds, Switching
    <3>4. QED
      BY <1>b, <2>1, <3>1, <3>3
  <2>3. QED
    BY <1>b, <1>c, <1>1, <2>1, <2>2
<1>2. ASSUME NEW t \in Txns, LockStep(t) PROVE lock'[r] = u <=> Holds(u, r)'
  <2>1. CASE pc'[t] = "add_tool"
    <3>1. /\ lock' = lock /\ pc[t] = "review_tool"
          /\ UNCHANGED <<cmd, fresh, current>>
      BY <1>a, <1>2, <2>1 DEF LockStep, LockRow, Goto, TypeOK
    <3>2. Holds(t, r)' <=> Holds(t, r)
      BY <2>1, <3>1 DEF Holds, Switching
    <3>3. QED
      BY <1>b, <1>c, <1>2, <3>1, <3>2
  <2>2. CASE pc'[t] # "add_tool"
    <3>1. /\ pc[t] \in LockLabels /\ lock[Wanted(t)] \in {None, t}
          /\ lock' = [lock EXCEPT ![Wanted(t)] = t]
      BY <1>a, <1>2, <2>2 DEF LockStep, LockRow, Goto, TypeOK, Granted
    <3>2. lock'[r] = IF r = Wanted(t) THEN t ELSE lock[r]
      BY <1>a, <3>1 DEF TypeOK
    <3>3. CASE u = t
      BY <1>a, <1>b, <1>2, <2>2, <3>2, <3>3, HoldsMore
    <3>4. CASE u # t
      BY <1>b, <1>c, <1>2, <3>1, <3>2, <3>4
    <3>5. QED
      BY <3>3, <3>4
  <2>3. QED
    BY <2>1, <2>2
<1>4. ASSUME NEW t \in Txns, NextVersionNumber(t)
      PROVE  lock'[r] = u <=> Holds(u, r)'
  <2>1. CASE u = t
    <3>1. /\ lock' = lock /\ cmd' = cmd /\ current' = current /\ fresh'[t]
          /\ pc[t] = "number" /\ pc'[t] \in {"accept", "current"}
      BY <1>a, <1>4 DEF NextVersionNumber, Goto, TypeOK
    <3>2. Holds(t, r)' <=> Holds(t, r)
      BY <3>1 DEF Holds, Switching
    <3>3. QED
      BY <1>b, <2>1, <3>1, <3>2
  <2>2. CASE u # t
    BY <1>b, <1>c, <1>4, <2>2 DEF NextVersionNumber
  <2>3. QED
    BY <2>1, <2>2
<1>5. ASSUME NEW t \in Txns, ReadCurrent(t)
      PROVE  lock'[r] = u <=> Holds(u, r)'
  <2>1. CASE u = t
    <3>1. /\ lock' = lock /\ cmd' = cmd /\ fresh' = fresh
          /\ pc[t] = "current"
          /\ \/ pc'[t] = "commit" /\ current' = current
             \/ pc'[t] = "current_version"
      BY <1>a, <1>5 DEF ReadCurrent, Goto, TypeOK
    <3>2. current[t] = None /\ None \notin Ops
      BY <1>a, <3>1, AbsentAssumption DEF CommandInv, Found
    <3>3. r # <<"version", None>> /\ r # <<"binding", None>>
      BY <3>2 DEF Rows
    <3>4. Holds(t, r)' <=> Holds(t, r)
      BY <3>1, <3>2, <3>3 DEF Holds, Switching
    <3>5. QED
      BY <1>b, <2>1, <3>1, <3>4
  <2>2. CASE u # t
    BY <1>b, <1>c, <1>5, <2>2 DEF ReadCurrent
  <2>3. QED
    BY <2>1, <2>2
<1>6. ASSUME NEW o \in Ops, SubmitForReview(o) PROVE lock'[r] = u <=> Holds(u, r)'
  BY <1>b, <1>6, HoldsKept DEF SubmitForReview
<1>7. ASSUME NEW v \in Upstreams, DisableUpstream(v)
      PROVE  lock'[r] = u <=> Holds(u, r)'
  BY <1>b, <1>7, HoldsKept DEF DisableUpstream
<1>8. CASE UNCHANGED vars
  BY <1>b, <1>8, HoldsKept DEF vars
<1>9. QED
  BY <1>d, <1>1, <1>2, <1>4, <1>5, <1>6, <1>7, <1>8, StepKinds

(***************************************************************************)
(* What the commits do, row by row.                                        *)
(***************************************************************************)
\* No two sessions hold a row.
LEMMA Exclusive ==
    ASSUME LockInv, NEW t \in Txns, NEW u \in Txns, NEW r \in Rows,
           Holds(t, r), Holds(u, r)
    PROVE  t = u
BY DEF LockInv

\* From the number on a session holds its tool, and up to its commit all its
\* rows.
LEMMA HeldRows ==
    ASSUME TypeOK, CommandInv, NEW t \in Txns,
           pc[t] \in {"number", "accept"} \union Switching
    PROVE  /\ cmd[t].op \in Ops /\ cmd[t].tool = ToolOf[cmd[t].op]
           /\ cmd[t].tool \in Tools
           /\ <<"tool", cmd[t].tool>> \in Rows
           /\ Holds(t, <<"tool", cmd[t].tool>>)
           /\ cmd[t].kind # "publish" => Holds(t, <<"operation", cmd[t].op>>)
           /\ <<"operation", cmd[t].op>> \in Rows
           /\ <<"version", cmd[t].op>> \in Rows
           /\ ~fresh[t] /\ pc[t] \in Switching
                 => Holds(t, <<"version", cmd[t].op>>)
           /\ fresh[t] => cmd[t].kind # "publish"
<1>1. pc[t] # "idle"
  BY DEF Switching
<1>2. /\ cmd[t].op \in Ops /\ cmd[t].tool \in Tools
      /\ cmd[t].tool = ToolOf[cmd[t].op]
  BY <1>1, BusyType DEF CommandInv
<1>3. QED
  BY <1>2 DEF Holds, Rows, CommandInv, Switching

\* The commit of a review adds one draft, where there was nothing.
LEMMA AcceptEffect ==
    ASSUME IInv, NEW t \in Txns, Accept(t)
    PROVE  /\ cmd[t].op \in Ops /\ cmd[t].tool = ToolOf[cmd[t].op]
           /\ cmd[t].tool \in Tools
           /\ Holds(t, <<"tool", cmd[t].tool>>)
           /\ Holds(t, <<"operation", cmd[t].op>>)
           /\ cmd[t].op \notin accepted
           /\ versions[cmd[t].op].status = "none"
           /\ versions'[cmd[t].op].status = "draft"
           /\ versions'[cmd[t].op].number = number[t]
           /\ bindings'[cmd[t].op] = "draft"
           /\ \A o \in Ops : o # cmd[t].op => /\ versions'[o] = versions[o]
                                              /\ bindings'[o] = bindings[o]
           /\ tools'[cmd[t].tool] = IF tools[cmd[t].tool] = "none" THEN "disabled"
                                    ELSE tools[cmd[t].tool]
           /\ \A n \in Tools : n # cmd[t].tool => tools'[n] = tools[n]
           /\ accepted' = accepted \union {cmd[t].op}
           /\ upstreams' = upstreams
           /\ End(t)
<1>a. TypeOK /\ CommandInv /\ OperationInv /\ PublicationConsistent
  BY DEF IInv
<1>1. pc[t] = "accept" /\ fresh[t] /\ cmd[t].kind = "review"
  BY <1>a DEF Accept, CommandInv
<1>2. /\ cmd[t].op \in Ops /\ cmd[t].tool = ToolOf[cmd[t].op]
      /\ cmd[t].tool \in Tools
      /\ Holds(t, <<"tool", cmd[t].tool>>)
      /\ Holds(t, <<"operation", cmd[t].op>>)
  BY <1>a, <1>1, HeldRows
<1>3. cmd[t].op \notin accepted /\ versions[cmd[t].op].status = "none"
  BY <1>a, <1>1, <1>2 DEF OperationInv, PublicationConsistent
<1>4. QED
  BY <1>a, <1>2, <1>3 DEF Accept, TypeOK

\* A publication that commits finds its version unpublished and the upstream
\* active, and the version that it replaces is the one on offer, and older.
LEMMA PublishFinds ==
    ASSUME IInv, NEW t \in Txns, Publish(t)
    PROVE  /\ cmd[t].op \in Ops /\ cmd[t].tool = ToolOf[cmd[t].op]
           /\ cmd[t].tool \in Tools
           /\ Holds(t, <<"tool", cmd[t].tool>>)
           /\ cmd[t].op \notin accepted => Holds(t, <<"operation", cmd[t].op>>)
           /\ versions[cmd[t].op].status \in {"none", "draft", "review"}
           /\ versions[cmd[t].op].status # "none" =>
                 TargetNumber(t) = versions[cmd[t].op].number
           /\ upstreams[UpstreamOf[cmd[t].op]] = "active"
           /\ PublishedOf(cmd[t].tool) \subseteq {current[t]}
           /\ current[t] # None =>
                 /\ current[t] \in Ops /\ current[t] # cmd[t].op
                 /\ ToolOf[current[t]] = cmd[t].tool
                 /\ versions[current[t]].status = "published"
                 /\ versions[current[t]].number < TargetNumber(t)
<1>a. /\ TypeOK /\ CommandInv /\ OperationInv /\ PublicationConsistent
      /\ TargetInv /\ CurrentInv /\ UpstreamInv
  BY DEF IInv
<1>1. pc[t] = "commit" /\ pc[t] \in Switching /\ pc[t] \in Found
  BY DEF Publish, Switching, Found
<1>2. /\ cmd[t].op \in Ops /\ cmd[t].tool = ToolOf[cmd[t].op]
      /\ cmd[t].tool \in Tools
      /\ Holds(t, <<"tool", cmd[t].tool>>)
  BY <1>a, <1>1, HeldRows
<1>3. /\ versions[cmd[t].op].status \in {"none", "draft", "review"}
      /\ versions[cmd[t].op].status # "none" =>
            TargetNumber(t) = versions[cmd[t].op].number
      /\ cmd[t].op \notin accepted => Holds(t, <<"operation", cmd[t].op>>)
  <2>1. CASE fresh[t]
    BY <1>a, <1>1, <1>2, <2>1, HeldRows
    DEF OperationInv, PublicationConsistent
  <2>2. CASE ~fresh[t]
    BY <1>a, <1>1, <1>2, <2>2
    DEF TargetInv, TargetNumber, PublicationConsistent
  <2>3. QED
    BY <2>1, <2>2
<1>4. upstreams[UpstreamOf[cmd[t].op]] = "active"
  BY <1>a, <1>1 DEF UpstreamInv
<1>5. /\ PublishedOf(cmd[t].tool) \subseteq {current[t]}
      /\ current[t] # None =>
            /\ current[t] \in Ops /\ current[t] # cmd[t].op
            /\ ToolOf[current[t]] = cmd[t].tool
            /\ versions[current[t]].status = "published"
            /\ versions[current[t]].number < TargetNumber(t)
  BY <1>a, <1>1, <1>3 DEF CurrentInv, PublishedOf, VersionsOf, IsNewer
<1>6. QED
  BY <1>2, <1>3, <1>4, <1>5

\* It switches from the version it found to its own.
LEMMA PublishWrites ==
    ASSUME IInv, NEW t \in Txns, Publish(t)
    PROVE  /\ versions'[cmd[t].op].status = "published"
           /\ versions'[cmd[t].op].number = TargetNumber(t)
           /\ bindings'[cmd[t].op] = "published"
           /\ current[t] # None =>
                 /\ versions'[current[t]].status = "retired"
                 /\ versions'[current[t]].number = versions[current[t]].number
                 /\ bindings'[current[t]] = "disabled"
           /\ \A o \in Ops : o # cmd[t].op /\ o # current[t] =>
                 /\ versions'[o] = versions[o]
                 /\ bindings'[o] = bindings[o]
           /\ tools'[cmd[t].tool] = "active"
           /\ \A n \in Tools : n # cmd[t].tool => tools'[n] = tools[n]
           /\ accepted' = accepted \union {cmd[t].op}
           /\ upstreams' = upstreams
           /\ End(t)
<1>a. TypeOK
  BY DEF IInv
<1>1. /\ cmd[t].op \in Ops /\ cmd[t].tool \in Tools
      /\ current[t] # None => current[t] \in Ops /\ current[t] # cmd[t].op
  BY PublishFinds
<1>2. \A o \in Ops :
         /\ versions'[o] =
               IF o = cmd[t].op
               THEN [status |-> "published", number |-> TargetNumber(t)]
               ELSE IF o = current[t]
                    THEN [versions[o] EXCEPT !.status = "retired"]
                    ELSE versions[o]
         /\ bindings'[o] = IF o = cmd[t].op THEN "published"
                           ELSE IF o = current[t] THEN "disabled"
                                ELSE bindings[o]
  BY DEF Publish, SwitchVersions, SwitchBindings
<1>3. ASSUME current[t] # None
      PROVE  /\ versions'[current[t]].status = "retired"
             /\ versions'[current[t]].number = versions[current[t]].number
             /\ bindings'[current[t]] = "disabled"
  <2>1. versions[current[t]] \in ToolVersions \union {NoVersion}
    BY <1>a, <1>1, <1>3 DEF TypeOK
  <2>2. versions'[current[t]] = [versions[current[t]] EXCEPT !.status = "retired"]
    BY <1>1, <1>2, <1>3
  <2>3. QED
    BY <1>1, <1>2, <1>3, <2>1, <2>2 DEF ToolVersions, NoVersion
<1>4. /\ tools'[cmd[t].tool] = "active"
      /\ \A n \in Tools : n # cmd[t].tool => tools'[n] = tools[n]
      /\ accepted' = accepted \union {cmd[t].op}
      /\ upstreams' = upstreams
      /\ End(t)
  BY <1>a, <1>1 DEF Publish, TypeOK
<1>5. /\ versions'[cmd[t].op].status = "published"
      /\ versions'[cmd[t].op].number = TargetNumber(t)
      /\ bindings'[cmd[t].op] = "published"
  <2>1. /\ versions'[cmd[t].op] =
              [status |-> "published", number |-> TargetNumber(t)]
        /\ bindings'[cmd[t].op] = "published"
    BY <1>1, <1>2
  <2>2. QED
    BY <2>1
<1>6. \A o \in Ops : o # cmd[t].op /\ o # current[t] =>
         /\ versions'[o] = versions[o]
         /\ bindings'[o] = bindings[o]
  BY <1>2
<1>7. QED
  BY <1>3, <1>4, <1>5, <1>6

\* A submitted draft changes its status only.
LEMMA SubmitEffect ==
    ASSUME TypeOK, NEW o \in Ops, SubmitForReview(o)
    PROVE  /\ versions[o].status = "draft" /\ versions'[o].status = "review"
           /\ versions'[o].number = versions[o].number
           /\ \A p \in Ops : p # o => versions'[p] = versions[p]
           /\ \A n \in Tools : /\ VersionsOf(n)' = VersionsOf(n)
                               /\ PublishedOf(n)' = PublishedOf(n)
<1>1. versions[o] \in ToolVersions \union {NoVersion}
  BY DEF TypeOK
<1>2. /\ versions[o].status = "draft" /\ versions'[o].status = "review"
      /\ versions'[o].number = versions[o].number
      /\ \A p \in Ops : p # o => versions'[p] = versions[p]
  BY <1>1 DEF TypeOK, SubmitForReview, ToolVersions, NoVersion
<1>3. \A n \in Tools : VersionsOf(n)' = VersionsOf(n)
  BY <1>2 DEF VersionsOf
<1>4. QED
  BY <1>2, <1>3 DEF PublishedOf, VersionsOf

\* While a session holds a tool, no other commits to its versions.
LEMMA ToolKept ==
    ASSUME IInv, NEW t \in Txns, Accept(t) \/ Publish(t),
           NEW u \in Txns, u # t, NEW n \in Tools,
           Holds(u, <<"tool", n>>)
    PROVE  /\ \A o \in Ops : ToolOf[o] = n => versions'[o] = versions[o]
           /\ VersionsOf(n)' = VersionsOf(n)
           /\ PublishedOf(n)' = PublishedOf(n)
<1>1. /\ cmd[t].op \in Ops /\ cmd[t].tool = ToolOf[cmd[t].op]
      /\ cmd[t].tool \in Tools
      /\ Holds(t, <<"tool", cmd[t].tool>>)
  BY AcceptEffect, PublishFinds
<1>2. cmd[t].tool # n
  <2>1. <<"tool", n>> \in Rows
    BY DEF Rows
  <2>2. QED
    BY <1>1, <2>1, Exclusive DEF IInv
<1>3. \A o \in Ops : ToolOf[o] = n => versions'[o] = versions[o]
  <2>1. SUFFICES ASSUME NEW o \in Ops, ToolOf[o] = n
                 PROVE  versions'[o] = versions[o]
    OBVIOUS
  <2>2. o # cmd[t].op
    BY <1>1, <1>2, <2>1
  <2>3. CASE Accept(t)
    BY <2>1, <2>2, <2>3, AcceptEffect
  <2>4. CASE Publish(t)
    <3>1. current[t] # None => ToolOf[current[t]] = cmd[t].tool
      BY <2>4, PublishFinds
    <3>2. \A p \in Ops : p # cmd[t].op /\ p # current[t] =>
             versions'[p] = versions[p]
      BY <2>4, PublishWrites
    <3>3. QED
      BY <1>2, <2>1, <2>2, <3>1, <3>2, AbsentAssumption
  <2>5. QED
    BY <2>3, <2>4
<1>4. VersionsOf(n)' = VersionsOf(n)
  BY <1>3 DEF VersionsOf
<1>5. PublishedOf(n)' = PublishedOf(n)
  BY <1>3, <1>4 DEF PublishedOf, VersionsOf
<1>6. QED
  BY <1>3, <1>4, <1>5

(***************************************************************************)
(* What a transaction has seen stays so.                                   *)
(***************************************************************************)
\* Nobody else reviews the operation that a session holds.
LEMMA OperationStep == IInv /\ [Next]_vars => OperationInv'
<1> SUFFICES ASSUME IInv, [Next]_vars, NEW u \in Txns,
                    \/ pc'[u] \in {"review_upstream", "review_tool",
                                   "add_tool", "number"}
                    \/ fresh'[u]
             PROVE  cmd'[u].op \notin accepted'
  BY DEF OperationInv
<1>a. TypeOK /\ CommandInv /\ LockInv /\ OperationInv /\ PublicationConsistent
  BY DEF IInv
<1>b. ASSUME UNCHANGED <<pc, cmd, fresh, accepted>>
      PROVE  cmd'[u].op \notin accepted'
  BY <1>a, <1>b DEF OperationInv
<1>c. ASSUME NEW t \in Txns, u # t, accepted' = accepted,
             \/ Begin(t) \/ LockStep(t) \/ Rollback(t)
             \/ NextVersionNumber(t) \/ ReadCurrent(t)
      PROVE  cmd'[u].op \notin accepted'
  BY <1>a, <1>c, OthersKept DEF OperationInv
<1>d. ASSUME NEW t \in Txns, Accept(t) \/ Publish(t)
      PROVE  cmd'[u].op \notin accepted'
  <2>1. /\ cmd[t].op \in Ops
        /\ cmd[t].op \in accepted \/ Holds(t, <<"operation", cmd[t].op>>)
    BY <1>d, AcceptEffect, PublishFinds
  <2>2. accepted' = accepted \union {cmd[t].op} /\ End(t)
    BY <1>d DEF Accept, Publish
  <2>3. u # t
    BY <1>a, <2>2, Ended
  <2>4. /\ pc'[u] = pc[u] /\ cmd'[u] = cmd[u] /\ fresh'[u] = fresh[u]
    BY <1>a, <1>d, <2>3, OthersKept
  <2>5. cmd[u].op \notin accepted
    BY <1>a, <2>4 DEF OperationInv
  <2>6. Holds(u, <<"operation", cmd[u].op>>)
    BY <1>a, <2>4 DEF CommandInv, Holds, Switching
  <2>7. cmd[u].op # cmd[t].op
    <3>1. <<"operation", cmd[t].op>> \in Rows
      BY <2>1 DEF Rows
    <3>2. QED
      BY <1>a, <2>1, <2>3, <2>5, <2>6, <3>1, Exclusive
  <2>8. QED
    BY <2>2, <2>4, <2>5, <2>7
<1>1. ASSUME NEW t \in Txns, Begin(t) PROVE cmd'[u].op \notin accepted'
  <2>1. accepted' = accepted
    BY <1>1 DEF Begin, dbVars
  <2>2. u # t
    BY <1>a, <1>1 DEF Begin, Goto, FirstLabel, TypeOK, CommandInv, Switching
  <2>3. QED
    BY <1>c, <1>1, <2>1, <2>2
<1>2. ASSUME NEW t \in Txns, LockStep(t) PROVE cmd'[u].op \notin accepted'
  <2>1. accepted' = accepted /\ cmd' = cmd /\ fresh' = fresh
    BY <1>2 DEF LockStep, dbVars
  <2>2. CASE u = t /\ pc[t] # "operation"
    BY <1>a, <1>2, <2>1, <2>2, LockMoves DEF OperationInv
  <2>3. CASE u = t /\ pc[t] = "operation"
    BY <1>a, <1>2, <2>1, <2>3
    DEF LockStep, LockRow, Goto, TypeOK, CommandInv, Switching
  <2>4. QED
    BY <1>c, <1>2, <2>1, <2>2, <2>3
<1>3. ASSUME NEW t \in Txns, Rollback(t) PROVE cmd'[u].op \notin accepted'
  <2>1. accepted' = accepted /\ u # t
    BY <1>a, <1>3, Ended DEF Rollback, dbVars
  <2>2. QED
    BY <1>c, <1>3, <2>1
<1>4. ASSUME NEW t \in Txns, NextVersionNumber(t)
      PROVE  cmd'[u].op \notin accepted'
  <2>1. accepted' = accepted /\ cmd' = cmd /\ pc[t] = "number"
    BY <1>4 DEF NextVersionNumber, dbVars
  <2>2. QED
    BY <1>a, <1>c, <1>4, <2>1 DEF OperationInv
<1>5. ASSUME NEW t \in Txns, ReadCurrent(t) PROVE cmd'[u].op \notin accepted'
  <2>1. /\ accepted' = accepted /\ cmd' = cmd /\ fresh' = fresh
        /\ pc'[t] \in {"commit", "current_version"}
    BY <1>a, <1>5 DEF ReadCurrent, Goto, TypeOK, dbVars
  <2>2. QED
    BY <1>a, <1>c, <1>5, <2>1 DEF OperationInv
<1>6. ASSUME NEW o \in Ops, SubmitForReview(o) PROVE cmd'[u].op \notin accepted'
  BY <1>6, <1>b DEF SubmitForReview
<1>7. ASSUME NEW v \in Upstreams, DisableUpstream(v)
      PROVE  cmd'[u].op \notin accepted'
  BY <1>7, <1>b DEF DisableUpstream
<1>8. CASE UNCHANGED vars
  BY <1>8, <1>b DEF vars, dbVars
<1>9. QED
  BY <1>d, <1>1, <1>2, <1>3, <1>4, <1>5, <1>6, <1>7, <1>8, StepKinds

\* Nobody disables the upstream that a session holds.
LEMMA UpstreamStep == IInv /\ [Next]_vars => UpstreamInv'
<1> DEFINE Secured == {"review_tool", "add_tool", "number", "accept"}
                         \union Switching
<1> SUFFICES ASSUME IInv, [Next]_vars, NEW u \in Txns, pc'[u] \in Secured
             PROVE  upstreams'[UpstreamOf[cmd'[u].op]] = "active"
  BY DEF UpstreamInv
<1>a. TypeOK /\ CommandInv /\ LockInv /\ UpstreamInv
  BY DEF IInv
<1>b. ASSUME pc'[u] = pc[u], cmd'[u] = cmd[u], upstreams' = upstreams
      PROVE  upstreams'[UpstreamOf[cmd'[u].op]] = "active"
  BY <1>a, <1>b DEF UpstreamInv
<1>c. ASSUME NEW t \in Txns, u # t, upstreams' = upstreams,
             \/ Begin(t) \/ LockStep(t) \/ Rollback(t)
             \/ NextVersionNumber(t) \/ ReadCurrent(t)
             \/ Accept(t) \/ Publish(t)
      PROVE  upstreams'[UpstreamOf[cmd'[u].op]] = "active"
  BY <1>a, <1>b, <1>c, OthersKept
<1>1. ASSUME NEW t \in Txns, Begin(t)
      PROVE  upstreams'[UpstreamOf[cmd'[u].op]] = "active"
  <2>1. upstreams' = upstreams
    BY <1>1 DEF Begin, dbVars
  <2>2. u # t
    BY <1>a, <1>1 DEF Begin, Goto, FirstLabel, TypeOK, Switching
  <2>3. QED
    BY <1>c, <1>1, <2>1, <2>2
<1>2. ASSUME NEW t \in Txns, LockStep(t)
      PROVE  upstreams'[UpstreamOf[cmd'[u].op]] = "active"
  <2>1. upstreams' = upstreams /\ cmd' = cmd
    BY <1>2 DEF LockStep, dbVars
  <2>2. CASE u = t /\ pc[t] \in Secured
    BY <1>a, <2>1, <2>2 DEF UpstreamInv
  <2>3. CASE u = t /\ pc[t] \notin Secured
    <3>1. pc[t] \in {"review_upstream", "upstream"}
      BY <1>a, <1>2, <2>3, LockMoves DEF Switching
    <3>2. upstreams[UpstreamOf[cmd[t].op]] = "active"
      BY <1>a, <1>2, <3>1 DEF LockStep, LockRow, ValidSnapshot
    <3>3. QED
      BY <2>1, <2>3, <3>2
  <2>4. QED
    BY <1>c, <1>2, <2>1, <2>2, <2>3
<1>3. ASSUME NEW t \in Txns, Rollback(t) \/ Accept(t) \/ Publish(t)
      PROVE  upstreams'[UpstreamOf[cmd'[u].op]] = "active"
  <2>1. upstreams' = upstreams /\ End(t)
    BY <1>3 DEF Rollback, Accept, Publish, dbVars
  <2>2. u # t
    BY <1>a, <2>1, Ended DEF Switching
  <2>3. QED
    BY <1>c, <1>3, <2>1, <2>2
<1>4. ASSUME NEW t \in Txns, NextVersionNumber(t) \/ ReadCurrent(t)
      PROVE  upstreams'[UpstreamOf[cmd'[u].op]] = "active"
  <2>1. upstreams' = upstreams /\ cmd' = cmd /\ pc[t] \in Secured
    BY <1>4 DEF NextVersionNumber, ReadCurrent, dbVars, Switching
  <2>2. QED
    BY <1>a, <1>c, <1>4, <2>1 DEF UpstreamInv
<1>5. ASSUME NEW o \in Ops, SubmitForReview(o)
      PROVE  upstreams'[UpstreamOf[cmd'[u].op]] = "active"
  BY <1>5, <1>b DEF SubmitForReview
<1>6. ASSUME NEW v \in Upstreams, DisableUpstream(v)
      PROVE  upstreams'[UpstreamOf[cmd'[u].op]] = "active"
  <2>1. /\ lock[<<"upstream", v>>] = None /\ UNCHANGED <<pc, cmd>>
        /\ \A w \in Upstreams : w # v => upstreams'[w] = upstreams[w]
    BY <1>a, <1>6 DEF DisableUpstream, TypeOK
  <2>2. /\ UpstreamOf[cmd[u].op] \in Upstreams
        /\ upstreams[UpstreamOf[cmd[u].op]] = "active"
    BY <1>a, <2>1, BusyType DEF UpstreamInv, Switching
  <2>3. lock[<<"upstream", UpstreamOf[cmd[u].op]>>] = u
    <3>1. <<"upstream", UpstreamOf[cmd[u].op]>> \in Rows
      BY <2>2 DEF Rows
    <3>2. Holds(u, <<"upstream", UpstreamOf[cmd[u].op]>>)
      BY <2>1 DEF Holds
    <3>3. QED
      BY <1>a, <3>1, <3>2 DEF LockInv
  <2>4. QED
    BY <2>1, <2>2, <2>3, AbsentAssumption
<1>7. CASE UNCHANGED vars
  BY <1>7, <1>b DEF vars, dbVars
<1>8. QED
  BY <1>1, <1>2, <1>3, <1>4, <1>5, <1>6, <1>7, StepKinds

\* Nobody else numbers a version of the tool that a session holds.
LEMMA NumberStep == IInv /\ [Next]_vars => NumberInv'
<1> DEFINE Good(u) ==
        /\ number[u] > 0
        /\ \A o \in VersionsOf(cmd[u].tool) : versions[o].number < number[u]
<1> SUFFICES ASSUME IInv, [Next]_vars, NEW u \in Txns, fresh'[u]
             PROVE  Good(u)'
  BY DEF NumberInv
<1>a. TypeOK /\ CommandInv /\ LockInv /\ NumberInv
  BY DEF IInv
<1>b. ASSUME fresh'[u] = fresh[u], cmd'[u] = cmd[u], number'[u] = number[u],
             versions' = versions
      PROVE  Good(u)'
  BY <1>a, <1>b DEF NumberInv, VersionsOf
<1>c. ASSUME NEW t \in Txns, u # t, versions' = versions,
             \/ Begin(t) \/ LockStep(t) \/ Rollback(t)
             \/ NextVersionNumber(t) \/ ReadCurrent(t)
      PROVE  Good(u)'
  BY <1>a, <1>b, <1>c, OthersKept
<1>d. fresh[u] => /\ cmd[u].tool \in Tools
                  /\ Holds(u, <<"tool", cmd[u].tool>>)
  BY <1>a, HeldRows DEF CommandInv
<1>1. ASSUME NEW t \in Txns, Begin(t) PROVE Good(u)'
  <2>1. versions' = versions /\ ~fresh'[t]
    BY <1>a, <1>1 DEF Begin, dbVars, CommandInv, Switching
  <2>2. QED
    BY <1>c, <1>1, <2>1
<1>2. ASSUME NEW t \in Txns, LockStep(t) \/ ReadCurrent(t) PROVE Good(u)'
  BY <1>2, <1>b DEF LockStep, ReadCurrent, dbVars
<1>3. ASSUME NEW t \in Txns, Rollback(t) PROVE Good(u)'
  <2>1. versions' = versions /\ u # t
    BY <1>a, <1>3, Ended DEF Rollback, dbVars
  <2>2. QED
    BY <1>c, <1>3, <2>1
<1>4. ASSUME NEW t \in Txns, NextVersionNumber(t) PROVE Good(u)'
  <2>1. versions' = versions /\ cmd' = cmd /\ cmd[t].tool \in Tools
    BY <1>a, <1>4, BusyType DEF NextVersionNumber, dbVars
  <2>2. CASE u = t
    <3>1. PICK k \in NextNumbers(cmd[t].tool) : number' = [number EXCEPT ![t] = k]
      BY <1>4 DEF NextVersionNumber
    <3>2. /\ number'[t] > 0
          /\ \A o \in VersionsOf(cmd[t].tool) : versions[o].number < number'[t]
      BY <1>a, <2>1, <3>1, NextNumberType DEF TypeOK
    <3>3. QED
      BY <2>1, <2>2, <3>2 DEF VersionsOf
  <2>3. QED
    BY <1>c, <1>4, <2>1, <2>2
<1>5. ASSUME NEW t \in Txns, Accept(t) \/ Publish(t) PROVE Good(u)'
  <2>1. u # t
    BY <1>a, <1>5, Ended DEF Accept, Publish
  <2>2. fresh[u] /\ cmd'[u] = cmd[u] /\ number'[u] = number[u]
    BY <1>a, <1>5, <2>1, OthersKept
  <2>3. /\ VersionsOf(cmd[u].tool)' = VersionsOf(cmd[u].tool)
        /\ \A o \in VersionsOf(cmd[u].tool) : versions'[o] = versions[o]
    BY <1>d, <1>5, <2>1, <2>2, ToolKept DEF VersionsOf
  <2>4. QED
    BY <1>a, <2>2, <2>3 DEF NumberInv
<1>6. ASSUME NEW o \in Ops, SubmitForReview(o) PROVE Good(u)'
  <2>1. UNCHANGED <<cmd, number, fresh>>
    BY <1>6 DEF SubmitForReview
  <2>2. VersionsOf(cmd[u].tool)' = VersionsOf(cmd[u].tool)
    BY <1>a, <1>d, <1>6, <2>1, SubmitEffect
  <2>3. \A p \in Ops : versions'[p].number = versions[p].number
    BY <1>a, <1>6, SubmitEffect
  <2>4. QED
    BY <1>a, <2>1, <2>2, <2>3 DEF NumberInv, VersionsOf
<1>7. ASSUME NEW v \in Upstreams, DisableUpstream(v) PROVE Good(u)'
  BY <1>7, <1>b DEF DisableUpstream
<1>8. CASE UNCHANGED vars
  BY <1>8, <1>b DEF vars, dbVars
<1>9. QED
  BY <1>1, <1>2, <1>3, <1>4, <1>5, <1>6, <1>7, <1>8, StepKinds

\* Nobody else publishes or retires the version that a session publishes.
LEMMA TargetStep == IInv /\ [Next]_vars => TargetInv'
<1> SUFFICES ASSUME IInv, [Next]_vars, NEW u \in Txns, pc'[u] \in Switching,
                    ~fresh'[u]
             PROVE  versions'[cmd'[u].op].status \in {"draft", "review"}
  BY DEF TargetInv
<1>a. TypeOK /\ CommandInv /\ LockInv /\ TargetInv
  BY DEF IInv
<1>b. ASSUME pc[u] \in Switching, fresh'[u] = fresh[u], cmd'[u] = cmd[u],
             versions' = versions
      PROVE  versions'[cmd'[u].op].status \in {"draft", "review"}
  BY <1>a, <1>b DEF TargetInv
<1>c. ASSUME NEW t \in Txns, u # t, versions' = versions,
             \/ Begin(t) \/ LockStep(t) \/ Rollback(t)
             \/ NextVersionNumber(t) \/ ReadCurrent(t)
      PROVE  versions'[cmd'[u].op].status \in {"draft", "review"}
  BY <1>a, <1>b, <1>c, OthersKept
<1>1. ASSUME NEW t \in Txns, Begin(t)
      PROVE  versions'[cmd'[u].op].status \in {"draft", "review"}
  <2>1. versions' = versions
    BY <1>1 DEF Begin, dbVars
  <2>2. u # t
    BY <1>a, <1>1 DEF Begin, Goto, FirstLabel, TypeOK, Switching
  <2>3. QED
    BY <1>c, <1>1, <2>1, <2>2
<1>2. ASSUME NEW t \in Txns, LockStep(t)
      PROVE  versions'[cmd'[u].op].status \in {"draft", "review"}
  <2>1. versions' = versions /\ cmd' = cmd /\ fresh' = fresh
    BY <1>2 DEF LockStep, dbVars
  <2>2. CASE u = t /\ pc[t] \notin Switching
    <3>1. pc[t] = "upstream"
      BY <1>a, <1>2, <2>2, LockMoves DEF Switching
    <3>2. versions[cmd[t].op].status \in {"draft", "review"}
      BY <1>a, <1>2, <3>1 DEF LockStep, LockRow, ValidSnapshot
    <3>3. QED
      BY <2>1, <2>2, <3>2
  <2>3. QED
    BY <1>b, <1>c, <1>2, <2>1, <2>2
<1>3. ASSUME NEW t \in Txns, Rollback(t)
      PROVE  versions'[cmd'[u].op].status \in {"draft", "review"}
  <2>1. versions' = versions /\ u # t
    BY <1>a, <1>3, Ended DEF Rollback, dbVars, Switching
  <2>2. QED
    BY <1>c, <1>3, <2>1
<1>4. ASSUME NEW t \in Txns, NextVersionNumber(t)
      PROVE  versions'[cmd'[u].op].status \in {"draft", "review"}
  <2>1. versions' = versions /\ u # t
    BY <1>a, <1>4 DEF NextVersionNumber, dbVars, TypeOK
  <2>2. QED
    BY <1>c, <1>4, <2>1
<1>5. ASSUME NEW t \in Txns, ReadCurrent(t)
      PROVE  versions'[cmd'[u].op].status \in {"draft", "review"}
  <2>1. versions' = versions /\ cmd' = cmd /\ fresh' = fresh
        /\ pc[t] \in Switching
    BY <1>5 DEF ReadCurrent, dbVars, Switching
  <2>2. QED
    BY <1>b, <1>c, <1>5, <2>1
<1>6. ASSUME NEW t \in Txns, Accept(t) \/ Publish(t)
      PROVE  versions'[cmd'[u].op].status \in {"draft", "review"}
  <2>1. u # t
    BY <1>a, <1>6, Ended DEF Accept, Publish, Switching
  <2>2. pc[u] \in Switching /\ ~fresh[u] /\ cmd'[u] = cmd[u]
    BY <1>a, <1>6, <2>1, OthersKept
  <2>3. /\ cmd[u].op \in Ops /\ cmd[u].tool \in Tools
        /\ cmd[u].tool = ToolOf[cmd[u].op]
        /\ Holds(u, <<"tool", cmd[u].tool>>)
    BY <1>a, <2>2, HeldRows
  <2>4. versions'[cmd[u].op] = versions[cmd[u].op]
    BY <1>6, <2>1, <2>3, ToolKept
  <2>5. QED
    BY <1>a, <2>2, <2>4 DEF TargetInv
<1>7. ASSUME NEW o \in Ops, SubmitForReview(o)
      PROVE  versions'[cmd'[u].op].status \in {"draft", "review"}
  <2>1. UNCHANGED <<pc, cmd, fresh>>
    BY <1>7 DEF SubmitForReview
  <2>2. cmd[u].op \in Ops
    BY <1>a, <2>1, HeldRows
  <2>3. QED
    BY <1>a, <1>7, <2>1, <2>2, SubmitEffect DEF TargetInv
<1>8. ASSUME NEW v \in Upstreams, DisableUpstream(v)
      PROVE  versions'[cmd'[u].op].status \in {"draft", "review"}
  BY <1>8, <1>b DEF DisableUpstream
<1>9. CASE UNCHANGED vars
  BY <1>9, <1>b DEF vars, dbVars
<1>10. QED
  BY <1>1, <1>2, <1>3, <1>4, <1>5, <1>6, <1>7, <1>8, <1>9, StepKinds

\* Nobody else switches the version on offer of a tool that a session holds.
LEMMA CurrentStep == IInv /\ [Next]_vars => CurrentInv'
<1> DEFINE Good(u) ==
        /\ PublishedOf(cmd[u].tool) \subseteq {current[u]}
        /\ current[u] # None => /\ current[u] \in PublishedOf(cmd[u].tool)
                                /\ IsNewer(u, current[u])
<1> SUFFICES ASSUME IInv, [Next]_vars, NEW u \in Txns, pc'[u] \in Found
             PROVE  Good(u)'
  BY DEF CurrentInv
<1>a. TypeOK /\ CommandInv /\ LockInv /\ CurrentInv /\ PublicationConsistent
  BY DEF IInv
<1>b. ASSUME pc[u] \in Found, fresh'[u] = fresh[u], cmd'[u] = cmd[u],
             number'[u] = number[u], current'[u] = current[u],
             versions' = versions
      PROVE  Good(u)'
  BY <1>a, <1>b
  DEF CurrentInv, PublishedOf, VersionsOf, IsNewer, TargetNumber
<1>c. ASSUME NEW t \in Txns, u # t, versions' = versions,
             \/ Begin(t) \/ LockStep(t) \/ Rollback(t)
             \/ NextVersionNumber(t) \/ ReadCurrent(t)
      PROVE  Good(u)'
  BY <1>a, <1>b, <1>c, OthersKept
<1>1. ASSUME NEW t \in Txns, Begin(t) \/ NextVersionNumber(t) PROVE Good(u)'
  <2>1. versions' = versions
    BY <1>1 DEF Begin, NextVersionNumber, dbVars
  <2>2. u # t
    BY <1>a, <1>1 DEF Begin, NextVersionNumber, Goto, FirstLabel, TypeOK, Found
  <2>3. QED
    BY <1>c, <1>1, <2>1, <2>2
<1>2. ASSUME NEW t \in Txns, LockStep(t) PROVE Good(u)'
  <2>1. versions' = versions /\ UNCHANGED <<cmd, fresh, number, current>>
    BY <1>2 DEF LockStep, dbVars
  <2>2. u = t => pc[t] \in Found
    BY <1>a, <1>2, LockMoves DEF Found
  <2>3. QED
    BY <1>b, <1>c, <1>2, <2>1, <2>2
<1>3. ASSUME NEW t \in Txns, Rollback(t) PROVE Good(u)'
  <2>1. versions' = versions /\ u # t
    BY <1>a, <1>3, Ended DEF Rollback, dbVars, Found
  <2>2. QED
    BY <1>c, <1>3, <2>1
<1>4. ASSUME NEW t \in Txns, ReadCurrent(t) PROVE Good(u)'
  <2>1. versions' = versions /\ UNCHANGED <<cmd, fresh, number>>
        /\ pc[t] = "current"
    BY <1>4 DEF ReadCurrent, dbVars
  <2>2. current[t] = None /\ cmd[t].tool \in Tools
    BY <1>a, <2>1, BusyType DEF CommandInv, Found
  <2>3. CASE u = t /\ PublishedOf(cmd[t].tool) = {} /\ UNCHANGED current
    BY <2>1, <2>2, <2>3 DEF PublishedOf, VersionsOf
  <2>4. ASSUME u = t, NEW c \in PublishedOf(cmd[t].tool), IsNewer(t, c),
               current' = [current EXCEPT ![t] = c]
        PROVE  Good(u)'
    <3>1. current'[t] = c
      BY <1>a, <2>4 DEF TypeOK
    <3>2. PublishedOf(cmd[t].tool) \subseteq {c}
      BY <1>a, <2>2 DEF PublicationConsistent
    <3>3. QED
      BY <2>1, <2>4, <3>1, <3>2
      DEF PublishedOf, VersionsOf, IsNewer, TargetNumber
  <2>5. QED
    BY <1>c, <1>4, <2>1, <2>3, <2>4 DEF ReadCurrent
<1>5. ASSUME NEW t \in Txns, Accept(t) \/ Publish(t) PROVE Good(u)'
  <2>1. u # t
    BY <1>a, <1>5, Ended DEF Accept, Publish, Found
  <2>2. /\ pc[u] \in Found /\ pc[u] \in Switching
        /\ fresh'[u] = fresh[u] /\ cmd'[u] = cmd[u]
        /\ number'[u] = number[u] /\ current'[u] = current[u]
    BY <1>a, <1>5, <2>1, OthersKept DEF Found, Switching
  <2>3. /\ cmd[u].op \in Ops /\ cmd[u].tool \in Tools
        /\ cmd[u].tool = ToolOf[cmd[u].op]
        /\ Holds(u, <<"tool", cmd[u].tool>>)
    BY <1>a, <2>2, HeldRows
  <2>4. /\ \A o \in Ops : ToolOf[o] = cmd[u].tool => versions'[o] = versions[o]
        /\ PublishedOf(cmd[u].tool)' = PublishedOf(cmd[u].tool)
    <3>1. \A n \in Tools : Holds(u, <<"tool", n>>) =>
             /\ \A o \in Ops : ToolOf[o] = n => versions'[o] = versions[o]
             /\ PublishedOf(n)' = PublishedOf(n)
      BY <1>5, <2>1, ToolKept
    <3>2. QED
      BY <2>2, <2>3, <3>1 DEF PublishedOf, VersionsOf
  <2>5. /\ PublishedOf(cmd[u].tool) \subseteq {current[u]}
        /\ current[u] # None => /\ current[u] \in PublishedOf(cmd[u].tool)
                                /\ IsNewer(u, current[u])
    BY <1>a, <2>2 DEF CurrentInv
  <2>6. current[u] # None => ToolOf[current[u]] = cmd[u].tool /\ current[u] \in Ops
    BY <2>5 DEF PublishedOf, VersionsOf
  <2>7. current[u] # None => IsNewer(u, current[u])'
    BY <2>2, <2>3, <2>4, <2>5, <2>6 DEF IsNewer, TargetNumber
  <2>8. QED
    BY <2>2, <2>4, <2>5, <2>7
<1>6. ASSUME NEW o \in Ops, SubmitForReview(o) PROVE Good(u)'
  <2>1. UNCHANGED <<pc, cmd, number, fresh, current>>
    BY <1>6 DEF SubmitForReview
  <2>2. cmd[u].op \in Ops /\ cmd[u].tool \in Tools
    BY <1>a, <2>1, HeldRows DEF Found, Switching
  <2>3. /\ PublishedOf(cmd[u].tool)' = PublishedOf(cmd[u].tool)
        /\ \A p \in Ops : versions'[p].number = versions[p].number
    <3>1. \A n \in Tools : PublishedOf(n)' = PublishedOf(n)
      BY <1>a, <1>6, SubmitEffect
    <3>2. PublishedOf(cmd[u].tool)' = PublishedOf(cmd[u].tool)
      BY <2>1, <2>2, <3>1 DEF PublishedOf, VersionsOf
    <3>3. QED
      BY <1>a, <1>6, <3>2, SubmitEffect
  <2>4. /\ PublishedOf(cmd[u].tool) \subseteq {current[u]}
        /\ current[u] # None => /\ current[u] \in PublishedOf(cmd[u].tool)
                                /\ IsNewer(u, current[u])
    BY <1>a, <2>1 DEF CurrentInv
  <2>5. current[u] # None => IsNewer(u, current[u])'
    BY <2>1, <2>2, <2>3, <2>4 DEF IsNewer, TargetNumber, PublishedOf, VersionsOf
  <2>6. QED
    BY <2>1, <2>3, <2>4, <2>5
<1>7. ASSUME NEW v \in Upstreams, DisableUpstream(v) PROVE Good(u)'
  BY <1>7, <1>b DEF DisableUpstream
<1>8. CASE UNCHANGED vars
  BY <1>8, <1>b DEF vars, dbVars
<1>9. QED
  BY <1>1, <1>2, <1>3, <1>4, <1>5, <1>6, <1>7, <1>8, StepKinds

(***************************************************************************)
(* What is on offer.                                                       *)
(***************************************************************************)
\* Who writes versions, bindings and tools.
LEMMA Writers ==
    ASSUME [Next]_vars
    PROVE  \/ UNCHANGED <<tools, versions, bindings, accepted>>
           \/ \E t \in Txns : Accept(t) \/ Publish(t)
           \/ \E o \in Ops : SubmitForReview(o)
BY StepKinds
DEF Begin, LockStep, Rollback, NextVersionNumber, ReadCurrent, DisableUpstream,
    vars, dbVars

\* The versions of every tool after a publication.
LEMMA PublishedAfter ==
    ASSUME IInv, NEW t \in Txns, Publish(t), NEW n \in Tools
    PROVE  PublishedOf(n)' = IF n = cmd[t].tool THEN {cmd[t].op}
                             ELSE PublishedOf(n)
<1>1. /\ cmd[t].op \in Ops /\ cmd[t].tool = ToolOf[cmd[t].op]
      /\ PublishedOf(cmd[t].tool) \subseteq {current[t]}
      /\ current[t] # None => ToolOf[current[t]] = cmd[t].tool
  BY PublishFinds
<1>2. /\ versions'[cmd[t].op].status = "published"
      /\ current[t] # None => versions'[current[t]].status = "retired"
      /\ \A o \in Ops : o # cmd[t].op /\ o # current[t] =>
            versions'[o] = versions[o]
  BY PublishWrites
<1>3. \A o \in Ops : o \in PublishedOf(n)' <=>
         IF n = cmd[t].tool THEN o = cmd[t].op ELSE o \in PublishedOf(n)
  BY <1>1, <1>2, AbsentAssumption DEF PublishedOf, VersionsOf
<1>4. PublishedOf(n)' \subseteq Ops /\ PublishedOf(n) \subseteq Ops
  BY DEF PublishedOf, VersionsOf
<1>5. QED
  BY <1>1, <1>3, <1>4

\* A publication is switched as a whole.
LEMMA ConsistentStep == IInv /\ [Next]_vars => PublicationConsistent'
<1> SUFFICES ASSUME IInv, [Next]_vars PROVE PublicationConsistent'
  OBVIOUS
<1>a. TypeOK /\ PublicationConsistent
  BY DEF IInv
<1>1. CASE UNCHANGED <<tools, versions, bindings, accepted>>
  BY <1>a, <1>1 DEF PublicationConsistent, PublishedOf, VersionsOf
<1>2. ASSUME NEW t \in Txns, Accept(t) PROVE PublicationConsistent'
  <2>1. /\ cmd[t].op \in Ops /\ cmd[t].tool = ToolOf[cmd[t].op]
        /\ cmd[t].tool \in Tools
        /\ versions[cmd[t].op].status = "none"
        /\ versions'[cmd[t].op].status = "draft"
        /\ bindings'[cmd[t].op] = "draft"
        /\ \A o \in Ops : o # cmd[t].op => /\ versions'[o] = versions[o]
                                           /\ bindings'[o] = bindings[o]
        /\ accepted' = accepted \union {cmd[t].op}
    BY <1>2, AcceptEffect
  <2>2. /\ tools'[cmd[t].tool] # "none"
        /\ \A n \in Tools : /\ tools'[n] = "active" <=> tools[n] = "active"
                            /\ tools[n] # "none" => tools'[n] # "none"
    <3>1. /\ tools'[cmd[t].tool] = IF tools[cmd[t].tool] = "none" THEN "disabled"
                                  ELSE tools[cmd[t].tool]
          /\ \A n \in Tools : n # cmd[t].tool => tools'[n] = tools[n]
      BY <1>2, AcceptEffect
    <3>2. /\ tools'[cmd[t].tool] # "none"
          /\ tools'[cmd[t].tool] = "active" <=> tools[cmd[t].tool] = "active"
      BY <3>1
    <3>3. QED
      BY <3>1, <3>2
  <2>3. \A n \in Tools : PublishedOf(n)' = PublishedOf(n)
    BY <2>1 DEF PublishedOf, VersionsOf
  <2>4. ASSUME NEW o \in Ops
        PROVE  /\ versions'[o].status = "published" <=> bindings'[o] = "published"
               /\ versions'[o].status = "retired" <=> bindings'[o] = "disabled"
               /\ o \in accepted' <=> versions'[o].status # "none"
               /\ versions'[o].status # "none" => tools'[ToolOf[o]] # "none"
    <3>1. CASE o = cmd[t].op
      BY <2>1, <2>2, <3>1
    <3>2. CASE o # cmd[t].op
      <4>1. ToolOf[o] \in Tools
        BY MappingAssumption
      <4>2. QED
        BY <1>a, <2>1, <2>2, <3>2, <4>1 DEF PublicationConsistent
    <3>3. QED
      BY <3>1, <3>2
  <2>5. QED
    BY <1>a, <2>2, <2>3, <2>4 DEF PublicationConsistent
<1>3. ASSUME NEW t \in Txns, Publish(t) PROVE PublicationConsistent'
  <2>1. /\ cmd[t].op \in Ops /\ cmd[t].tool = ToolOf[cmd[t].op]
        /\ cmd[t].tool \in Tools
        /\ current[t] # None =>
              /\ current[t] \in Ops /\ ToolOf[current[t]] = cmd[t].tool
              /\ versions[current[t]].status = "published"
    BY <1>3, PublishFinds
  <2>2. /\ versions'[cmd[t].op].status = "published"
        /\ bindings'[cmd[t].op] = "published"
        /\ current[t] # None =>
              /\ versions'[current[t]].status = "retired"
              /\ bindings'[current[t]] = "disabled"
        /\ \A o \in Ops : o # cmd[t].op /\ o # current[t] =>
              /\ versions'[o] = versions[o]
              /\ bindings'[o] = bindings[o]
    BY <1>3, PublishWrites
  <2>3. /\ tools'[cmd[t].tool] = "active"
        /\ \A n \in Tools : n # cmd[t].tool => tools'[n] = tools[n]
        /\ accepted' = accepted \union {cmd[t].op}
    BY <1>3, PublishWrites
  <2>4. ASSUME NEW o \in Ops
        PROVE  /\ versions'[o].status = "published" <=> bindings'[o] = "published"
               /\ versions'[o].status = "retired" <=> bindings'[o] = "disabled"
               /\ o \in accepted' <=> versions'[o].status # "none"
               /\ versions'[o].status # "none" => tools'[ToolOf[o]] # "none"
    <3>1. CASE o = cmd[t].op
      BY <2>1, <2>2, <2>3, <3>1
    <3>2. CASE o # cmd[t].op /\ o = current[t]
      BY <1>a, <2>1, <2>2, <2>3, <3>2, AbsentAssumption
      DEF PublicationConsistent
    <3>3. CASE o # cmd[t].op /\ o # current[t]
      BY <1>a, <2>2, <2>3, <3>3, MappingAssumption DEF PublicationConsistent
    <3>4. QED
      BY <3>1, <3>2, <3>3
  <2>5. ASSUME NEW n \in Tools
        PROVE  /\ tools'[n] = "active" <=> PublishedOf(n)' # {}
               /\ \A o, p \in PublishedOf(n)' : o = p
    BY <1>a, <1>3, <2>3, PublishedAfter DEF PublicationConsistent
  <2>6. QED
    BY <2>4, <2>5 DEF PublicationConsistent
<1>4. ASSUME NEW o \in Ops, SubmitForReview(o) PROVE PublicationConsistent'
  <2>1. UNCHANGED <<tools, bindings, accepted>>
    BY <1>4 DEF SubmitForReview
  <2>2. /\ versions[o].status = "draft" /\ versions'[o].status = "review"
        /\ \A p \in Ops : p # o => versions'[p] = versions[p]
        /\ \A n \in Tools : PublishedOf(n)' = PublishedOf(n)
    BY <1>a, <1>4, SubmitEffect
  <2>3. QED
    BY <1>a, <2>1, <2>2 DEF PublicationConsistent
<1>5. QED
  BY <1>1, <1>2, <1>3, <1>4, Writers

\* Retired versions have a successor ...
LEMMA RetiredStep == IInv /\ [Next]_vars => RetiredInv'
<1> SUFFICES ASSUME IInv, [Next]_vars, NEW p \in Ops,
                    versions'[p].status = "retired"
             PROVE  PublishedOf(ToolOf[p])' # {}
  BY DEF RetiredInv
<1>a. TypeOK /\ RetiredInv /\ ToolOf[p] \in Tools
  BY MappingAssumption DEF IInv
<1>1. CASE UNCHANGED <<tools, versions, bindings, accepted>>
  BY <1>a, <1>1 DEF RetiredInv, PublishedOf, VersionsOf
<1>2. ASSUME NEW t \in Txns, Accept(t) PROVE PublishedOf(ToolOf[p])' # {}
  <2>1. /\ cmd[t].op \in Ops
        /\ versions[cmd[t].op].status = "none"
        /\ versions'[cmd[t].op].status = "draft"
        /\ \A o \in Ops : o # cmd[t].op => versions'[o] = versions[o]
    BY <1>2, AcceptEffect
  <2>2. PublishedOf(ToolOf[p])' = PublishedOf(ToolOf[p])
    BY <2>1 DEF PublishedOf, VersionsOf
  <2>3. QED
    BY <1>a, <2>1, <2>2 DEF RetiredInv
<1>3. ASSUME NEW t \in Txns, Publish(t) PROVE PublishedOf(ToolOf[p])' # {}
  <2>1. /\ cmd[t].op \in Ops
        /\ current[t] # None => ToolOf[current[t]] = cmd[t].tool
    BY <1>3, PublishFinds
  <2>2. /\ versions'[cmd[t].op].status = "published"
        /\ \A o \in Ops : o # cmd[t].op /\ o # current[t] =>
              versions'[o] = versions[o]
    BY <1>3, PublishWrites
  <2>3. CASE ToolOf[p] = cmd[t].tool
    BY <1>a, <1>3, <2>3, PublishedAfter
  <2>4. CASE ToolOf[p] # cmd[t].tool
    <3>1. versions[p].status = "retired"
      BY <2>1, <2>2, <2>4, AbsentAssumption
    <3>2. QED
      BY <1>a, <1>3, <2>4, <3>1, PublishedAfter DEF RetiredInv
  <2>5. QED
    BY <2>3, <2>4
<1>4. ASSUME NEW o \in Ops, SubmitForReview(o) PROVE PublishedOf(ToolOf[p])' # {}
  <2>1. versions[p].status = "retired"
    BY <1>a, <1>4, SubmitEffect
  <2>2. QED
    BY <1>a, <1>4, <2>1, SubmitEffect DEF RetiredInv
<1>5. QED
  BY <1>1, <1>2, <1>3, <1>4, Writers

\* ... and it is newer than they are.
LEMMA NewestStep == IInv /\ [Next]_vars => PublishedIsNewest'
<1> SUFFICES ASSUME IInv, [Next]_vars, NEW o \in Ops, NEW p \in Ops,
                    ToolOf[o] = ToolOf[p],
                    versions'[o].status = "published",
                    versions'[p].status = "retired"
             PROVE  versions'[p].number < versions'[o].number
  BY DEF PublishedIsNewest
<1>a. TypeOK /\ RetiredInv /\ PublishedIsNewest
  BY DEF IInv
<1>b. ToolOf[p] \in Tools
  BY MappingAssumption
<1>1. CASE UNCHANGED <<tools, versions, bindings, accepted>>
  BY <1>a, <1>1 DEF PublishedIsNewest
<1>2. ASSUME NEW t \in Txns, Accept(t)
      PROVE  versions'[p].number < versions'[o].number
  <2>1. /\ versions'[cmd[t].op].status = "draft"
        /\ \A q \in Ops : q # cmd[t].op => versions'[q] = versions[q]
    BY <1>2, AcceptEffect
  <2>2. QED
    BY <1>a, <2>1 DEF PublishedIsNewest
<1>3. ASSUME NEW t \in Txns, Publish(t)
      PROVE  versions'[p].number < versions'[o].number
  <2>1. /\ cmd[t].op \in Ops /\ cmd[t].tool = ToolOf[cmd[t].op]
        /\ PublishedOf(cmd[t].tool) \subseteq {current[t]}
        /\ current[t] # None =>
              /\ current[t] \in Ops /\ current[t] # cmd[t].op
              /\ ToolOf[current[t]] = cmd[t].tool
              /\ versions[current[t]].status = "published"
              /\ versions[current[t]].number < TargetNumber(t)
    BY <1>3, PublishFinds
  <2>2. /\ versions'[cmd[t].op].status = "published"
        /\ versions'[cmd[t].op].number = TargetNumber(t)
        /\ current[t] # None =>
              /\ versions'[current[t]].status = "retired"
              /\ versions'[current[t]].number = versions[current[t]].number
        /\ \A q \in Ops : q # cmd[t].op /\ q # current[t] =>
              versions'[q] = versions[q]
    BY <1>3, PublishWrites
  <2>3. CASE ToolOf[p] # cmd[t].tool
    <3>1. versions'[o] = versions[o] /\ versions'[p] = versions[p]
      BY <2>1, <2>2, <2>3, AbsentAssumption
    <3>2. QED
      BY <1>a, <3>1 DEF PublishedIsNewest
  <2>4. CASE ToolOf[p] = cmd[t].tool
    <3>1. o = cmd[t].op
      <4>1. o \in PublishedOf(ToolOf[p])'
        BY DEF PublishedOf, VersionsOf
      <4>2. QED
        BY <1>3, <1>b, <2>4, <4>1, PublishedAfter
    <3>2. CASE p = current[t]
      BY <2>1, <2>2, <3>1, <3>2, AbsentAssumption
    <3>3. CASE p # current[t]
      <4>1. versions'[p] = versions[p]
        BY <2>2, <3>1, <3>3
      <4>2. PublishedOf(ToolOf[p]) # {}
        BY <1>a, <4>1 DEF RetiredInv
      <4>3. current[t] \in PublishedOf(ToolOf[p])
        BY <2>1, <2>4, <4>2
      <4>4. current[t] # None
        BY <4>3, AbsentAssumption DEF PublishedOf, VersionsOf
      <4>5. versions[p].number < versions[current[t]].number
        BY <1>a, <2>1, <2>4, <4>1, <4>4 DEF PublishedIsNewest
      <4>6. /\ versions[p].number \in Nat /\ versions[current[t]].number \in Nat
            /\ TargetNumber(t) \in Nat
        <5>1. \A q \in Ops : versions[q].number \in Nat
          BY <1>a, VersionUpdate DEF TypeOK
        <5>2. QED
          BY <1>a, <2>1, <4>4, <5>1 DEF TargetNumber, TypeOK
      <4>7. QED
        BY <2>1, <2>2, <3>1, <4>1, <4>4, <4>5, <4>6
    <3>4. QED
      BY <3>2, <3>3
  <2>5. QED
    BY <2>3, <2>4
<1>4. ASSUME NEW q \in Ops, SubmitForReview(q)
      PROVE  versions'[p].number < versions'[o].number
  BY <1>a, <1>4, SubmitEffect DEF PublishedIsNewest
<1>5. QED
  BY <1>1, <1>2, <1>3, <1>4, Writers

(***************************************************************************)
(* The invariant is inductive.                                             *)
(***************************************************************************)
\* It holds in an empty catalog ...
LEMMA IInvInit == Init => IInv
<1> SUFFICES ASSUME Init PROVE IInv
  OBVIOUS
<1>1. TypeOK
  BY TypeInit
<1>2. CommandInv /\ OperationInv /\ UpstreamInv /\ NumberInv /\ TargetInv
      /\ CurrentInv
  BY DEF Init, CommandInv, OperationInv, UpstreamInv, NumberInv, TargetInv,
         CurrentInv, Switching, Found
<1>3. LockInv
  BY AbsentAssumption DEF Init, LockInv, Holds, Switching
<1>4. \A o \in Ops : versions[o].status = "none"
  BY DEF Init, NoVersion
<1>5. \A n \in Tools : PublishedOf(n) = {}
  BY <1>4 DEF PublishedOf, VersionsOf
<1>6. RetiredInv /\ PublicationConsistent /\ PublishedIsNewest
  BY <1>4, <1>5 DEF Init, RetiredInv, PublicationConsistent, PublishedIsNewest
<1>7. QED
  BY <1>1, <1>2, <1>3, <1>6 DEF IInv

\* ... and every step keeps it, ...
LEMMA IInvStep == IInv /\ [Next]_vars => IInv'
BY TypeStep, CommandStep, LockInvStep, OperationStep, UpstreamStep, NumberStep,
   TargetStep, CurrentStep, RetiredStep, ConsistentStep, NewestStep
DEF IInv

\* ... so it holds in every reachable state of the catalog.
THEOREM CatalogInvariance == Spec => []IInv
BY IInvInit, IInvStep, PTL DEF Spec

(***************************************************************************)
(* The safety of the catalog.                                              *)
(***************************************************************************)
\* Every variable has its type in every reachable state.
THEOREM CatalogTypeCorrect == Spec => []TypeOK
<1>1. IInv => TypeOK
  BY DEF IInv
<1>2. QED
  BY <1>1, CatalogInvariance, PTL

\* Whatever administrators do at once, versions, bindings and tools agree
\* after every commit, one version of a tool is on offer at most, and it is
\* newer than all that were on offer before.
THEOREM CatalogOffer == Spec => []OfferIsSound
<1>1. IInv => OfferIsSound
  BY DEF IInv, OfferIsSound
<1>2. QED
  BY <1>1, CatalogInvariance, PTL

\* The unique indexes refuse nothing that the row locks have let through.
LEMMA LocksAreEnough == IInv => LocksSuffice
<1> SUFFICES ASSUME IInv, NEW t \in Txns
             PROVE  /\ pc[t] \in {"accept", "commit"} => ~NumberTaken(t)
                    /\ ~SecondPublished(t)
  BY DEF LocksSuffice
<1>a. TypeOK /\ NumberInv /\ CurrentInv
  BY DEF IInv
<1>1. \A o \in Ops : versions[o].number \in Nat
  BY <1>a, VersionUpdate DEF TypeOK
<1>2. number[t] \in Nat
  BY <1>a DEF TypeOK
<1>3. ~NumberTaken(t)
  BY <1>a, <1>1, <1>2 DEF NumberInv, NumberTaken, VersionsOf
<1>4. ~SecondPublished(t)
  BY <1>a DEF CurrentInv, SecondPublished, Found
<1>5. QED
  BY <1>3, <1>4

\* A session that waits does so for a row that another session holds.
LEMMA WaitsForHolder ==
    ASSUME IInv, NEW t \in Txns, NEW u \in Txns, WaitsFor(t, u)
    PROVE  /\ u # t /\ pc[t] \in LockLabels /\ cmd[t] \in Commands
           /\ cmd[t].op \in Ops /\ cmd[t].tool \in Tools
           /\ Wanted(t) \in Rows /\ Holds(u, Wanted(t)) /\ ~Holds(t, Wanted(t))
<1>a. TypeOK /\ CommandInv /\ LockInv
  BY DEF IInv
<1>1. pc[t] \in LockLabels /\ lock[Wanted(t)] = u /\ u # t
  BY DEF WaitsFor, Granted
<1>2. pc[t] # "idle"
  BY <1>1 DEF LockLabels
<1>3. cmd[t] \in Commands /\ cmd[t].op \in Ops /\ cmd[t].tool \in Tools
  BY <1>a, <1>2, BusyType
<1>4. Wanted(t) \in Rows
  BY <1>a, <1>1, WantedType
<1>5. QED
  BY <1>a, <1>1, <1>3, <1>4 DEF LockInv

\* Whoever holds a version or a binding on the publication path holds its tool.
LEMMA HoldsToolToo ==
    ASSUME IInv, NEW u \in Txns, NEW o \in Ops,
           cmd[u].kind = "publish", cmd[u].tool = ToolOf[cmd[u].op],
           Holds(u, <<"version", o>>) \/ Holds(u, <<"binding", o>>)
    PROVE  Holds(u, <<"tool", ToolOf[o]>>)
<1>a. TypeOK /\ CommandInv /\ CurrentInv
  BY DEF IInv
<1>1. CASE o = cmd[u].op
  BY <1>a, <1>1 DEF Holds, CommandInv, Switching
<1>2. CASE o # cmd[u].op
  <2>1. o = current[u] /\ pc[u] \in {"current_binding", "commit"}
    BY <1>2 DEF Holds
  <2>2. ToolOf[o] = cmd[u].tool
    BY <1>a, <2>1, AbsentAssumption
    DEF CurrentInv, Found, PublishedOf, VersionsOf
  <2>3. QED
    BY <2>1, <2>2 DEF Holds, Switching
<1>3. QED
  BY <1>1, <1>2

\* A publication of a tool's own version waits for the tool or the upstream
\* only: of versions and bindings it is sure once it has the tool.
LEMMA PublicationWaits ==
    ASSUME IInv, NEW t \in Txns, NEW u \in Txns, WaitsFor(t, u),
           cmd[t].kind = "publish", cmd[t].tool = ToolOf[cmd[t].op],
           cmd[u].kind = "publish", cmd[u].tool = ToolOf[cmd[u].op]
    PROVE  pc[t] \in {"tool", "upstream"}
<1>a. TypeOK /\ CommandInv /\ CurrentInv /\ LockInv
  BY DEF IInv
<1>b. /\ u # t /\ pc[t] \in LockLabels
      /\ cmd[t].op \in Ops /\ cmd[t].tool \in Tools
      /\ Wanted(t) \in Rows /\ Holds(u, Wanted(t))
  BY WaitsForHolder
<1>1. pc[t] \in {"tool", "version", "binding", "upstream", "current_version",
               "current_binding"}
  BY <1>a, <1>b DEF CommandInv, LockLabels, Labels
<1>2. SUFFICES ASSUME pc[t] \in {"version", "binding", "current_version",
                                 "current_binding"}
               PROVE  FALSE
  BY <1>1
<1>3. Holds(t, <<"tool", cmd[t].tool>>)
  BY <1>2 DEF Holds, Switching
<1>4. PICK o \in Ops : /\ Wanted(t) \in {<<"version", o>>, <<"binding", o>>}
                       /\ ToolOf[o] = cmd[t].tool
  <2>1. CASE pc[t] \in {"version", "binding"}
    BY <1>b, <2>1, WantedIs
  <2>2. CASE pc[t] \in {"current_version", "current_binding"}
    <3>1. current[t] \in Ops /\ ToolOf[current[t]] = cmd[t].tool
      BY <1>a, <2>2 DEF CommandInv, CurrentInv, Found, PublishedOf, VersionsOf
    <3>2. QED
      BY <2>2, <3>1, WantedIs
  <2>3. QED
    BY <1>2, <2>1, <2>2
<1>5. Holds(u, <<"tool", cmd[t].tool>>)
  BY <1>b, <1>4, HoldsToolToo
<1>6. <<"tool", cmd[t].tool>> \in Rows
  BY <1>b DEF Rows
<1>7. QED
  BY <1>a, <1>b, <1>3, <1>5, <1>6, Exclusive

\* Whoever holds an upstream on the publication path has all it can wait for.
LEMMA PublicationEnds ==
    ASSUME IInv, NEW S \in SUBSET Txns, Deadlocked(S),
           \A t \in S : cmd[t].kind = "publish" /\ cmd[t].tool = ToolOf[cmd[t].op]
    PROVE  FALSE
<1>a. TypeOK /\ CommandInv
  BY DEF IInv
<1>1. \A t \in S : pc[t] \in {"tool", "upstream"} /\ \E u \in S : WaitsFor(t, u)
  BY PublicationWaits DEF Deadlocked
<1>2. \A t \in S : pc[t] = "tool"
  <2>1. SUFFICES ASSUME NEW t \in S, pc[t] = "upstream" PROVE FALSE
    BY <1>1
  <2>2. PICK u \in S : WaitsFor(t, u)
    BY <1>1
  <2>3. Holds(u, <<"upstream", UpstreamOf[cmd[t].op]>>)
    BY <2>1, <2>2, WaitsForHolder, WantedIs
  <2>4. pc[u] \notin {"tool", "upstream"}
    BY <2>3 DEF Holds, Switching
  <2>5. QED
    BY <1>1, <2>4
<1>3. PICK t \in S : TRUE
  BY DEF Deadlocked
<1>4. PICK u \in S : WaitsFor(t, u)
  BY <1>1
<1>5. Holds(u, <<"tool", cmd[t].tool>>)
  BY <1>2, <1>4, WaitsForHolder, WantedIs
<1>6. pc[u] # "tool"
  BY <1>5 DEF Holds, Switching
<1>7. QED
  BY <1>2, <1>6

\* Reviews take the operation, the upstream and the tool, in this order.
LEMMA ReviewsEnd ==
    ASSUME IInv, NEW S \in SUBSET Txns, Deadlocked(S),
           \A t \in S : cmd[t].kind = "review"
    PROVE  FALSE
<1>a. TypeOK /\ CommandInv
  BY DEF IInv
<1>1. \A t \in S : /\ \E u \in S : WaitsFor(t, u)
                   /\ pc[t] \in {"operation", "review_upstream", "review_tool",
                                 "add_tool"}
  BY <1>a, WaitsForHolder
  DEF Deadlocked, CommandInv, LockLabels, Labels, Switching
<1>2. \A t \in S : pc[t] \in {"operation", "review_upstream"}
  <2>1. SUFFICES ASSUME NEW t \in S, pc[t] \in {"review_tool", "add_tool"}
                 PROVE  FALSE
    BY <1>1
  <2>2. PICK u \in S : WaitsFor(t, u)
    BY <1>1
  <2>3. Holds(u, <<"tool", cmd[t].tool>>)
    BY <2>1, <2>2, WaitsForHolder, WantedIs
  <2>4. pc[u] \notin {"operation", "review_upstream", "review_tool", "add_tool"}
    BY <2>3 DEF Holds, Switching
  <2>5. QED
    BY <1>1, <2>4
<1>3. \A t \in S : pc[t] = "operation"
  <2>1. SUFFICES ASSUME NEW t \in S, pc[t] = "review_upstream" PROVE FALSE
    BY <1>2
  <2>2. PICK u \in S : WaitsFor(t, u)
    BY <1>1
  <2>3. Holds(u, <<"upstream", UpstreamOf[cmd[t].op]>>)
    BY <2>1, <2>2, WaitsForHolder, WantedIs
  <2>4. pc[u] \notin {"operation", "review_upstream"}
    BY <2>3 DEF Holds, Switching
  <2>5. QED
    BY <1>2, <2>4
<1>4. PICK t \in S : TRUE
  BY DEF Deadlocked
<1>5. PICK u \in S : WaitsFor(t, u)
  BY <1>1
<1>6. Holds(u, <<"operation", cmd[t].op>>)
  BY <1>3, <1>5, WaitsForHolder, WantedIs
<1>7. pc[u] # "operation"
  BY <1>6 DEF Holds, Switching
<1>8. QED
  BY <1>3, <1>7

\* Publications do not deadlock each other, nor do reviews, and a transaction
\* that has its locks commits: the unique indexes never have to refuse it.
THEOREM CatalogLocking == Spec => []LockingIsSound
<1>1. IInv => OneOrderPerKind
  BY PublicationEnds, ReviewsEnd DEF OneOrderPerKind
<1>2. IInv => LockingIsSound
  BY <1>1, LocksAreEnough DEF LockingIsSound
<1>3. QED
  BY <1>2, CatalogInvariance, PTL

\* A commit moves versions forward only.
LEMMA ForwardStep == IInv /\ [Next]_vars => VersionsMoveForward
<1> SUFFICES ASSUME IInv, [Next]_vars, NEW o \in Ops
             PROVE  /\ Rank(versions[o].status) <= Rank(versions'[o].status)
                    /\ versions[o].status # "none" =>
                          versions'[o].number = versions[o].number
                    /\ versions[o].status # "retired"
                          /\ versions'[o].status = "retired"
                       => \E p \in Ops :
                             /\ ToolOf[p] = ToolOf[o]
                             /\ versions[p].status # "published"
                             /\ versions'[p].status = "published"
  BY DEF VersionsMoveForward
<1>a. TypeOK
  BY DEF IInv
<1>b. /\ Rank("none") = 0 /\ Rank("draft") = 1 /\ Rank("review") = 2
      /\ Rank("published") = 3 /\ Rank("retired") = 4
  BY DEF Rank
<1>c. /\ versions[o].status \in VersionStatuses
      /\ Rank(versions[o].status) \in Nat
  <2>1. versions[o].status \in VersionStatuses
    BY <1>a, VersionUpdate DEF TypeOK
  <2>2. QED
    BY <1>b, <2>1 DEF VersionStatuses
<1>1. CASE versions'[o] = versions[o]
  BY <1>c, <1>1
<1>2. ASSUME NEW t \in Txns, Accept(t), o = cmd[t].op
      PROVE  /\ versions[o].status = "none" /\ versions'[o].status = "draft"
  BY <1>2, AcceptEffect
<1>3. ASSUME NEW t \in Txns, Publish(t), o = cmd[t].op
      PROVE  /\ versions[o].status \in {"none", "draft", "review"}
             /\ versions'[o].status = "published"
             /\ versions[o].status # "none" =>
                   versions'[o].number = versions[o].number
  <2>1. /\ versions[o].status \in {"none", "draft", "review"}
        /\ versions[o].status # "none" => TargetNumber(t) = versions[o].number
    BY <1>3, PublishFinds
  <2>2. /\ versions'[o].status = "published"
        /\ versions'[o].number = TargetNumber(t)
    BY <1>3, PublishWrites
  <2>3. QED
    BY <2>1, <2>2
<1>4. ASSUME NEW t \in Txns, Publish(t), o = current[t]
      PROVE  /\ versions[o].status = "published"
             /\ versions'[o].status = "retired"
             /\ versions'[o].number = versions[o].number
             /\ cmd[t].op \in Ops /\ ToolOf[cmd[t].op] = ToolOf[o]
             /\ versions[cmd[t].op].status # "published"
             /\ versions'[cmd[t].op].status = "published"
  <2>1. current[t] # None
    BY <1>4, AbsentAssumption
  <2>2. /\ versions[o].status = "published"
        /\ cmd[t].op \in Ops /\ ToolOf[cmd[t].op] = ToolOf[o]
        /\ versions[cmd[t].op].status # "published"
    BY <1>4, <2>1, PublishFinds
  <2>3. /\ versions'[o].status = "retired"
        /\ versions'[o].number = versions[o].number
        /\ versions'[cmd[t].op].status = "published"
    BY <1>4, <2>1, PublishWrites
  <2>4. QED
    BY <2>2, <2>3
<1>5. ASSUME SubmitForReview(o)
      PROVE  /\ versions[o].status = "draft" /\ versions'[o].status = "review"
             /\ versions'[o].number = versions[o].number
  BY <1>a, <1>5, SubmitEffect
<1>6. \/ versions'[o] = versions[o]
      \/ \E t \in Txns : Accept(t) /\ o = cmd[t].op
      \/ \E t \in Txns : Publish(t) /\ o \in {cmd[t].op, current[t]}
      \/ SubmitForReview(o)
  <2>1. ASSUME NEW t \in Txns, Accept(t), o # cmd[t].op
        PROVE  versions'[o] = versions[o]
    BY <2>1, AcceptEffect
  <2>2. ASSUME NEW t \in Txns, Publish(t), o # cmd[t].op, o # current[t]
        PROVE  versions'[o] = versions[o]
    BY <2>2, PublishWrites
  <2>3. ASSUME NEW p \in Ops, SubmitForReview(p), o # p
        PROVE  versions'[o] = versions[o]
    BY <1>a, <2>3, SubmitEffect
  <2>4. QED
    BY <2>1, <2>2, <2>3, Writers
<1>7. QED
  BY <1>b, <1>1, <1>2, <1>3, <1>4, <1>5, <1>6

\* A commit publishes under an active upstream only.
LEMMA ActiveStep == IInv /\ [Next]_vars => PublishedWhileActive
<1> SUFFICES ASSUME IInv, [Next]_vars, NEW o \in Ops,
                    versions[o].status # "published",
                    versions'[o].status = "published"
             PROVE  upstreams[UpstreamOf[o]] = "active"
  BY DEF PublishedWhileActive
<1>a. TypeOK
  BY DEF IInv
<1>1. ASSUME NEW t \in Txns, Accept(t) PROVE FALSE
  BY <1>1, AcceptEffect
<1>2. ASSUME NEW t \in Txns, Publish(t) PROVE upstreams[UpstreamOf[o]] = "active"
  <2>1. upstreams[UpstreamOf[cmd[t].op]] = "active"
    BY <1>2, PublishFinds
  <2>2. o = cmd[t].op
    BY <1>2, PublishWrites, AbsentAssumption
  <2>3. QED
    BY <2>1, <2>2
<1>3. ASSUME NEW p \in Ops, SubmitForReview(p) PROVE FALSE
  BY <1>a, <1>3, SubmitEffect
<1>4. QED
  BY <1>1, <1>2, <1>3, Writers

\* No interleaving takes a version back, gives it another number, retires it
\* without a successor, or publishes it on an upstream that was disabled.
THEOREM CatalogHistory == Spec => HistoryIsSound
<1>1. IInv /\ [Next]_vars => [VersionsMoveForward /\ PublishedWhileActive]_vars
  BY ForwardStep, ActiveStep
<1>2. QED
  BY <1>1, CatalogInvariance, PTL DEF Spec, HistoryIsSound
=============================================================================
