--------------------------- MODULE CatalogPublish ---------------------------
(***************************************************************************)
(* How imported operations become published tools: ReviewImportedOperation,*)
(* SubmitToolVersionForReview, PublishTool, DirectPublishImportedOperation,*)
(* and DisableUpstream running against them.                               *)
(*                                                                         *)
(* A command is one database transaction of several statements.  Its       *)
(* SELECT ... FOR UPDATE statements take row locks in the code's order and *)
(* wait for one another; what it reads without a lock is what is committed *)
(* at that moment (READ COMMITTED).  All rows it writes are locked by then *)
(* or its own, so its writes appear together, with the commit.             *)
(*                                                                         *)
(* A review gives an operation at most one version and one binding, so an  *)
(* operation also names them.                                              *)
(***************************************************************************)
EXTENDS Integers, FiniteSets

CONSTANTS
    Txns,         \* the sessions of administrators, one command at a time
    Ops,          \* imported operations without conflict
    Tools,        \* canonical names
    Upstreams,
    ToolOf,       \* operation.generated_tool_name
    UpstreamOf,   \* operation.upstream_service_id
    Commands,     \* what a command may ask for
    Faults,       \* whether a transaction may fail or be cancelled
    None          \* no lock holder, no command, no current version

Kinds == {"review", "publish", "direct"}

ASSUME MappingAssumption ==
    /\ ToolOf \in [Ops -> Tools]
    /\ UpstreamOf \in [Ops -> Upstreams]
ASSUME CommandAssumption ==
    /\ Commands \subseteq [kind: Kinds, op: Ops, tool: Tools, digests_match: BOOLEAN]
    /\ \A c \in Commands :
          c.kind # "publish" => c.tool = ToolOf[c.op] /\ c.digests_match
ASSUME AbsentAssumption ==
    None \notin Txns /\ None \notin Ops /\ None \notin Commands
ASSUME FaultTypeAssumption == Faults \in BOOLEAN
ASSUME OpsAssumption == IsFiniteSet(Ops)

VARIABLES
    \* the database
    tools, versions, bindings, accepted, upstreams,
    lock,        \* row -> the transaction that holds it
    \* the transactions
    pc,          \* the statement that comes next
    cmd,
    number,      \* version_number, once read
    fresh,       \* the version is one this transaction creates
    current      \* the published version it found

dbVars == <<tools, versions, bindings, accepted, upstreams>>
vars == <<dbVars, lock, pc, cmd, number, fresh, current>>

VersionStatuses == {"none", "draft", "review", "published", "retired"}
ToolVersions ==
    [status: VersionStatuses \ {"none"}, number: Nat \ {0}]
NoVersion == [status |-> "none", number |-> 0]
BindingStatuses == {"none", "draft", "published", "disabled"}

Rows ==
    ({"operation", "version", "binding"} \X Ops)
        \union ({"tool"} \X Tools) \union ({"upstream"} \X Upstreams)

Labels ==
    {"idle",
     "operation", "review_upstream", "review_tool", "add_tool", "number",
     "accept",
     "direct_version", "direct_binding", "direct_tool",
     "tool", "version", "binding", "upstream",
     "current", "current_version", "current_binding", "commit"}

TypeOK ==
    /\ tools \in [Tools -> {"none", "disabled", "active"}]
    /\ versions \in [Ops -> ToolVersions \union {NoVersion}]
    /\ bindings \in [Ops -> BindingStatuses]
    /\ accepted \subseteq Ops
    /\ upstreams \in [Upstreams -> {"active", "disabled"}]
    /\ lock \in [Rows -> Txns \union {None}]
    /\ pc \in [Txns -> Labels]
    /\ cmd \in [Txns -> Commands \union {None}]
    /\ number \in [Txns -> Nat]
    /\ fresh \in [Txns -> BOOLEAN]
    /\ current \in [Txns -> Ops \union {None}]

Init ==
    /\ tools = [n \in Tools |-> "none"]
    /\ versions = [o \in Ops |-> NoVersion]
    /\ bindings = [o \in Ops |-> "none"]
    /\ accepted = {}
    /\ upstreams = [u \in Upstreams |-> "active"]
    /\ lock = [r \in Rows |-> None]
    /\ pc = [t \in Txns |-> "idle"]
    /\ cmd = [t \in Txns |-> None]
    /\ number = [t \in Txns |-> 0]
    /\ fresh = [t \in Txns |-> FALSE]
    /\ current = [t \in Txns |-> None]

-----------------------------------------------------------------------------
(***************************************************************************)
(* Row locks                                                               *)
(***************************************************************************)
\* The row the next FOR UPDATE statement asks for; for add_tool, the entry
\* of the unique index on the name, on which an uncommitted insert is waited
\* for in the same way.
Wanted(t) ==
    LET o == cmd[t].op IN
    CASE pc[t] = "operation" -> <<"operation", o>>
      [] pc[t] \in {"review_upstream", "upstream"} ->
            <<"upstream", UpstreamOf[o]>>
      [] pc[t] \in {"review_tool", "add_tool", "direct_tool", "tool"} ->
            <<"tool", cmd[t].tool>>
      [] pc[t] \in {"direct_version", "version"} -> <<"version", o>>
      [] pc[t] \in {"direct_binding", "binding"} -> <<"binding", o>>
      [] pc[t] = "current_version" -> <<"version", current[t]>>
      [] pc[t] = "current_binding" -> <<"binding", current[t]>>

LockLabels ==
    Labels \ {"idle", "number", "accept", "current", "commit"}

\* A tool that does not exist has no row to wait for: the FOR UPDATE comes
\* back empty at once.
NoRow(t) == pc[t] \in {"review_tool", "tool"} /\ tools[cmd[t].tool] = "none"

Granted(t) == NoRow(t) \/ lock[Wanted(t)] \in {None, t}

WaitsFor(t, u) ==
    /\ pc[t] \in LockLabels
    /\ ~Granted(t)
    /\ lock[Wanted(t)] = u

\* Every transaction of the set waits for another of the set.
Deadlocked(S) == S # {} /\ \A t \in S : \E u \in S : WaitsFor(t, u)

Goto(t, label) == pc' = [pc EXCEPT ![t] = label]

\* Mutation: reviews read the tool's row without locking it.
LockRow_ReviewToolFree(t, label) ==
    /\ pc[t] \in LockLabels
    /\ Granted(t)
    /\ lock' = IF pc[t] = "review_tool" THEN lock
               ELSE [lock EXCEPT ![Wanted(t)] = t]
    /\ Goto(t, label)

\* Mutation: the upstream is read without a lock.
LockRow_UpstreamFree(t, label) ==
    /\ pc[t] \in LockLabels
    /\ Granted(t)
    /\ lock' = IF pc[t] = "upstream" THEN lock
               ELSE [lock EXCEPT ![Wanted(t)] = t]
    /\ Goto(t, label)

\* SELECT ... FOR UPDATE returns with the row locked.
LockRow(t, label) ==
    /\ pc[t] \in LockLabels
    /\ Granted(t)
    /\ lock' = [lock EXCEPT ![Wanted(t)] = t]
    /\ Goto(t, label)

Forget(t) ==
    /\ pc' = [pc EXCEPT ![t] = "idle"]
    /\ cmd' = [cmd EXCEPT ![t] = None]
    /\ number' = [number EXCEPT ![t] = 0]
    /\ fresh' = [fresh EXCEPT ![t] = FALSE]
    /\ current' = [current EXCEPT ![t] = None]

\* Mutation: a session is not closed and keeps its locks.
End_KeepsLocks(t) == Forget(t) /\ UNCHANGED lock

\* Commit or rollback: every lock is released and the session closed.
End(t) ==
    /\ lock' = [r \in Rows |-> IF lock[r] = t THEN None ELSE lock[r]]
    /\ Forget(t)

\* The unit of work leaves without a commit: nothing was written.
Rollback(t) == End(t) /\ UNCHANGED dbVars

-----------------------------------------------------------------------------
(***************************************************************************)
(* ReviewImportedOperation, alone or as the first part of a direct         *)
(* publication                                                             *)
(***************************************************************************)
FirstLabel(kind) == IF kind = "publish" THEN "tool" ELSE "operation"

Begin(t) ==
    /\ pc[t] = "idle"
    /\ \E c \in Commands :
          /\ cmd' = [cmd EXCEPT ![t] = c]
          /\ Goto(t, FirstLabel(c.kind))
    /\ UNCHANGED <<dbVars, lock, number, fresh, current>>

\* An accepted operation is answered with what it already produced.
LockOperation(t) ==
    /\ pc[t] = "operation"
    /\ \/ /\ cmd[t].op \notin accepted
          /\ LockRow(t, "review_upstream")
          /\ UNCHANGED <<cmd, number, fresh, current>>
       \/ /\ cmd[t].op \in accepted
          /\ cmd[t].kind = "direct"
          /\ LockRow(t, "direct_version")
          /\ UNCHANGED <<cmd, number, fresh, current>>
       \/ /\ cmd[t].op \in accepted
          /\ cmd[t].kind = "review"
          /\ Granted(t)
          /\ End(t)
    /\ UNCHANGED dbVars

LockReviewUpstream(t) ==
    /\ pc[t] = "review_upstream"
    /\ upstreams[UpstreamOf[cmd[t].op]] = "active"
    /\ LockRow(t, "review_tool")
    /\ UNCHANGED <<dbVars, cmd, number, fresh, current>>

\* get_tool_by_name_for_update
LockReviewTool(t) ==
    /\ pc[t] = "review_tool"
    /\ IF NoRow(t) THEN Goto(t, "add_tool") /\ UNCHANGED lock
                   ELSE LockRow(t, "number")
    /\ UNCHANGED <<dbVars, cmd, number, fresh, current>>

\* The insert waits for an uncommitted one of the same name, and is refused
\* by the unique index if that one commits.
AddTool(t) ==
    /\ pc[t] = "add_tool"
    /\ tools[cmd[t].tool] = "none"
    /\ LockRow(t, "number")
    /\ UNCHANGED <<dbVars, cmd, number, fresh, current>>

VersionsOf(n) == {o \in Ops : ToolOf[o] = n /\ versions[o].status # "none"}

\* Mutation: the greatest committed number, without adding one.
NextNumbers_NoIncrement(n) ==
    LET used == {versions[o].number : o \in VersionsOf(n)} IN
    {k \in 0..Cardinality(Ops) :
        (\A j \in used : j <= k) /\ k \in used \union {0}}

\* next_version_number: one more than the greatest committed number.
NextNumbers(n) ==
    LET used == {versions[o].number : o \in VersionsOf(n)} IN
    {k \in 1..(Cardinality(Ops) + 1) :
        (\A j \in used : j < k) /\ k - 1 \in used \union {0}}

NextVersionNumber(t) ==
    /\ pc[t] = "number"
    /\ \E k \in NextNumbers(cmd[t].tool) : number' = [number EXCEPT ![t] = k]
    /\ fresh' = [fresh EXCEPT ![t] = TRUE]
    /\ Goto(t, IF cmd[t].kind = "review" THEN "accept" ELSE "current")
    /\ UNCHANGED <<dbVars, lock, cmd, current>>

\* The indexes a transaction's inserts and updates meet.
NumberTaken(t) ==
    fresh[t] /\ \E o \in VersionsOf(cmd[t].tool) : versions[o].number = number[t]
PublishedOf(n) == {o \in VersionsOf(n) : versions[o].status = "published"}
SecondPublished(t) ==
    pc[t] = "commit" /\ ~(PublishedOf(cmd[t].tool) \subseteq {current[t]})

\* The commit of a review: a draft version with a draft binding, for a tool
\* that is disabled when it is new.
Accept(t) ==
    LET o == cmd[t].op  n == cmd[t].tool IN
    /\ pc[t] = "accept"
    /\ ~NumberTaken(t)
    /\ tools' = [tools EXCEPT ![n] = IF @ = "none" THEN "disabled" ELSE @]
    /\ versions' = [versions EXCEPT ![o] =
           [status |-> "draft", number |-> number[t]]]
    /\ bindings' = [bindings EXCEPT ![o] = "draft"]
    /\ accepted' = accepted \union {o}
    /\ End(t)
    /\ UNCHANGED upstreams

-----------------------------------------------------------------------------
(***************************************************************************)
(* DirectPublishImportedOperation of an operation reviewed before          *)
(***************************************************************************)
LockDirectVersion(t) ==
    /\ pc[t] = "direct_version"
    /\ LockRow(t, "direct_binding")
    /\ UNCHANGED <<dbVars, cmd, number, fresh, current>>

LockDirectBinding(t) ==
    /\ pc[t] = "direct_binding"
    /\ LockRow(t, "direct_tool")
    /\ UNCHANGED <<dbVars, cmd, number, fresh, current>>

\* Published already: an answer without a write.  A draft is submitted in
\* passing.  PublishTool's locks of tool, version and binding are held here.
LockDirectTool(t) ==
    LET o == cmd[t].op IN
    /\ pc[t] = "direct_tool"
    /\ Granted(t)
    /\ \/ /\ versions[o].status = "published"
          /\ bindings[o] = "published"
          /\ tools[cmd[t].tool] = "active"
          /\ End(t)
       \/ /\ versions[o].status \in {"draft", "review"}
          /\ LockRow(t, "upstream")
          /\ UNCHANGED <<cmd, number, fresh, current>>
    /\ UNCHANGED dbVars

-----------------------------------------------------------------------------
(***************************************************************************)
(* publish_tool_in_transaction                                             *)
(***************************************************************************)
LockTool(t) ==
    /\ pc[t] = "tool"
    /\ tools[cmd[t].tool] # "none"
    /\ LockRow(t, "version")
    /\ UNCHANGED <<dbVars, cmd, number, fresh, current>>

LockVersion(t) ==
    /\ pc[t] = "version"
    /\ versions[cmd[t].op].status # "none"
    /\ LockRow(t, "binding")
    /\ UNCHANGED <<dbVars, cmd, number, fresh, current>>

LockBinding(t) ==
    /\ pc[t] = "binding"
    /\ LockRow(t, "upstream")
    /\ UNCHANGED <<dbVars, cmd, number, fresh, current>>

\* _validate_publish_snapshot
ValidSnapshot(t) ==
    LET o == cmd[t].op IN
    /\ ToolOf[o] = cmd[t].tool
    /\ \/ versions[o].status = "review"
       \/ cmd[t].kind = "direct" /\ versions[o].status = "draft"
    /\ bindings[o] = "draft"
    /\ upstreams[UpstreamOf[o]] = "active"
    /\ cmd[t].digests_match

LockUpstream(t) ==
    /\ pc[t] = "upstream"
    /\ ValidSnapshot(t)
    /\ LockRow(t, "current")
    /\ UNCHANGED <<dbVars, cmd, number, fresh, current>>

TargetNumber(t) == IF fresh[t] THEN number[t] ELSE versions[cmd[t].op].number

IsNewer(t, c) == versions[c].number < TargetNumber(t)

\* get_published_version: a read without a lock.
ReadCurrent(t) ==
    /\ pc[t] = "current"
    /\ \/ /\ PublishedOf(cmd[t].tool) = {}
          /\ Goto(t, "commit")
          /\ UNCHANGED current
       \/ \E c \in PublishedOf(cmd[t].tool) :
             /\ IsNewer(t, c)
             /\ current' = [current EXCEPT ![t] = c]
             /\ Goto(t, "current_version")
    /\ UNCHANGED <<dbVars, lock, cmd, number, fresh>>

LockCurrentVersion(t) ==
    /\ pc[t] = "current_version"
    /\ versions[current[t]].status = "published"
    /\ LockRow(t, "current_binding")
    /\ UNCHANGED <<dbVars, cmd, number, fresh, current>>

LockCurrentBinding(t) ==
    /\ pc[t] = "current_binding"
    /\ bindings[current[t]] = "published"
    /\ LockRow(t, "commit")
    /\ UNCHANGED <<dbVars, cmd, number, fresh, current>>

\* Mutation: the binding of the retired version stays published.
SwitchBindings_KeepsOld(t) == bindings' = [bindings EXCEPT ![cmd[t].op] = "published"]

\* binding.publish, current_binding.disable
SwitchBindings(t) ==
    bindings' = [o \in Ops |->
                    IF o = cmd[t].op THEN "published"
                    ELSE IF o = current[t] THEN "disabled" ELSE bindings[o]]

\* locked_current.retire, version.publish; a new version of a direct
\* publication is added, submitted and published in this one transaction.
SwitchVersions(t) ==
    versions' = [o \in Ops |->
                    IF o = cmd[t].op
                    THEN [status |-> "published", number |-> TargetNumber(t)]
                    ELSE IF o = current[t]
                         THEN [versions[o] EXCEPT !.status = "retired"]
                         ELSE versions[o]]

Publish(t) ==
    /\ pc[t] = "commit"
    /\ ~NumberTaken(t) /\ ~SecondPublished(t)
    /\ SwitchVersions(t)
    /\ SwitchBindings(t)
    /\ tools' = [tools EXCEPT ![cmd[t].tool] = "active"]
    /\ accepted' = accepted \union {cmd[t].op}
    /\ End(t)
    /\ UNCHANGED upstreams

-----------------------------------------------------------------------------
(***************************************************************************)
(* The ways a command ends without effect                                  *)
(***************************************************************************)
\* The row is there to be looked at, and the code raises.
Refused(t) ==
    LET o == cmd[t].op  n == cmd[t].tool IN
    /\ \/ pc[t] = "review_upstream" /\ upstreams[UpstreamOf[o]] # "active"
       \/ pc[t] = "add_tool" /\ tools[n] # "none"
       \/ /\ pc[t] = "direct_tool"
          /\ \/ versions[o].status = "retired"
             \/ /\ versions[o].status = "published"
                /\ bindings[o] # "published" \/ tools[n] # "active"
       \/ pc[t] = "tool" /\ tools[n] = "none"
       \/ pc[t] = "version" /\ versions[o].status = "none"
       \/ pc[t] = "upstream" /\ ~ValidSnapshot(t)
       \/ pc[t] = "current_version" /\ versions[current[t]].status # "published"
       \/ pc[t] = "current_binding" /\ bindings[current[t]] # "published"
    /\ Granted(t)
    /\ Rollback(t)

\* PublishConflictError, or a unique index.
Conflicts(t) ==
    /\ \/ /\ pc[t] = "current"
          /\ \E c \in PublishedOf(cmd[t].tool) : ~IsNewer(t, c)
       \/ pc[t] \in {"accept", "commit"} /\ NumberTaken(t)
       \/ SecondPublished(t)
    /\ Rollback(t)

\* The database breaks a cycle of waiting transactions by failing one.
DeadlockVictim(t) ==
    /\ \E S \in SUBSET Txns : t \in S /\ Deadlocked(S)
    /\ Rollback(t)

\* A lost connection or a cancelled request.
Fails(t) ==
    /\ Faults
    /\ pc[t] # "idle"
    /\ Rollback(t)

-----------------------------------------------------------------------------
(***************************************************************************)
(* Commands that take a single lock and commit are one step                *)
(***************************************************************************)
\* SubmitToolVersionForReview
SubmitForReview(o) ==
    /\ lock[<<"version", o>>] = None
    /\ versions[o].status = "draft"
    /\ versions' = [versions EXCEPT ![o].status = "review"]
    /\ UNCHANGED <<tools, bindings, accepted, upstreams, lock, pc, cmd, number,
                   fresh, current>>

DisableUpstream(u) ==
    /\ lock[<<"upstream", u>>] = None
    /\ upstreams' = [upstreams EXCEPT ![u] = "disabled"]
    /\ UNCHANGED <<tools, versions, bindings, accepted, lock, pc, cmd, number,
                   fresh, current>>

TxStep(t) ==
    \/ LockOperation(t) \/ LockReviewUpstream(t) \/ LockReviewTool(t)
    \/ AddTool(t) \/ NextVersionNumber(t) \/ Accept(t)
    \/ LockDirectVersion(t) \/ LockDirectBinding(t) \/ LockDirectTool(t)
    \/ LockTool(t) \/ LockVersion(t) \/ LockBinding(t) \/ LockUpstream(t)
    \/ ReadCurrent(t) \/ LockCurrentVersion(t) \/ LockCurrentBinding(t)
    \/ Publish(t)
    \/ Refused(t) \/ Conflicts(t) \/ DeadlockVictim(t)

Next ==
    \/ \E t \in Txns : Begin(t) \/ TxStep(t) \/ Fails(t)
    \/ \E o \in Ops : SubmitForReview(o)
    \/ \E u \in Upstreams : DisableUpstream(u)

Spec == Init /\ [][Next]_vars

\* A statement that can return does, the database looks for deadlocks, and
\* those who wait for a row are served in turn.
FairSpec == Spec /\ \A t \in Txns : SF_vars(TxStep(t))
-----------------------------------------------------------------------------
(***************************************************************************)
(* Correctness                                                             *)
(***************************************************************************)
\* No transaction leaves a half-switched publication behind: a published
\* version has a published binding, what was retired has a disabled one, what
\* is not yet published a draft one, exactly the reviewed operations have
\* versions, and a tool is active exactly when one of its versions is
\* published (publish_tool_in_transaction).
PublicationConsistent ==
    /\ \A o \in Ops :
          /\ versions[o].status = "published" <=> bindings[o] = "published"
          /\ versions[o].status = "retired" <=> bindings[o] = "disabled"
          /\ o \in accepted <=> versions[o].status # "none"
          /\ versions[o].status # "none" => tools[ToolOf[o]] # "none"
    /\ \A n \in Tools :
          /\ tools[n] = "active" <=> PublishedOf(n) # {}
          /\ \A o, p \in PublishedOf(n) : o = p

\* The version on offer is newer than every version that was ever on offer:
\* no interleaving of publications brings an old one back.
PublishedIsNewest ==
    \A o, p \in Ops :
        /\ ToolOf[o] = ToolOf[p]
        /\ versions[o].status = "published"
        /\ versions[p].status = "retired"
        => versions[p].number < versions[o].number

\* The row locks alone keep version numbers and publications apart: no
\* transaction ever reaches its commit only to be refused by the unique index
\* on (tool, version) or by the one on the published version.
LocksSuffice ==
    \A t \in Txns :
        /\ pc[t] \in {"accept", "commit"} => ~NumberTaken(t)
        /\ ~SecondPublished(t)

\* Commands of one kind take their locks in one order: publications never
\* deadlock each other unless one names a tool that is not the version's, and
\* reviews never do.  Only a direct publication, or a review against a
\* publication, can close a cycle.
OneOrderPerKind ==
    \A S \in SUBSET Txns :
        Deadlocked(S) =>
            /\ \E t \in S : \/ cmd[t].kind # "publish"
                             \/ cmd[t].tool # ToolOf[cmd[t].op]
            /\ \E t \in S : cmd[t].kind # "review"

\* A version is published only while its upstream is active, however late the
\* upstream is disabled (the upstream's row is locked up to the commit).
PublishedWhileActive ==
    \A o \in Ops :
       versions[o].status # "published" /\ versions'[o].status = "published"
           => upstreams[UpstreamOf[o]] = "active"

Rank(status) ==
    CASE status = "none" -> 0 [] status = "draft" -> 1 [] status = "review" -> 2
      [] status = "published" -> 3 [] status = "retired" -> 4

\* A version only moves forward and keeps its number: no second review
\* overwrites it, and it is retired only by the publication that replaces it.
VersionsMoveForward ==
    \A o \in Ops :
       /\ Rank(versions[o].status) <= Rank(versions'[o].status)
       /\ versions[o].status # "none" =>
             versions'[o].number = versions[o].number
       /\ versions[o].status # "retired" /\ versions'[o].status = "retired"
             => \E p \in Ops :
                   /\ ToolOf[p] = ToolOf[o]
                   /\ versions[p].status # "published"
                   /\ versions'[p].status = "published"

\* Every command that was begun ends, deadlocks included, whatever else
\* administrators go on asking for.
EveryCommandEnds ==
    \A t \in Txns : (pc[t] # "idle") ~> (pc[t] = "idle")

\* What is on offer agrees with itself and is the newest that was published.
OfferIsSound == PublicationConsistent /\ PublishedIsNewest

\* The row locks do their work: commands of one kind take them in one order,
\* and what a transaction has read without one still holds when it commits.
LockingIsSound == OneOrderPerKind /\ LocksSuffice

\* No interleaving takes a version back or publishes on a disabled upstream.
HistoryIsSound == [][VersionsMoveForward /\ PublishedWhileActive]_vars

-----------------------------------------------------------------------------
(***************************************************************************)
(* Why it holds: the inductive invariant                                   *)
(***************************************************************************)
Switching == {"current", "current_version", "current_binding", "commit"}
Found == {"current_version", "current_binding", "commit"}

\* What a session is doing fits the statement that it has come to.
CommandInv ==
    \A t \in Txns :
        /\ pc[t] # "idle" => cmd[t] \in Commands
        /\ pc[t] \in {"operation", "review_upstream", "review_tool", "add_tool",
                      "number"} => cmd[t].kind # "publish"
        /\ pc[t] = "accept" => cmd[t].kind = "review"
        /\ pc[t] \in {"direct_version", "direct_binding", "direct_tool"} =>
              cmd[t].kind = "direct"
        /\ pc[t] \in {"tool", "version", "binding"} => cmd[t].kind = "publish"
        /\ pc[t] \in {"upstream"} \union Switching => cmd[t].kind # "review"
        /\ pc[t] \in Switching => cmd[t].tool = ToolOf[cmd[t].op]
        /\ fresh[t] => pc[t] \in {"accept"} \union Switching
        /\ fresh[t] => cmd[t].kind # "publish"
        /\ pc[t] = "accept" => fresh[t]
        /\ current[t] # None => pc[t] \in Found
        /\ pc[t] \in {"current_version", "current_binding"} => current[t] # None

\* The rows a transaction has locked by the statement that it has come to.
Holds(t, r) ==
    \/ /\ pc[t] \notin {"idle", "operation"}
       /\ cmd[t].kind # "publish"
       /\ r = <<"operation", cmd[t].op>>
    \/ /\ pc[t] \in {"review_tool", "add_tool", "number", "accept"}
                       \union Switching
       /\ r = <<"upstream", UpstreamOf[cmd[t].op]>>
    \/ /\ pc[t] \in {"number", "accept", "version", "binding", "upstream"}
                       \union Switching
       /\ r = <<"tool", cmd[t].tool>>
    \/ /\ pc[t] \in {"direct_binding", "direct_tool", "binding", "upstream"}
                       \union Switching
       /\ ~fresh[t]
       /\ r = <<"version", cmd[t].op>>
    \/ /\ pc[t] \in {"direct_tool", "upstream"} \union Switching
       /\ ~fresh[t]
       /\ r = <<"binding", cmd[t].op>>
    \/ pc[t] \in {"current_binding", "commit"} /\ r = <<"version", current[t]>>
    \/ pc[t] = "commit" /\ r = <<"binding", current[t]>>

LockInv == \A t \in Txns, r \in Rows : lock[r] = t <=> Holds(t, r)

\* What a transaction has seen is still so, because of what it has locked: an
\* operation that nobody has reviewed, ...
OperationInv ==
    \A t \in Txns :
        \/ pc[t] \in {"review_upstream", "review_tool", "add_tool", "number"}
        \/ fresh[t]
        => cmd[t].op \notin accepted

\* ... an active upstream, ...
UpstreamInv ==
    \A t \in Txns :
        pc[t] \in {"review_tool", "add_tool", "number", "accept"}
                    \union Switching
            => upstreams[UpstreamOf[cmd[t].op]] = "active"

\* ... a number greater than all in use, ...
NumberInv ==
    \A t \in Txns :
        fresh[t] =>
            /\ number[t] > 0
            /\ \A o \in VersionsOf(cmd[t].tool) : versions[o].number < number[t]

\* ... a version that was not published before, ...
TargetInv ==
    \A t \in Txns :
        pc[t] \in Switching /\ ~fresh[t] =>
            versions[cmd[t].op].status \in {"draft", "review"}

\* ... and the one version that is, which is older.
CurrentInv ==
    \A t \in Txns :
        pc[t] \in Found =>
            /\ PublishedOf(cmd[t].tool) \subseteq {current[t]}
            /\ current[t] # None =>
                  /\ current[t] \in PublishedOf(cmd[t].tool)
                  /\ IsNewer(t, current[t])

\* A version is retired only for another one.
RetiredInv ==
    \A o \in Ops :
        versions[o].status = "retired" => PublishedOf(ToolOf[o]) # {}

\* The conjunction the proofs carry through every step.
IInv ==
    /\ TypeOK
    /\ CommandInv
    /\ LockInv
    /\ OperationInv
    /\ UpstreamInv
    /\ NumberInv
    /\ TargetInv
    /\ CurrentInv
    /\ RetiredInv
    /\ PublicationConsistent
    /\ PublishedIsNewest
=============================================================================
