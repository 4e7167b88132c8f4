--------------------------- MODULE OpenApiImports ---------------------------
(***************************************************************************)
(* Registering, updating and disabling upstreams, importing OpenAPI        *)
(* documents for them, and reading an import back, while the demo reset    *)
(* may empty the database under all of these.                              *)
(*                                                                         *)
(* A step is one database transaction, one statement of a transaction that *)
(* only reads, or what happens between two of them.  A handler that raises *)
(* answers an error; one that dies, or whose last write fails, is lost.    *)
(***************************************************************************)
EXTENDS OpenApiParser, EgressPolicy

CONSTANTS
    Upstreams,   \* ids for upstreams
    Names,       \* namespaces and names they are registered under
    Jobs,        \* ids for imports
    Admins,      \* registrations and updates under way
    Requested,   \* the endpoints they ask for
    Faults       \* whether processes die and the database fails

ASSUME ImportAssumption == Requested \subseteq Endpoints /\ Faults \in BOOLEAN

VARIABLES
    \* the database
    upstream,    \* id -> the row of upstream_service
    job,         \* id -> the row of openapi_import_job
    operations,  \* job id -> its rows of imported_operation
    \* the handlers
    import,      \* job id -> submit_import for the job
    edit,        \* register_upstream and update_upstream
    reader       \* get_openapi_import

vars == <<upstream, job, operations, import, edit, reader>>

UpstreamStatuses == {"active", "disabled"}
JobStatuses == {"validating", "parsing", "completed", "failed"}
Open == {"validating", "parsing"}
NoRow == "none"      \* not inserted yet
Gone == "gone"       \* removed by the reset

NoEndpoint == [host |-> NoRow, url_accepted |-> FALSE]
NoUpstream == [status |-> NoRow, name |-> NoRow, endpoint |-> NoEndpoint]
NoImport ==
    [pc |-> "none", upstream |-> NoRow, document |-> NoRow, allowlist |-> {},
     unsure |-> FALSE, answer |-> "none"]
NoEdit ==
    [pc |-> "none", kind |-> "none", upstream |-> NoRow, name |-> NoRow,
     endpoint |-> NoEndpoint, observed |-> NoRow]
NoOperations == [document |-> NoRow, allowlist |-> {}]
NoRead == [statement |-> 1, status |-> NoRow, operations |-> NoOperations]
NotFound == [NoRead EXCEPT !.statement = 3]

\* The operations of a job are those its document and allowlist parse to:
\* the rows are told apart by these two.
Operations(j) ==
    [document |-> import[j].document, allowlist |-> import[j].allowlist]
ImportedOperations(rows) ==
    IF rows = NoOperations THEN <<>>
    ELSE parse(Content[rows.document], rows.allowlist)
Rows == [document: Documents \union {NoRow}, allowlist: Allowlists \union {{}}]

TypeOK ==
    /\ upstream \in [Upstreams ->
          [status: UpstreamStatuses \union {NoRow, Gone},
           name: Names \union {NoRow}, endpoint: Requested \union {NoEndpoint}]]
    /\ job \in [Jobs -> JobStatuses \union {NoRow, Gone}]
    /\ operations \in [Jobs -> Rows]
    /\ import \in [Jobs ->
          [pc: {"none", "insert", "mark", "parse", "complete", "fail",
                "done", "lost"},
           upstream: Upstreams \union {NoRow},
           document: Documents \union {NoRow},
           allowlist: Allowlists \union {{}}, unsure: BOOLEAN,
           answer: {"none", "imported", "refused", "error"}]]
    /\ edit \in [Admins ->
          [pc: {"none", "policy", "lookup", "write", "done"},
           kind: {"none", "register", "update"},
           upstream: Upstreams \union {NoRow}, name: Names \union {NoRow},
           endpoint: Requested \union {NoEndpoint},
           observed: UpstreamStatuses \union {NoRow}]]
    /\ reader \in [Jobs ->
          [statement: 1..3,
           status: JobStatuses \union {NoRow},
           operations: Rows]]

Init ==
    /\ upstream = [u \in Upstreams |-> NoUpstream]
    /\ job = [j \in Jobs |-> NoRow]
    /\ operations = [j \in Jobs |-> NoOperations]
    /\ import = [j \in Jobs |-> NoImport]
    /\ edit = [a \in Admins |-> NoEdit]
    /\ reader = [j \in Jobs |-> NoRead]

Exists(u) == upstream[u].status \in UpstreamStatuses

-----------------------------------------------------------------------------
(***************************************************************************)
(* Upstreams                                                               *)
(***************************************************************************)
\* The handler returns or raises, and its local variables go.
EditEnds(a) == edit' = [edit EXCEPT ![a] = [NoEdit EXCEPT !.pc = "done"]]

\* POST /upstreams, with a name and owner that are accepted; the others
\* change nothing.
RegisterUpstream(a) ==
    /\ edit[a].pc = "none"
    /\ \E u \in Upstreams, name \in Names, endpoint \in Requested :
          /\ upstream[u].status = NoRow
          /\ \A b \in Admins : edit[b].upstream # u \/ edit[b].kind = "update"
          /\ edit' = [edit EXCEPT ![a] =
                [NoEdit EXCEPT !.pc = "policy", !.kind = "register",
                    !.upstream = u, !.name = name, !.endpoint = endpoint]]
    /\ UNCHANGED <<upstream, job, operations, import, reader>>

\* PUT /upstreams/{id}: a first transaction looks at the row.
UpdateUpstream(a) ==
    /\ edit[a].pc = "none"
    /\ \E u \in Upstreams, endpoint \in Requested :
          IF Exists(u)
          THEN edit' = [edit EXCEPT ![a] =
                  [NoEdit EXCEPT !.pc = "policy", !.kind = "update",
                      !.upstream = u, !.endpoint = endpoint,
                      !.observed = upstream[u].status]]
          ELSE EditEnds(a)
    /\ UNCHANGED <<upstream, job, operations, import, reader>>

\* The endpoint policy, with no transaction open: the resolver answers
\* whatever it does at the time.
CheckEndpoint(a) ==
    /\ edit[a].pc = "policy"
    /\ \E accepted \in {EndpointAccepted(edit[a].endpoint, resolved) :
                         resolved \in SUBSET Addresses} :
          IF accepted
          THEN edit' = [edit EXCEPT ![a].pc =
                  IF edit[a].kind = "register" THEN "lookup" ELSE "write"]
          ELSE EditEnds(a)
    /\ UNCHANGED <<upstream, job, operations, import, reader>>

NameTaken(name) == \E u \in Upstreams : Exists(u) /\ upstream[u].name = name

\* get_by_name
Lookup(a) ==
    /\ edit[a].pc = "lookup"
    /\ IF NameTaken(edit[a].name)
       THEN EditEnds(a) ELSE edit' = [edit EXCEPT ![a].pc = "write"]
    /\ UNCHANGED <<upstream, job, operations, import, reader>>

\* uq_upstream_service_tenant_namespace_name
InsertAccepted(name) == ~NameTaken(name)

Insert(a) ==
    /\ edit[a].pc = "write" /\ edit[a].kind = "register"
    /\ upstream' = IF InsertAccepted(edit[a].name)
                   THEN [upstream EXCEPT ![edit[a].upstream] =
                           [status |-> "active", name |-> edit[a].name,
                            endpoint |-> edit[a].endpoint]]
                   ELSE upstream
    /\ EditEnds(a)
    /\ UNCHANGED <<job, operations, import, reader>>

\* Mutation: the row that was looked at first is what is saved.
Updated_Observed(a, row) ==
    [row EXCEPT !.endpoint = edit[a].endpoint, !.status = edit[a].observed]

\* UpstreamService.update
Updated(a, row) == [row EXCEPT !.endpoint = edit[a].endpoint]

\* The second transaction, on the row as it is now.
Save(a) ==
    /\ edit[a].pc = "write" /\ edit[a].kind = "update"
    /\ upstream' = IF Exists(edit[a].upstream)
                   THEN [upstream EXCEPT ![edit[a].upstream] = Updated(a, @)]
                   ELSE upstream
    /\ EditEnds(a)
    /\ UNCHANGED <<job, operations, import, reader>>

\* Mutation: the status a row has by default.
Disabled_Draft(row) == [row EXCEPT !.status = "draft"]

\* UpstreamService.disable
Disabled(row) == [row EXCEPT !.status = "disabled"]

\* POST /upstreams/{id}/disable
DisableUpstream(u) ==
    /\ Exists(u)
    /\ upstream' = [upstream EXCEPT ![u] = Disabled(@)]
    /\ UNCHANGED <<job, operations, import, edit, reader>>

-----------------------------------------------------------------------------
(***************************************************************************)
(* ImportOpenApi.execute                                                   *)
(***************************************************************************)
Goto(j, label) == import' = [import EXCEPT ![j].pc = label]

Answer(j, answer) ==
    import' = [import EXCEPT ![j] =
                 [@ EXCEPT !.pc = "done", !.answer = answer]]

\* POST /openapi/imports: the document is read first, outside a transaction.
\* A source that is not there, too large or no JSON object is refused.
ReadDocument(j) ==
    /\ import[j].pc = "none"
    /\ \/ \E u \in Upstreams, d \in Documents, a \in Allowlists :
             import' = [import EXCEPT ![j] =
                [NoImport EXCEPT !.pc = "insert", !.upstream = u,
                                 !.document = d, !.allowlist = a]]
       \/ Answer(j, "refused")
    /\ UNCHANGED <<upstream, job, operations, edit, reader>>

\* The upstream is locked, and the job inserted as validating.
InsertJob(j) ==
    /\ import[j].pc = "insert"
    /\ IF upstream[import[j].upstream].status = "active"
       THEN /\ job' = [job EXCEPT ![j] = "validating"]
            /\ Goto(j, "mark")
       ELSE /\ Answer(j, "refused")
            /\ UNCHANGED job
    /\ UNCHANGED <<upstream, operations, edit, reader>>

\* _mark_parsing; a job that is not validating raises.
MarkParsing(j) ==
    /\ import[j].pc = "mark"
    /\ IF job[j] = "validating"
       THEN /\ job' = [job EXCEPT ![j] = "parsing"]
            /\ Goto(j, "parse")
       ELSE /\ Goto(j, "fail")
            /\ UNCHANGED job
    /\ UNCHANGED <<upstream, operations, edit, reader>>

ParserRaises(j) == Goto(j, "fail")

Parse(j) ==
    /\ import[j].pc = "parse"
    /\ IF WellFormed(Content[import[j].document], import[j].allowlist)
       THEN Goto(j, "complete") ELSE ParserRaises(j)
    /\ UNCHANGED <<upstream, job, operations, edit, reader>>

\* The operations and the status, in one transaction.
Completes(j) ==
    /\ operations' = [operations EXCEPT ![j] = Operations(j)]
    /\ job' = [job EXCEPT ![j] = "completed"]

\* _complete_job
CompleteJob(j) ==
    /\ import[j].pc = "complete"
    /\ IF job[j] = "parsing"
       THEN Completes(j) /\ Answer(j, "imported")
       ELSE Goto(j, "fail") /\ UNCHANGED <<job, operations>>
    /\ UNCHANGED <<upstream, edit, reader>>

Failable(j) == job[j] \in Open

\* Mutation: the handler waits for a job that disappeared.
FailStarts_RowExists(j) == import[j].pc = "fail" /\ job[j] # Gone

FailStarts(j) == import[j].pc = "fail"

\* _fail_job, then the error is raised again.
FailJob(j) ==
    /\ FailStarts(j)
    /\ job' = IF Failable(j) THEN [job EXCEPT ![j] = "failed"] ELSE job
    /\ Answer(j, "error")
    /\ UNCHANGED <<upstream, operations, edit, reader>>

\* The transactions of the job that the try block catches fail, before
\* their commit took effect or after: the job is then to be failed.
TransactionFails(j) ==
    /\ Faults
    /\ \/ /\ import[j].pc \in {"mark", "complete"}
          /\ UNCHANGED <<job, operations>>
       \/ /\ import[j].pc = "mark" /\ job[j] = "validating"
          /\ job' = [job EXCEPT ![j] = "parsing"]
          /\ UNCHANGED operations
       \/ /\ import[j].pc = "complete" /\ job[j] = "parsing"
          /\ Completes(j)
    /\ import' = [import EXCEPT ![j] =
                    [@ EXCEPT !.pc = "fail", !.unsure = TRUE]]
    /\ UNCHANGED <<upstream, edit, reader>>

\* The insert, or the write of the failure, fails before or after its
\* commit; the request is cancelled, or the process dies: nobody takes the
\* job further.
ImportLost(j) ==
    /\ Faults
    /\ import[j].pc \notin {"none", "done", "lost"}
    /\ \/ UNCHANGED job
       \/ /\ import[j].pc = "insert"
          /\ upstream[import[j].upstream].status = "active"
          /\ job' = [job EXCEPT ![j] = "validating"]
       \/ /\ import[j].pc = "fail" /\ Failable(j)
          /\ job' = [job EXCEPT ![j] = "failed"]
    /\ Goto(j, "lost")
    /\ UNCHANGED <<upstream, operations, edit, reader>>

-----------------------------------------------------------------------------
(***************************************************************************)
(* Reading an import back, and the reset                                   *)
(***************************************************************************)
\* Mutation: the operations are selected before the job.
Statements_OperationsFirst == <<"operations", "job">>

Statements == <<"job", "operations">>

\* GET /openapi/imports/{id}, statement by statement; without a job, 404.
Read(j) ==
    /\ reader[j].statement <= Len(Statements)
    /\ LET next == reader[j].statement + 1 IN
       reader' = [reader EXCEPT ![j] =
          IF Statements[reader[j].statement] = "operations"
          THEN [@ EXCEPT !.statement = next, !.operations = operations[j]]
          ELSE IF job[j] \in JobStatuses
          THEN [@ EXCEPT !.statement = next, !.status = job[j]]
          ELSE NotFound]
    /\ UNCHANGED <<upstream, job, operations, import, edit>>

\* ResetDemoWorkspace empties every table in one statement.
Reset ==
    /\ upstream' = [u \in Upstreams |->
          IF upstream[u].status = NoRow THEN NoUpstream
          ELSE [NoUpstream EXCEPT !.status = Gone]]
    /\ job' = [j \in Jobs |-> IF job[j] = NoRow THEN NoRow ELSE Gone]
    /\ operations' = [j \in Jobs |-> NoOperations]
    /\ UNCHANGED <<import, edit, reader>>

EditStep(a) ==
    RegisterUpstream(a) \/ UpdateUpstream(a) \/ CheckEndpoint(a)
        \/ Lookup(a) \/ Insert(a) \/ Save(a)

ImportStep(j) ==
    InsertJob(j) \/ MarkParsing(j) \/ Parse(j) \/ CompleteJob(j) \/ FailJob(j)

Next ==
    \/ \E a \in Admins : EditStep(a)
    \/ \E u \in Upstreams : DisableUpstream(u)
    \/ \E j \in Jobs :
          \/ ReadDocument(j) \/ ImportStep(j)
          \/ TransactionFails(j) \/ ImportLost(j)
          \/ Read(j)
    \/ Reset

Spec == Init /\ [][Next]_vars

\* asyncio runs a handler that has been called to its end, and database
\* calls return or fail.
FairSpec == Spec /\ \A j \in Jobs : WF_vars(ImportStep(j))

-----------------------------------------------------------------------------
(***************************************************************************)
(* Properties                                                              *)
(***************************************************************************)
\* An import is stored whole or not at all: the operations are there exactly
\* when the job says completed, and then all that the parser found.
CompletedIsWhole ==
    \A j \in Jobs :
        operations[j] = IF job[j] = "completed"
                        THEN Operations(j) ELSE NoOperations

\* A job is left open by a crash, a cancellation or a database that fails,
\* and by nothing else: whatever the document, the parser or the reset does,
\* a handler that ends has ended its job.
OpenHasHandler ==
    \A j \in Jobs : job[j] \in Open => import[j].pc \notin {"none", "done"}

\* The answer tells how the job ended, unless the reset took it away or the
\* database failed at the time.
AnswerAgrees ==
    \A j \in Jobs :
        /\ import[j].answer = "imported" => job[j] \in {"completed", Gone}
        /\ import[j].answer = "error" =>
              job[j] \in {"failed", Gone} \/ import[j].unsure
        /\ import[j].answer = "refused" => job[j] = NoRow

\* Who reads that an import completed reads its operations with it, although
\* the two are separate statements; only the reset comes between them.
ReaderSeesWhole ==
    \A j \in Jobs :
        reader[j].statement = 3 /\ reader[j].status = "completed" =>
            \/ reader[j].operations = Operations(j)
            \/ job[j] = Gone

\* A completed or failed job stays so until the reset.
EndedIsFinal ==
    \A j \in Jobs :
       job[j] \in {"completed", "failed"} => job'[j] \in {job[j], Gone}

\* A disabled upstream is never active again: not even by an update that
\* looked at it while it still was.
DisabledStays ==
    \A u \in Upstreams :
       upstream[u].status = "disabled" =>
           upstream'[u].status \in {"disabled", Gone}

\* Every import that was begun ends, with an answer or by a fault.
ImportsEnd ==
    \A j \in Jobs :
        import[j].pc = "insert" ~> import[j].pc \in {"done", "lost"}

\* An operation without a conflict has its tool name for itself among all
\* the operations of its import, those with a conflict of another kind
\* included: a review can accept it without looking at the others.
ConflictFreeNamesUnique ==
    \A j \in Jobs :
        LET ops == ImportedOperations(operations[j]) IN
        \A m, n \in DOMAIN ops :
            ops[m].conflict = "none" /\ m # n => ops[m].name # ops[n].name

\* Every parameter keeps an argument of its own, so that the executor can
\* put each argument back where it came from, as long as the document's
\* names are plain: one name may come back in every location.
ArgumentsApart ==
    \A j \in Jobs :
        import[j].pc = "complete" =>
            LET document == Content[import[j].document] IN
            \A i \in DOMAIN document.operations :
                LET o == document.operations[i]
                IN  Plain(o) => IsInjective(Arguments(o))

\* An import that gets past the parser leads by no reference out of the
\* document, to a target that is not there, or round in a circle, and with
\* its references followed it nests no deeper than the limit.
ReferencesEnd ==
    \A j \in Jobs :
        import[j].pc = "complete" =>
            LET document == Content[import[j].document] IN
            \A i \in Allowed(document, import[j].allowlist) :
                NestsWithin(MaxRefDepth + 1, document.components,
                            document.operations[i])

\* An endpoint the policy lets pass, whatever its host resolves to, reaches
\* no address that is always denied, loopback only in the local
\* demonstration, and an address outside the allowed networks only by an
\* allowed host: no allowlist opens more, and no single address slips through
\* among others.
EgressDenies ==
    \A a \in Admins :
        edit[a].pc = "policy" =>
            \A resolved \in SUBSET Addresses :
                LET endpoint == edit[a].endpoint
                    reached == Reached(endpoint, resolved)
                IN  EndpointAccepted(endpoint, resolved) =>
                        /\ reached # {} /\ "denied" \notin reached
                        /\ "loopback" \in reached =>
                              AllowLocalDemo /\ endpoint.host \in LocalDemoHosts
                        /\ "other" \in reached => endpoint.host \in AllowedHosts

\* Row, operations, answer and what a reader sees of an import agree, through
\* every failure and interleaving.
ImportsTellTruth ==
    /\ CompletedIsWhole
    /\ OpenHasHandler
    /\ AnswerAgrees
    /\ ReaderSeesWhole

\* What the parser and the endpoint policy let pass keeps what they promise:
\* names and arguments that can be told apart, references that end, and
\* endpoints that reach no forbidden address.
AcceptedIsSafe ==
    /\ ConflictFreeNamesUnique
    /\ ArgumentsApart
    /\ ReferencesEnd
    /\ EgressDenies

\* Neither an ended job nor a disabled upstream comes back, whatever a handler
\* saw before it wrote.
NothingComesBack == [][EndedIsFinal /\ DisabledStays]_vars

-----------------------------------------------------------------------------
(***************************************************************************)
(* Why it holds: the inductive invariant                                   *)
(***************************************************************************)
\* What the row of a job may be, by how far the handler is with it.
RowFollowsHandler ==
    \A j \in Jobs :
        LET pc == import[j].pc IN
        /\ pc \in {"none", "insert"} => job[j] = NoRow
        /\ pc = "mark" => job[j] \in {"validating", Gone}
        /\ pc \in {"parse", "complete"} => job[j] \in {"parsing", Gone}
        /\ pc = "fail" =>
              \/ job[j] \in Open \union {Gone}
              \/ job[j] = "completed" /\ import[j].unsure
        /\ pc = "done" => job[j] \notin Open
        /\ pc # "done" => import[j].answer = "none"

\* A job has a document, and one that is to be completed one that parses.
JobHasDocument ==
    \A j \in Jobs :
        /\ import[j].pc = "insert" \/ job[j] # NoRow =>
              import[j].document \in Documents
        /\ import[j].pc = "complete" =>
              WellFormed(Content[import[j].document], import[j].allowlist)

\* What a reader was told of a job's end still holds, unless it was reset.
ReaderIsCurrent ==
    \A j \in Jobs :
        reader[j].status = "completed" => job[j] \in {"completed", Gone}

\* A registration has its id for itself, and no row has it yet.
IdReserved ==
    \A a \in Admins :
        edit[a].kind = "register" =>
            /\ edit[a].upstream \in Upstreams
            /\ upstream[edit[a].upstream].status = NoRow
            /\ \A b \in Admins :
                  edit[b].kind = "register" /\ b # a =>
                      edit[b].upstream # edit[a].upstream

IInv ==
    /\ TypeOK
    /\ ImportsTellTruth
    /\ RowFollowsHandler
    /\ JobHasDocument
    /\ ReaderIsCurrent
    /\ IdReserved
=============================================================================
