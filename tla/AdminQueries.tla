---------------------------- MODULE AdminQueries ----------------------------
(***************************************************************************)
(* The reading side of the control plane: paged lists, details, the        *)
(* dashboard and the state of the search index.  Every answer is put       *)
(* together from statements that are each a snapshot of their own, and a   *)
(* client walks a list page by page while others write to it.              *)
(***************************************************************************)
EXTENDS ReadStore, Sequences, SequencesExt

CONSTANTS
    Queries,   \* the walks a client may make
    Recency,   \* when every row was written: two may be of one moment
    Marked,    \* the rows that match a filter on what never changes
    MaxWalks   \* walks and reports per behaviour

ASSUME RowsAssumption ==
    /\ Rows \subseteq Nat
    /\ Recency \in [Rows -> Nat]
    /\ Marked \subseteq Rows

VARIABLES
    walk,       \* the walk or the report that is being made
    page,       \* the page that is being read
    collected,  \* the rows that the walk has shown
    report,     \* what the report has counted
    walks       \* walks and reports so far

adminVars == <<walk, page, collected, report, walks>>

-----------------------------------------------------------------------------
(***************************************************************************)
(* The lists: in which order, with which filters, below which parent.  A   *)
(* filter is "fixed" when what it looks at never changes in a row.         *)
(***************************************************************************)
list_upstreams == [order |-> "name", filters |-> {"fixed", "moving"},
                   parent |-> FALSE]
list_imports == [order |-> "recent", filters |-> {"fixed", "moving", "malformed"},
                 parent |-> FALSE]
list_review_operations ==
    [order |-> "recent", filters |-> {"fixed", "moving", "malformed"},
     parent |-> FALSE]
list_tools == [order |-> "name", filters |-> {"fixed", "moving", "malformed"},
               parent |-> FALSE]
list_tool_versions == [order |-> "latest", filters |-> {}, parent |-> TRUE]
list_approvals == [order |-> "recent", filters |-> {"fixed", "moving", "malformed"},
                   parent |-> FALSE]
list_executions == [order |-> "recent", filters |-> {"fixed", "moving", "malformed"},
                    parent |-> FALSE]
list_execution_attempts == [order |-> "number", filters |-> {}, parent |-> TRUE]
list_audit_events == [order |-> "recent", filters |-> {"fixed", "malformed"},
                      parent |-> FALSE]
list_recent == [order |-> "recent", filters |-> {}, parent |-> FALSE]

Lists == {list_recent, list_upstreams, list_imports, list_review_operations, list_tools,
          list_tool_versions, list_approvals, list_executions,
          list_execution_attempts, list_audit_events}

\* The rows that a filter leaves.
Matching(filter) ==
    CASE filter = "fixed" -> DOMAIN rows \intersect Marked
      [] filter = "moving" -> {r \in DOMAIN rows : rows[r] = "open"}
      [] OTHER -> DOMAIN rows

\* Mutation: rows of one moment come in any order.
Before_Untied(order, q, r) ==
    IF order = "recent" THEN Recency[q] >= Recency[r] ELSE q < r

\* The order of a list: names and numbers are unique, the latest version comes
\* first, and of the rows of one moment the identifier decides.
Before(order, q, r) ==
    IF order = "recent"
    THEN Recency[q] > Recency[r] \/ (Recency[q] = Recency[r] /\ q >= r)
    ELSE IF order = "latest" THEN q > r
    ELSE q < r

\* The sequences that ORDER BY allows.
Ordered(S, order) ==
    {s \in SetToSeqs(S) :
        \A i, j \in 1..Len(s) : i < j => Before(order, s[i], s[j])}

\* The read model of a row.
Item(r) == [row |-> r, status |-> rows[r]]

-----------------------------------------------------------------------------
(***************************************************************************)
(* A walk                                                                  *)
(***************************************************************************)
NoWalk == [kind |-> "none", at |-> "idle"]
NoPage == [offset |-> 0, total |-> 0, items |-> <<>>, torn |-> FALSE]
NoReport == [published |-> 0, indexed |-> 0, first |-> 0, current |-> {},
             missing |-> {}, approvals |-> 0]

\* _paged_rows: in one session, and two snapshots.
Statements == <<"count", "rows">>

FirstStep(q) == IF q.list.parent THEN "parent" ELSE "page"

\* Everything but the reader's own progress is as it was.
Reading == UNCHANGED <<storeVars, walks>>

\* A route of the query router.  A malformed identifier matches nothing.
StartWalk(q) ==
    /\ walk.kind = "none"
    /\ walks < MaxWalks
    /\ walks' = walks + 1
    /\ walk' = [kind |-> "walk", query |-> q, statement |-> 1,
                at |-> IF q.filter = "malformed" THEN "done" ELSE FirstStep(q)]
    /\ page' = NoPage
    /\ collected' = {}
    /\ BeginReading
    /\ UNCHANGED report

\* The parent is looked up in a session of its own, for every page.
CheckParent ==
    /\ walk.kind = "walk"
    /\ walk.at = "parent"
    /\ walk' = [walk EXCEPT !.at = IF \E v \in Versions : status[v] # "absent"
                                   THEN "page" ELSE "not_found"]
    /\ Reading
    /\ UNCHANGED <<page, collected, report>>

\* The next statement of the page.
NextStatement ==
    walk' = IF walk.statement = Len(Statements)
            THEN [walk EXCEPT !.at = "read", !.statement = 1]
            ELSE [walk EXCEPT !.statement = @ + 1]

CountRows ==
    /\ walk.kind = "walk"
    /\ walk.at = "page"
    /\ Statements[walk.statement] = "count"
    /\ page' = [page EXCEPT !.total = Cardinality(Matching(walk.query.filter)),
                            !.torn = FALSE]
    /\ NextStatement
    /\ Reading
    /\ UNCHANGED <<collected, report>>

ReadRows ==
    /\ walk.kind = "walk"
    /\ walk.at = "page"
    /\ Statements[walk.statement] = "rows"
    /\ \E s \in Ordered(Matching(walk.query.filter), walk.query.list.order) :
          LET end == page.offset + walk.query.limit
              items == SubSeq(s, page.offset + 1,
                              IF Len(s) < end THEN Len(s) ELSE end)
          IN /\ page' = [page EXCEPT !.items = [i \in 1..Len(items) |->
                                                  Item(items[i])]]
             /\ collected' = collected \union ToSet(items)
    /\ NextStatement
    /\ Reading
    /\ UNCHANGED report

\* The client goes on while the total says that there is more.
TurnPage ==
    /\ walk.kind = "walk"
    /\ walk.at = "read"
    /\ LET offset == page.offset + walk.query.limit IN
       IF offset < page.total
       THEN /\ page' = [page EXCEPT !.offset = offset]
            /\ walk' = [walk EXCEPT !.at = FirstStep(walk.query)]
       ELSE walk' = [walk EXCEPT !.at = "done"] /\ UNCHANGED page
    /\ Reading
    /\ UNCHANGED <<collected, report>>

\* A write commits between the two statements of a page.
TornPage ==
    page' = IF walk.kind = "walk" /\ walk.at = "page" /\ walk.statement > 1
            THEN [page EXCEPT !.torn = TRUE] ELSE page

-----------------------------------------------------------------------------
(***************************************************************************)
(* Details and reports                                                     *)
(***************************************************************************)
\* The details: a binding or an upstream may be of a kind that the response
\* does not have.
get_upstream == [missing |-> "upstream_not_found", remote |-> TRUE]
get_tool == [missing |-> "tool_not_found", remote |-> FALSE]
get_tool_version == [missing |-> "tool_version_not_found", remote |-> FALSE]
get_tool_version_binding ==
    [missing |-> "tool_binding_not_found", remote |-> TRUE]
get_tool_binding == [missing |-> "tool_binding_not_found", remote |-> TRUE]
get_execution == [missing |-> "tool_execution_not_found", remote |-> FALSE]
get_approval == [missing |-> "approval_not_found", remote |-> FALSE]
get_reindex_job ==
    [missing |-> "tool_search_reindex_job_not_found", remote |-> FALSE]

Details == {get_upstream, get_tool, get_tool_version,
            get_tool_version_binding, get_tool_binding, get_execution,
            get_approval, get_reindex_job}

\* A detail is one statement.
GetDetail(d, r) ==
    /\ walk.kind = "none"
    /\ walks < MaxWalks
    /\ walks' = walks + 1
    /\ \E remote \in {FALSE, d.remote} :
          walk' = [kind |-> "detail", query |-> r,
                   at |-> IF r \notin DOMAIN rows THEN d.missing
                          ELSE IF remote THEN "feature_not_enabled" ELSE "done"]
    /\ page' = NoPage
    /\ collected' = {r} \intersect DOMAIN rows
    /\ BeginReading
    /\ UNCHANGED report

StartReport(kind) ==
    /\ walk.kind = "none"
    /\ walks < MaxWalks
    /\ walks' = walks + 1
    /\ walk' = [kind |-> kind, query |-> kind,
                at |-> IF kind = "dashboard" THEN "counts" ELSE "published"]
    /\ report' = NoReport
    /\ BeginReading
    /\ UNCHANGED <<page, collected>>

\* The first statements of the dashboard.
CountDashboard ==
    /\ walk.kind = "dashboard"
    /\ walk.at = "counts"
    /\ report' = [report EXCEPT
                    !.first = Cardinality(Published),
                    !.approvals = IF approval.status = "pending" THEN 1 ELSE 0]
    /\ walk' = [walk EXCEPT !.at = "published"]
    /\ Reading
    /\ UNCHANGED <<page, collected>>

\* _search_projection_status counts the published versions, and the
\* inspection of the index lists them.
ReadIndexable ==
    /\ walk.kind \in {"dashboard", "projection", "inspection"}
    /\ walk.at = "published"
    /\ report' = [report EXCEPT !.published = Cardinality(Published),
                                !.missing = Published]
    /\ walk' = [walk EXCEPT !.at = "embeddings"]
    /\ Reading
    /\ UNCHANGED <<page, collected>>

\* The embeddings of the configured model that belong to a published version.
Indexable == embedded \intersect Published

CountEmbeddings ==
    /\ walk.kind \in {"dashboard", "projection"}
    /\ walk.at = "embeddings"
    /\ report' = [report EXCEPT !.indexed = Cardinality(Indexable)]
    /\ walk' = [walk EXCEPT !.at = "done"]
    /\ Reading
    /\ UNCHANGED <<page, collected>>

\* InspectToolSearchIndex: the versions of the list with an embedding, and
\* those without.
ReadEmbeddings ==
    /\ walk.kind = "inspection"
    /\ walk.at = "embeddings"
    /\ report' = [report EXCEPT !.current = report.missing \intersect embedded,
                                !.missing = report.missing \ embedded]
    /\ walk' = [walk EXCEPT !.at = "done"]
    /\ Reading
    /\ UNCHANGED <<page, collected>>

\* The pending tools of a report, and its coverage in percent.
pending_tools ==
    IF report.published > report.indexed THEN report.published - report.indexed
    ELSE 0
coverage_percent ==
    IF report.published = 0 THEN 100
    ELSE (100 * report.indexed) \div report.published

\* Where a read is over.
Ended == {"done", "not_found", "feature_not_enabled"}
             \union {d.missing : d \in Details}

EndRead ==
    /\ walk.kind # "none"
    /\ walk.at \in Ended
    /\ walk' = NoWalk
    /\ page' = NoPage
    /\ collected' = {}
    /\ report' = NoReport
    /\ Reading

AdminInit ==
    /\ walk = NoWalk
    /\ page = NoPage
    /\ collected = {}
    /\ report = NoReport
    /\ walks = 0

AdminStep ==
    \/ CheckParent \/ CountRows \/ ReadRows \/ TurnPage
    \/ CountDashboard \/ ReadIndexable \/ CountEmbeddings \/ ReadEmbeddings
    \/ EndRead
=============================================================================
