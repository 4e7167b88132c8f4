SPECIFICATION Spec
CONSTANTS
    Tools <- MCTools
    Versions <- MCVersions
    ToolOf <- MCToolOf
    Rows <- MCRows
    MemberSets <- MCMemberSets
    Requests <- MCRequests
    Compositions <- MCCompositions
    Identities <- MCIdentities
    NameOrder <- MCNameOrder
    Visibility <- MCVisibility
    SideEffect <- MCSideEffect
    LexicalOrder <- MCLexicalOrder
    VectorOrder <- MCVectorOrder
    Queries <- MCQueries
    Recency <- MCRecency
    Marked <- MCMarked
    Stores <- MCStores
    MaxWrites = 2
    MaxRequests = 2
    MaxWalks = 1
    OverfetchFactor = 2
    MaxFetch = 2
    MaxLimit = 2
    RankConstant = 60
    Faults = TRUE
INVARIANTS
    TypeOK
    AnswersAreSound
    CallsAreGoverned
    QueriesAreSound
CHECK_DEADLOCK FALSE
