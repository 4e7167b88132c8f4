--------------------------- MODULE OpenApiParser ---------------------------
(***************************************************************************)
(* What an OpenAPI document becomes: the parser of the import.             *)
(*                                                                         *)
(* A document is its operations in the order of paths and methods, and the *)
(* components its local references lead to.  Text is abstracted: an        *)
(* operation has a key, perhaps an id, and the tool name generated from    *)
(* either; a parameter has a name, and the words its argument name is      *)
(* joined from.  The schemas of an operation, and the target of a          *)
(* reference, are nodes: how deep they nest, and the references in them    *)
(* with the depth each stands at (the deepest, when it stands in several). *)
(***************************************************************************)
EXTENDS Naturals, Sequences, FiniteSets, Functions

CONSTANTS
    Documents,     \* the files under the import root that are JSON objects
    Content,       \* what is in them
    Allowlists,    \* the operation allowlists of the imports
    MaxRefDepth    \* _MAX_REF_DEPTH: how deep nodes and references may nest

ASSUME DepthAssumption == MaxRefDepth \in Nat

\* A node's references stand no deeper than the node nests.
IsNode(node) ==
    /\ node.height \in Nat
    /\ \A r \in DOMAIN node.references : node.references[r] \in 0..node.height

\* Parameters have names and locations, and a document lists finitely many
\* operations, each with two lists of parameters.
Parameters == [name: STRING, in: STRING, words: Seq(STRING)]
ASSUME ContentAssumption ==
    \A d \in Documents :
        LET ops == Content[d].operations
            components == Content[d].components
        IN
        /\ IsFiniteSet(DOMAIN ops)
        /\ \A r \in DOMAIN components : IsNode(components[r])
        /\ \A i \in DOMAIN ops :
              /\ IsNode(ops[i])
              /\ ops[i].path_parameters \in Seq(Parameters)
              /\ ops[i].parameters \in Seq(Parameters)

NoId == "no operation id"
External == "not a local reference"
Locations == {"path", "query", "header"}

-----------------------------------------------------------------------------
\* Mutation: only references count towards the depth, not the nodes between.
Resolves_ReferencesOnly(node, n, within) ==
    /\ node.height < n
    /\ \A r \in DOMAIN node.references : r \in within[n - 1]

\* A node resolves with n levels to nest in when it needs no more of them and
\* each target of its references resolves with the levels that are left below
\* the reference.
Resolves(node, n, within) ==
    /\ node.height < n
    /\ \A r \in DOMAIN node.references :
          r \in within[n - 1 - node.references[r]]

\* _resolve_node: the references that resolve, for each number of levels.  A
\* reference has to be local and its target to exist; one already on the
\* stack would come back at every level and resolves with none.
resolve_node(components) ==
    LET within[n \in 0..(MaxRefDepth + 1)] ==
            {r \in DOMAIN components : Resolves(components[r], n, within)}
    IN  within

\* The parameters of the path, then those of the operation.
Given(operation) == operation.path_parameters \o operation.parameters

Key(p) == <<p.name, p.in>>

\* The last parameter with the key of the one at a place.
LastOf(given, i) ==
    CHOOSE k \in DOMAIN given :
        /\ Key(given[k]) = Key(given[i])
        /\ \A l \in DOMAIN given : Key(given[l]) = Key(given[i]) => l <= k

\* merge_parameters, a dict by name and location: a key keeps the place where
\* it came first, and has the parameter that came last, so that an
\* operation's takes the place of the path's.
merge_parameters(operation) ==
    LET given == Given(operation)
        places == {i \in DOMAIN given :
                      \A k \in DOMAIN given :
                          k < i => Key(given[k]) # Key(given[i])}
    IN  [i \in places |-> given[LastOf(given, i)]]

Supported(parameters) ==
    {i \in DOMAIN parameters : parameters[i].in \in Locations}

\* A parameter's argument is named after it, with its location before the
\* name when an earlier one has taken that.
argument_name(parameters) ==
    LET name[i \in Supported(parameters)] ==
            LET p == parameters[i]
                taken == {name[k] : k \in {l \in Supported(parameters) : l < i}}
            IN  IF p.words \in taken THEN <<p.in>> \o p.words ELSE p.words
    IN  name

\* The arguments of the tool, by the places of their parameters; the JSON body
\* is one of them, and has the place 0.
Arguments(operation) ==
    LET names == argument_name(merge_parameters(operation)) IN
    IF operation.body = "json"
    THEN [i \in DOMAIN names \union {0} |->
             IF i = 0 THEN <<"body">> ELSE names[i]]
    ELSE names

\* Parameters in other locations, and bodies and responses that are not JSON.
Unsupported(operation) ==
    \/ Supported(merge_parameters(operation))
          # DOMAIN merge_parameters(operation)
    \/ operation.body = "other"
    \/ operation.responses = "other"

\* The conflict an operation has by itself.
OwnConflict(operation) ==
    IF Unsupported(operation) THEN "unsupported"
    ELSE IF operation.id = NoId THEN "missing_operation_id" ELSE "none"

side_effect(operation) ==
    IF operation.declared # "none" THEN operation.declared
    ELSE CASE operation.method = "get" -> "read_only"
           [] operation.method \in {"put", "delete"} -> "idempotent_write"
           [] operation.method = "post" -> "non_idempotent_write"
           [] OTHER -> "unknown"

\* The places of the operations that are allowed; an empty allowlist allows
\* everything.
Allowed(document, allowlist) ==
    {i \in DOMAIN document.operations :
        LET o == document.operations[i]
        IN  allowlist = {} \/ o.key \in allowlist \/ o.id \in allowlist}

\* What makes the parser raise: the document, or an operation that is allowed.
WellFormed(document, allowlist) ==
    /\ document.well_formed
    /\ Allowed(document, allowlist) # {}
    /\ \A i \in Allowed(document, allowlist) :
          LET o == document.operations[i] IN
          /\ o.well_formed
          /\ Resolves(o, MaxRefDepth + 1, resolve_node(document.components))

\* Counter: how many of the allowed operations have a name.
Namesakes(document, allowlist, name) ==
    {i \in Allowed(document, allowlist) : document.operations[i].name = name}

\* The operations of a well-formed document, each at its place.
parse(document, allowlist) ==
    [i \in Allowed(document, allowlist) |->
        LET o == document.operations[i] IN
        [key |-> o.key, name |-> o.name, arguments |-> Arguments(o),
         side_effect |-> side_effect(o),
         conflict |->
            IF /\ Cardinality(Namesakes(document, allowlist, o.name)) > 1
               /\ OwnConflict(o) = "none"
            THEN "name_collision" ELSE OwnConflict(o)]]

-----------------------------------------------------------------------------
(***************************************************************************)
(* What a document means, to compare the parser with                       *)
(***************************************************************************)
\* Parameters that share no argument name within a location, with the body,
\* or with another parameter's location and name together.
Plain(operation) ==
    LET parameters == merge_parameters(operation)
        named == {parameters[i] : i \in Supported(parameters)}
    IN  \A p, q \in named :
            /\ p.words = q.words => p = q \/ p.in # q.in
            /\ p.words # <<q.in>> \o q.words
            /\ p.words # <<"body">>

\* A node is whole within the limit: everything its references lead to can be
\* given the levels it takes, more than it nests by itself, and more than each
\* target takes below its reference.  No circle can.
NestsWithin(limit, components, node) ==
    \E takes \in [DOMAIN components -> 0..limit] :
        LET Enough(m, levels) ==
                /\ m.height < levels
                /\ \A r \in DOMAIN m.references :
                      /\ r \in DOMAIN components
                      /\ takes[r] # 0
                      /\ m.references[r] + takes[r] < levels
        IN  /\ Enough(node, limit)
            /\ \A r \in DOMAIN components :
                  takes[r] # 0 => Enough(components[r], takes[r])
=============================================================================
