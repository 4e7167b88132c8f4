-------------------------- MODULE MCOpenApiImports --------------------------
(* An instance of OpenApiImports for TLC: documents, and who edits what.    *)
EXTENDS OpenApiImports

CONSTANTS u1, u2, j1, a1, a2

Param(name, words, in) == [name |-> name, words |-> words, in |-> in]

\* One name in three locations, two raw names that come to one, a path
\* parameter an operation overrides, and names that clash with a prefix or
\* the body.
Id(in) == Param("id", <<"id">>, in)
Dashed == Param("user-id", <<"user", "id">>, "query")
Spaced == Param("user id", <<"user", "id">>, "header")
Prefixed == Param("query_id", <<"query", "id">>, "path")
Body == Param("body", <<"body">>, "query")

Op(key, id, name, method) ==
    [key |-> key, id |-> id, name |-> name, method |-> method,
     declared |-> "none", well_formed |-> TRUE, height |-> 0,
     references |-> [r \in {} |-> 0],
     path_parameters |-> <<>>, parameters |-> <<>>,
     body |-> "none", responses |-> "json"]

Doc(ops) == [well_formed |-> TRUE, operations |-> ops,
             components |-> [r \in {} |-> {}]]

\* A node that nests one deep, with references at a depth.
Node(references, depth) ==
    [height |-> 1, references |-> [r \in references |-> depth]]
Refer(op, references, depth) == [op EXCEPT
    !.height = 1, !.references = [r \in references |-> depth]]

\* #a takes four levels below the reference to it, #b three, #c two.
Components ==
    [r \in {"#a", "#b", "#c", "#self"} |->
       CASE r = "#a" -> Node({"#b"}, 0) [] r = "#b" -> Node({"#c"}, 0)
         [] r = "#c" -> Node({}, 0) [] OTHER -> Node({"#self"}, 0)]

\* The names of three operations clash, one of them without an id.
Clashing ==
    Doc(<<Op("GET /a", "getA", "n1", "get"), Op("POST /a", "get_a", "n1", "post"),
          [Op("GET /b", "getB", "n2", "get") EXCEPT
              !.path_parameters = <<Id("path"), Id("header")>>,
              !.parameters = <<Id("query"), Id("path"), Dashed, Spaced>>,
              !.body = "json"],
          Op("GET /c", NoId, "n2", "get")>>)

\* References that end, the first at the limit, and that do not.
Referring ==
    [Doc(<<Refer(Op("PUT /a", "putA", "n1", "put"), {"#a"}, 0),
           Refer(Op("PUT /c", "putC", "n3", "put"), {External}, 1),
           Refer(Op("PUT /d", "putD", "n4", "put"), {"#c", "#missing"}, 0)>>)
     EXCEPT !.components = Components]

Circular ==
    [Doc(<<Refer(Op("PUT /a", "putA", "n1", "put"), {"#c", "#self"}, 0)>>)
     EXCEPT !.components = Components]

\* One level deeper than the limit.
Deep ==
    [Doc(<<Refer(Op("PUT /a", "putA", "n1", "put"), {"#a"}, 1)>>)
     EXCEPT !.components = Components]

\* What is not supported, what is declared, and arguments that clash.
Odd ==
    Doc(<<[Op("POST /a", "postA", "n1", "post") EXCEPT
              !.parameters = <<Param("c", <<"c">>, "cookie")>>],
          [Op("POST /b", "postB", "n2", "post") EXCEPT
              !.body = "other", !.declared = "idempotent_write"],
          [Op("PATCH /c", "patchC", "n3", "patch") EXCEPT !.well_formed = FALSE],
          [Op("POST /d", "postD", "n4", "post") EXCEPT
              !.parameters = <<Prefixed, Id("path"), Id("query"), Body>>,
              !.body = "json"]>>)

Malformed == [Doc(<<>>) EXCEPT !.well_formed = FALSE]

MCContent ==
    [clashing |-> Clashing, referring |-> Referring,
     circular |-> Circular, deep |-> Deep, odd |-> Odd, malformed |-> Malformed]
MCDocuments == DOMAIN MCContent
MCAllowlists == {{}, {"PUT /a", "postA", "postB", "getB", "POST /d"}}

MCRequested ==
    {[host |-> h, url_accepted |-> TRUE] :
        h \in {"api", "localhost", "literal_other", "literal_denied",
              "literal_other_loopback"}}
    \union {[host |-> "api", url_accepted |-> FALSE]}
=============================================================================
