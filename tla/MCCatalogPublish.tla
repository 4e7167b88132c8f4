-------------------------- MODULE MCCatalogPublish --------------------------
(* Instances of CatalogPublish for TLC.                                    *)
EXTENDS CatalogPublish

CONSTANTS o1, o2, o3, n1, n2, u1, u2

\* Operations imported under one name are versions of one tool.
OneTool == [o \in Ops |-> n1]

\* The versions of the tool call two upstreams of one namespace, so that the
\* lock on an upstream does not stand in for the one on the tool.
TwoUpstreams == [o \in Ops |-> IF o = o1 THEN u1 ELSE u2]

\* Direct publications of two operations, reviews of two, publications of
\* what may have been reviewed, and of one that name a wrong tool or have other
\* digests than were reviewed.
AllCommands ==
    {c \in [kind: Kinds, op: Ops, tool: Tools, digests_match: BOOLEAN] :
        \/ /\ c.tool = ToolOf[c.op] /\ c.digests_match
           /\ c.op \in IF c.kind = "direct" THEN {o1, o2} ELSE {o2, o3}
        \/ c.kind = "publish" /\ c.op = o2 /\ c.tool = n2 /\ c.digests_match
        \/ c.kind = "publish" /\ c.op = o2 /\ c.tool = n1}
=============================================================================
