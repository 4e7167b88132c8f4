--------------------------- MODULE MCToolsetAdmin ---------------------------
(* Instances of ToolsetAdmin for TLC. *)
EXTENDS ToolsetAdmin, TLC

CONSTANTS i1, i2, t1, t2, c1, c2

Symmetry == Permutations(Ids) \union Permutations(Tools)
=============================================================================
