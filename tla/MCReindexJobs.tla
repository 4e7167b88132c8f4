--------------------------- MODULE MCReindexJobs ---------------------------
(* Instances of ReindexJobs for TLC. *)
EXTENDS ReindexJobs

CONSTANTS j1, c1
=============================================================================
