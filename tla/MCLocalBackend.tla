--------------------------- MODULE MCLocalBackend ---------------------------
(***************************************************************************)
(* Two supervisors on one port, with the command lines that tell the code  *)
(* apart.                                                                  *)
(***************************************************************************)
EXTENDS LocalBackend, TLC

Default == [no_docker |-> FALSE, keep_infra |-> FALSE,
            skip_migrations |-> FALSE, reload |-> FALSE]

KeepInfra == [Default EXCEPT !.keep_infra = TRUE]
NoDocker == [Default EXCEPT !.no_docker = TRUE, !.skip_migrations = TRUE]
Reload == [Default EXCEPT !.reload = TRUE]

CONSTANTS s1, s2

MCArguments ==
    {(s1 :> Default) @@ (s2 :> Default),
     (s1 :> KeepInfra) @@ (s2 :> NoDocker),
     (s1 :> NoDocker) @@ (s2 :> Reload)}
=============================================================================
