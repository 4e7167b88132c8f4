---------------------------- MODULE LocalBackend ----------------------------
(***************************************************************************)
(* run.py, the API processes that it starts and the PostgreSQL container   *)
(* that they share.  A supervisor brings the container up, migrates,       *)
(* starts the API in a session of its own, waits for its readiness and     *)
(* watches it; whatever happens it stops what it has started.  The API     *)
(* runs the lifespan of the application before it binds its port.          *)
(***************************************************************************)
EXTENDS Naturals

CONSTANTS
    Supervisors,   \* the processes that execute run.py, on one port
    Arguments,     \* the command lines they may be given, together
    Faults         \* whether commands and processes may fail by themselves

NoOne == "no_one"

CommandLines == [no_docker: BOOLEAN, keep_infra: BOOLEAN,
                 skip_migrations: BOOLEAN, reload: BOOLEAN]

ASSUME NoOneAssumption == NoOne \notin Supervisors
ASSUME ArgumentsAssumption == Arguments \subseteq [Supervisors -> CommandLines]

VARIABLES
    args,      \* the command line of each supervisor
    sup,       \* where each supervisor is and what it remembers
    api,       \* the process group of the API that each has started
    postgres,  \* the container
    holder     \* the supervisor whose API listens on the port

vars == <<args, sup, api, postgres, holder>>

\* The two attributes of a BackendSupervisor, and what its run has met: the
\* container as it found it and whether its own command brought it up, whose
\* API answered the probe, what it could not stop.
NewSupervisor ==
    [pc |-> "validate", infrastructure_started_here |-> FALSE,
     shutdown_requested |-> FALSE,
     found |-> "unknown", brought |-> FALSE, answered |-> NoOne,
     gave_up |-> FALSE, left |-> FALSE]

\* The leader is the process that run.py has started.  With --reload it only
\* watches the sources, and the worker is its child; otherwise it is the
\* worker itself.
NewApi == [leader |-> "none", worker |-> "none", sent |-> "none",
           orphaned |-> FALSE]

Init ==
    /\ args \in Arguments
    /\ sup = [s \in Supervisors |-> NewSupervisor]
    /\ api = [s \in Supervisors |-> NewApi]
    /\ postgres \in {"stopped", "healthy"}
    /\ holder = NoOne

-----------------------------------------------------------------------------
(***************************************************************************)
(* BackendSupervisor.run                                                   *)
(***************************************************************************)
At(s, label) == sup[s].pc = label

Goto(s, label) == sup' = [sup EXCEPT ![s].pc = label]

\* Mutation: a start that failed before the API has nothing to clean up.
FirstOfShutdown_Ended(s) ==
    IF api[s].leader = "none" THEN "ended" ELSE "terminate"

\* The finally clause: the processes first, then the infrastructure.
FirstOfShutdown(s) == IF api[s].leader = "none" THEN "infra" ELSE "terminate"

\* An exception, or the end of the monitor, leads to the shutdown.
Leave(s) == Goto(s, FirstOfShutdown(s))

Quiet == UNCHANGED <<args, api, postgres, holder>>

AfterInfrastructure(s) ==
    IF args[s].skip_migrations THEN "port" ELSE "migrate"

Shutdown == {"terminate", "await_exit", "await_kill", "infra", "ended"}

\* The handler of SIGINT and SIGTERM only takes a note, which nothing reads
\* once the shutdown has begun.
RequestShutdown(s) ==
    /\ sup[s].pc \notin Shutdown
    /\ ~sup[s].shutdown_requested
    /\ sup' = [sup EXCEPT ![s].shutdown_requested = TRUE]
    /\ Quiet

Validate(s) ==
    /\ At(s, "validate")
    /\ \/ Goto(s, IF args[s].no_docker THEN AfterInfrastructure(s) ELSE "states")
       \/ Faults /\ Leave(s)
    /\ Quiet

\* Another supervisor may bring it up, or stop it, after this look at it.
StartedHere == postgres = "stopped"

ReadStates(s) ==
    /\ At(s, "states")
    /\ \/ sup' = [sup EXCEPT ![s].pc = "up",
                             ![s].infrastructure_started_here = StartedHere,
                             ![s].found = IF postgres = "stopped" THEN "stopped"
                                           ELSE "running"]
       \/ Faults /\ Leave(s)
    /\ Quiet

ComposeUp(s) ==
    /\ At(s, "up")
    /\ \/ /\ postgres' = IF postgres = "stopped" THEN "starting" ELSE postgres
          /\ sup' = [sup EXCEPT ![s].pc = "health",
                                ![s].brought = postgres = "stopped"]
       \/ Faults /\ Leave(s) /\ UNCHANGED postgres
    /\ UNCHANGED <<args, api, holder>>

\* A minute at most.
AwaitHealth(s) ==
    /\ At(s, "health")
    /\ \/ postgres = "healthy" /\ Goto(s, AfterInfrastructure(s))
       \/ (Faults \/ postgres # "healthy") /\ Leave(s)
    /\ Quiet

Migrate(s) ==
    /\ At(s, "migrate")
    /\ \/ postgres = "healthy" /\ Goto(s, "port")
       \/ (Faults \/ postgres # "healthy") /\ Leave(s)
    /\ Quiet

CheckPort(s) ==
    /\ At(s, "port")
    /\ IF holder = NoOne THEN Goto(s, "spawn") ELSE Leave(s)
    /\ Quiet

StartApi(s) ==
    /\ At(s, "spawn")
    /\ \/ /\ api' = [api EXCEPT ![s].leader = "alive",
                                ![s].worker = IF args[s].reload THEN "none"
                                              ELSE "starting"]
          /\ Goto(s, "wait")
       \/ Faults /\ Leave(s) /\ UNCHANGED api
    /\ UNCHANGED <<args, postgres, holder>>

\* The readiness endpoint: whoever listens on the port answers, and its
\* DatabaseRuntime pings the database.
Ready(w) == w # NoOne /\ api[w].worker = "serving" /\ postgres = "healthy"

\* _wait_for_api, half a minute at most: a process that has exited is an
\* error before an answer is success.
AwaitApi(s) ==
    /\ At(s, "wait")
    /\ \/ Leave(s)
       \/ /\ api[s].leader = "alive"
          /\ Ready(holder)
          /\ sup' = [sup EXCEPT ![s].pc = "monitor", ![s].answered = holder]
    /\ Quiet

\* Mutation: a request that came before the monitor is forgotten.
Asked_Forgotten(s) == FALSE

Asked(s) == sup[s].shutdown_requested

\* Mutation: the exit of the process goes unnoticed.
Monitor_Deaf(s) == At(s, "monitor") /\ Asked(s) /\ Leave(s) /\ Quiet

\* The flag is looked at before the process, and may be set in between.
Monitor(s) ==
    /\ At(s, "monitor")
    /\ \/ Asked(s) /\ Leave(s)
       \/ api[s].leader = "dead" /\ Leave(s)
    /\ Quiet

-----------------------------------------------------------------------------
(***************************************************************************)
(* BackendSupervisor.shutdown                                              *)
(***************************************************************************)
\* Mutation: the signal is sent, and the exit is not waited for.
AfterTerminate_NoWait(s) == "infra"

\* A process that has exited needs no signal; what it has left behind in its
\* group gets none either.
AfterTerminate(s) == IF api[s].leader = "dead" THEN "infra" ELSE "await_exit"

Terminate(s) ==
    /\ At(s, "terminate")
    /\ api' = IF api[s].leader = "dead" THEN api
              ELSE [api EXCEPT ![s].sent = "term"]
    /\ Goto(s, AfterTerminate(s))
    /\ UNCHANGED <<args, postgres, holder>>

\* Ten seconds, then the group is killed.
AwaitExit(s) ==
    /\ At(s, "await_exit")
    /\ \/ api[s].leader = "dead" /\ Goto(s, "infra") /\ UNCHANGED api
       \/ /\ api[s].leader = "alive"
          /\ api' = [api EXCEPT ![s].sent = "kill"]
          /\ Goto(s, "await_kill")
    /\ UNCHANGED <<args, postgres, holder>>

\* Five seconds more, then a warning: of a process that the kernel holds.
AwaitKill(s) ==
    /\ At(s, "await_kill")
    /\ \/ api[s].leader = "dead" /\ Goto(s, "infra")
       \/ /\ api[s].leader = "alive"
          /\ Faults
          /\ sup' = [sup EXCEPT ![s].pc = "infra", ![s].gave_up = TRUE]
    /\ Quiet

\* docker compose stop, whose own failure is not looked at.
StopInfrastructure(s) ==
    /\ At(s, "infra")
    /\ \/ /\ sup[s].infrastructure_started_here
          /\ ~args[s].keep_infra
          /\ ~args[s].no_docker
          /\ \/ postgres' = "stopped" /\ Goto(s, "ended")
             \/ /\ Faults
                /\ sup' = [sup EXCEPT ![s].pc = "ended", ![s].left = TRUE]
                /\ UNCHANGED postgres
       \/ /\ \/ ~sup[s].infrastructure_started_here
             \/ args[s].keep_infra
             \/ args[s].no_docker
          /\ Goto(s, "ended")
          /\ UNCHANGED postgres
    /\ UNCHANGED <<args, api, holder>>

SupervisorStep(s) ==
    \/ Validate(s) \/ ReadStates(s) \/ ComposeUp(s) \/ AwaitHealth(s)
    \/ Migrate(s) \/ CheckPort(s) \/ StartApi(s) \/ AwaitApi(s) \/ Monitor(s)
    \/ Terminate(s) \/ AwaitExit(s) \/ AwaitKill(s) \/ StopInfrastructure(s)

-----------------------------------------------------------------------------
(***************************************************************************)
(* The API process: uvicorn, and the lifespan of the application           *)
(***************************************************************************)
Over == {"none", "exited", "crashed"}

\* The reloader keeps the socket that it has given its worker.
Released(s, leader) ==
    IF holder = s /\ leader # "alive" THEN NoOne ELSE holder

\* The worker ends, and with it the leader, unless that is the reloader.
Ends(s, how) ==
    LET leader == IF args[s].reload THEN api[s].leader ELSE "dead"
    IN /\ api' = [api EXCEPT ![s].worker = how, ![s].leader = leader]
       /\ holder' = Released(s, leader)
       /\ UNCHANGED <<args, sup, postgres>>

Becomes(s, state) ==
    /\ api' = [api EXCEPT ![s].worker = state]
    /\ UNCHANGED <<args, sup, postgres, holder>>

\* The reloader binds the port before it has a worker, and ends when somebody
\* listens there.  It does not listen itself: the worker does, on its socket.
ReloaderBinds(s) ==
    /\ args[s].reload
    /\ api[s].leader = "alive"
    /\ api[s].worker = "none"
    /\ IF holder # NoOne
       THEN /\ api' = [api EXCEPT ![s].leader = "dead"]
            /\ UNCHANGED <<args, sup, postgres, holder>>
       ELSE Becomes(s, "starting")

\* DatabaseRuntime.start: the lifespan fails when the database does not answer.
StartRuntime(s) ==
    /\ api[s].worker = "starting"
    /\ IF postgres = "healthy" THEN Becomes(s, "preparing")
       ELSE Ends(s, "exited")

\* The tenant, the toolset of all published tools, the interrupted reindex
\* jobs: statements on the database.  Whatever fails, the finally clause of
\* the lifespan stops the runtime and the process ends.
Prepare(s) ==
    /\ api[s].worker = "preparing"
    /\ \/ postgres = "healthy" /\ Becomes(s, "binding")
       \/ (Faults \/ postgres # "healthy") /\ Ends(s, "exited")

\* Mutation: the port is shared with whoever listens on it.
Bind_Shares(s) ==
    /\ api[s].worker = "binding"
    /\ Becomes(s, "serving")

\* After the lifespan the worker listens; the port may have been taken since
\* it was looked at.
Bind(s) ==
    /\ api[s].worker = "binding"
    /\ IF holder # NoOne THEN Ends(s, "exited")
       ELSE /\ api' = [api EXCEPT ![s].worker = "serving"]
            /\ holder' = s
            /\ UNCHANGED <<args, sup, postgres>>

\* The end after a SIGTERM waits for the connections that are open, for as
\* long as the clients keep them.
ExitOnSignal(s) ==
    /\ api[s].worker = "serving"
    /\ api[s].sent = "term"
    /\ Ends(s, "exited")

\* The reloader ends after its child.
ReloaderExits(s) ==
    /\ args[s].reload
    /\ api[s].leader = "alive"
    /\ api[s].sent = "term"
    /\ api[s].worker \in Over
    /\ api' = [api EXCEPT ![s].leader = "dead"]
    /\ holder' = Released(s, "dead")
    /\ UNCHANGED <<args, sup, postgres>>

Killed(s) ==
    /\ api[s].sent = "kill"
    /\ api[s].leader = "alive" \/ api[s].worker \notin Over
    /\ api' = [api EXCEPT ![s].leader = "dead",
                          ![s].worker = IF @ \in Over THEN @ ELSE "crashed"]
    /\ holder' = Released(s, "dead")
    /\ UNCHANGED <<args, sup, postgres>>

Crash(s) ==
    /\ Faults
    /\ api[s].worker \notin Over
    /\ Ends(s, "crashed")

\* The reloader dies and leaves behind the worker that it may have.
ReloaderCrash(s) ==
    /\ Faults
    /\ args[s].reload
    /\ api[s].leader = "alive"
    /\ api' = [api EXCEPT ![s].leader = "dead",
                          ![s].orphaned = api[s].worker \notin Over]
    /\ holder' = IF api[s].worker \in Over THEN Released(s, "dead") ELSE holder
    /\ UNCHANGED <<args, sup, postgres>>

ApiStep(s) ==
    \/ ReloaderBinds(s) \/ StartRuntime(s) \/ Prepare(s) \/ Bind(s)
    \/ ReloaderExits(s) \/ Killed(s)

PostgresIsHealthy ==
    /\ postgres = "starting"
    /\ postgres' = "healthy"
    /\ UNCHANGED <<args, sup, api, holder>>

\* Everything has ended, and nothing is left to happen.
Idle ==
    /\ \A s \in Supervisors : At(s, "ended")
    /\ UNCHANGED vars

Next ==
    \/ \E s \in Supervisors :
          \/ RequestShutdown(s) \/ SupervisorStep(s)
          \/ ApiStep(s) \/ ExitOnSignal(s) \/ Crash(s) \/ ReloaderCrash(s)
    \/ PostgresIsHealthy
    \/ Idle

\* The operating system runs the processes, commands come to an end, every
\* wait has a limit, and a killed process dies; how long the connections of
\* an API stay open is for its clients to say.
Spec ==
    /\ Init
    /\ [][Next]_vars
    /\ \A s \in Supervisors : WF_vars(SupervisorStep(s)) /\ WF_vars(ApiStep(s))

-----------------------------------------------------------------------------
(***************************************************************************)
(* Properties                                                              *)
(***************************************************************************)
\* Every variable has its type, and only the API that holds the port serves.
TypeOK ==
    /\ args \in Arguments
    /\ sup \in [Supervisors ->
         [pc : {"validate", "states", "up", "health", "migrate", "port",
                "spawn", "wait", "monitor", "terminate", "await_exit",
                "await_kill", "infra", "ended"},
          infrastructure_started_here : BOOLEAN,
          shutdown_requested : BOOLEAN,
          found : {"unknown", "stopped", "running"},
          brought : BOOLEAN, answered : Supervisors \cup {NoOne},
          gave_up : BOOLEAN, left : BOOLEAN]]
    /\ api \in [Supervisors ->
         [leader : {"none", "alive", "dead"},
          worker : Over \cup {"starting", "preparing", "binding", "serving"},
          sent : {"none", "term", "kill"}, orphaned : BOOLEAN]]
    /\ postgres \in {"stopped", "starting", "healthy"}
    /\ holder \in Supervisors \cup {NoOne}
    /\ \A s \in Supervisors : api[s].worker = "serving" => holder = s

\* What shutdown cannot stop: a process that outlives its SIGKILL, which is
\* warned about, and the worker of a reloader that died before it, whose
\* group stop_process_tree leaves alone.
BeyondReach(s) == sup[s].gave_up \/ api[s].orphaned

\* A supervisor that has ended, however it came to, leaves no API process
\* running, neither reloader nor worker, and none that could still be started:
\* it has waited for the exit, or killed the group.
EndedLeavesNoProcess ==
    \A s \in Supervisors :
        At(s, "ended") =>
            \/ api[s].leader # "alive" /\ api[s].worker \in Over
            \/ BeyondReach(s)

\* PostgreSQL is never stopped under the API of the supervisor that stops it:
\* shutdown waits for its processes before it turns to the infrastructure.
StopFollowsOwnApi ==
    \A s \in Supervisors :
       /\ At(s, "infra")
       /\ postgres # "stopped"
       /\ postgres' = "stopped"
       /\ sup'[s].pc = "ended"
       => api[s].worker \in Over \/ BeyondReach(s)

\* A supervisor that found PostgreSQL running never stops it, whatever other
\* supervisors have done to it since, so the one that started it may go on.
FoundRunningIsLeft ==
    \A s \in Supervisors :
       /\ sup[s].found # "stopped"
       /\ ~At(s, "ended")
       /\ sup'[s].pc = "ended"
       => postgres' = postgres

\* When every supervisor has ended, a container that some of them brought up
\* is stopped again, except after --keep-infra, a stop that failed, or an up
\* that came after a look at the container while it was still running, another
\* supervisor having stopped it in between.
LeftRunningIsAccounted ==
    /\ \A s \in Supervisors : At(s, "ended")
    /\ \E s \in Supervisors : sup[s].brought
    /\ postgres # "stopped"
    => \E s \in Supervisors :
          \/ sup[s].infrastructure_started_here /\ (args[s].keep_infra \/ sup[s].left)
          \/ sup[s].brought /\ sup[s].found # "stopped"

\* A SIGINT or SIGTERM ends the supervisor, at whatever step of the start it
\* arrives and although the handler only takes a note.
StopsWhenAsked ==
    \A s \in Supervisors : sup[s].shutdown_requested ~> At(s, "ended")

\* A supervisor that took the answer of another one's API for its own does not
\* go on without an API: its own comes to serve, or its exit is noticed.  The
\* reloader, which survives its worker, is the exception.
StrangersAnswerSettles ==
    \A s \in Supervisors :
        (sup[s].answered \notin {s, NoOne} /\ ~args[s].reload)
            ~> (api[s].worker = "serving" \/ At(s, "ended"))

\* What supervisors have started they have stopped when they end, processes
\* and container, as far as it is within their reach.
EndsClean == EndedLeavesNoProcess /\ LeftRunningIsAccounted

\* A supervisor stops PostgreSQL only if it found it stopped, and only after
\* its own API has ended.
StopsOnlyItsOwn == [][StopFollowsOwnApi /\ FoundRunningIsLeft]_vars

-----------------------------------------------------------------------------
(***************************************************************************)
(* Why it holds: the inductive invariant                                   *)
(***************************************************************************)
\* Until it has started its API a supervisor has no process, and one that
\* waits for the API, or for its end, has.
Starting == {"validate", "states", "up", "health", "migrate", "port", "spawn"}

StartedInv(s) ==
    /\ sup[s].pc \in Starting => api[s].leader = "none"
    /\ sup[s].pc \in {"wait", "monitor", "terminate", "await_exit", "await_kill"}
          => api[s].leader # "none"
    /\ api[s].leader = "none" => api[s].worker = "none"

\* A worker that runs has its leader, or has lost it to a crash.
WorkerInv(s) ==
    api[s].worker \notin Over => api[s].leader = "alive" \/ api[s].orphaned

\* Shutdown comes to the infrastructure when the API has ended.
OrderInv(s) ==
    sup[s].pc \in {"infra", "ended"} =>
        /\ api[s].worker \in Over \/ BeyondReach(s)
        /\ api[s].leader # "alive" \/ sup[s].gave_up

\* The flag says what the supervisor found, and only one that uses Docker, and
\* is past its up, has brought the container up.
FlagInv(s) ==
    /\ sup[s].infrastructure_started_here <=> sup[s].found = "stopped"
    /\ sup[s].pc \in {"validate", "states", "up"} => ~sup[s].brought
    /\ sup[s].pc \in {"states", "up", "health"} \/ sup[s].brought
          => ~args[s].no_docker

\* A container that supervisors brought up and that runs is still the business
\* of one of them, or is one that it may leave running.
ContainerInv ==
    postgres # "stopped" /\ (\E s \in Supervisors : sup[s].brought) =>
        \E s \in Supervisors :
            /\ sup[s].brought
            /\ \/ ~At(s, "ended")
               \/ sup[s].found # "stopped"
               \/ args[s].keep_infra
               \/ sup[s].left

IInv ==
    /\ TypeOK
    /\ \A s \in Supervisors :
          StartedInv(s) /\ WorkerInv(s) /\ OrderInv(s) /\ FlagInv(s)
    /\ ContainerInv
=============================================================================
