------------------------- MODULE LocalBackendProofs -------------------------
(***************************************************************************)
(* For any number of supervisors on one port and any command lines: what a *)
(* supervisor has started it stops, and it stops nothing else.             *)
(***************************************************************************)
EXTENDS LocalBackend, TLAPS

SupLabels == Starting \union {"wait", "monitor"} \union Shutdown
Memories ==
    [pc : SupLabels, infrastructure_started_here : BOOLEAN,
     shutdown_requested : BOOLEAN, found : {"unknown", "stopped", "running"},
     brought : BOOLEAN, answered : Supervisors \cup {NoOne},
     gave_up : BOOLEAN, left : BOOLEAN]
Groups ==
    [leader : {"none", "alive", "dead"},
     worker : Over \cup {"starting", "preparing", "binding", "serving"},
     sent : {"none", "term", "kill"}, orphaned : BOOLEAN]

\* The types, by name.
LEMMA Types ==
    TypeOK <=> /\ args \in Arguments
               /\ sup \in [Supervisors -> Memories]
               /\ api \in [Supervisors -> Groups]
               /\ postgres \in {"stopped", "starting", "healthy"}
               /\ holder \in Supervisors \cup {NoOne}
               /\ \A s \in Supervisors : api[s].worker = "serving" => holder = s
<1>1. SupLabels = {"validate", "states", "up", "health", "migrate", "port",
                   "spawn", "wait", "monitor", "terminate", "await_exit",
                   "await_kill", "infra", "ended"}
  BY DEF SupLabels, Starting, Shutdown
<1>2. QED
  BY <1>1 DEF TypeOK, Memories, Groups

\* The same, of the state after a step.
LEMMA TypesAfter ==
    ASSUME args' \in Arguments,
           sup' \in [Supervisors -> Memories],
           api' \in [Supervisors -> Groups],
           postgres' \in {"stopped", "starting", "healthy"},
           holder' \in Supervisors \cup {NoOne},
           \A s \in Supervisors : api'[s].worker = "serving" => holder' = s
    PROVE  TypeOK'
<1>1. SupLabels = {"validate", "states", "up", "health", "migrate", "port",
                   "spawn", "wait", "monitor", "terminate", "await_exit",
                   "await_kill", "infra", "ended"}
  BY DEF SupLabels, Starting, Shutdown
<1>2. QED
  BY <1>1 DEF TypeOK, Memories, Groups

\* The move of a supervisor to another label changes nothing else of it.
LEMMA GotoEffect ==
    ASSUME TypeOK, NEW s \in Supervisors, NEW label \in SupLabels,
           Goto(s, label)
    PROVE  /\ sup' \in [Supervisors -> Memories]
           /\ sup'[s] = [sup[s] EXCEPT !.pc = label]
           /\ \A u \in Supervisors : u # s => sup'[u] = sup[u]
BY Types DEF Goto, Memories

\* A look at the container sets the flag and what was found.
LEMMA LookEffect ==
    ASSUME TypeOK, NEW s \in Supervisors, NEW here \in BOOLEAN,
           NEW found \in {"stopped", "running"},
           sup' = [sup EXCEPT ![s].pc = "up",
                              ![s].infrastructure_started_here = here,
                              ![s].found = found]
    PROVE  /\ sup' \in [Supervisors -> Memories]
           /\ sup'[s] = [sup[s] EXCEPT !.pc = "up",
                            !.infrastructure_started_here = here, !.found = found]
           /\ \A u \in Supervisors : u # s => sup'[u] = sup[u]
<1>1. "up" \in SupLabels
  BY DEF SupLabels, Starting
<1>2. sup[s] \in Memories /\ sup \in [Supervisors -> Memories]
  BY Types
<1> DEFINE m == [sup[s] EXCEPT !.pc = "up", !.infrastructure_started_here = here,
                                !.found = found]
<1>3. m \in Memories
  BY <1>1, <1>2 DEF Memories
<1>4. sup' = [sup EXCEPT ![s] = m]
  OBVIOUS
<1> HIDE DEF m
<1>5. sup' \in [Supervisors -> Memories] /\ sup'[s] = m
      /\ \A u \in Supervisors : u # s => sup'[u] = sup[u]
  BY <1>2, <1>3, <1>4
<1>6. QED
  BY <1>5 DEF m

\* The end of an up says who brought the container up.
LEMMA UpEffect ==
    ASSUME TypeOK, NEW s \in Supervisors, NEW brought \in BOOLEAN,
           sup' = [sup EXCEPT ![s].pc = "health", ![s].brought = brought]
    PROVE  /\ sup' \in [Supervisors -> Memories]
           /\ sup'[s] = [sup[s] EXCEPT !.pc = "health", !.brought = brought]
           /\ \A u \in Supervisors : u # s => sup'[u] = sup[u]
<1>1. "health" \in SupLabels
  BY DEF SupLabels, Starting
<1>2. sup[s] \in Memories /\ sup \in [Supervisors -> Memories]
  BY Types
<1> DEFINE m == [sup[s] EXCEPT !.pc = "health", !.brought = brought]
<1>3. m \in Memories
  BY <1>1, <1>2 DEF Memories
<1>4. sup' = [sup EXCEPT ![s] = m]
  OBVIOUS
<1> HIDE DEF m
<1>5. sup' \in [Supervisors -> Memories] /\ sup'[s] = m
      /\ \A u \in Supervisors : u # s => sup'[u] = sup[u]
  BY <1>2, <1>3, <1>4
<1>6. QED
  BY <1>5 DEF m

\* A supervisor that leaves turns to its processes, if it has any.
LEMMA LeaveEffect ==
    ASSUME TypeOK, NEW s \in Supervisors, Leave(s)
    PROVE  /\ sup' \in [Supervisors -> Memories]
           /\ sup'[s] = [sup[s] EXCEPT !.pc = FirstOfShutdown(s)]
           /\ \A u \in Supervisors : u # s => sup'[u] = sup[u]
<1>1. FirstOfShutdown(s) \in SupLabels
  BY DEF FirstOfShutdown, SupLabels, Shutdown
<1>2. QED
  BY <1>1, GotoEffect DEF Leave

-----------------------------------------------------------------------------
(***************************************************************************)
(* What is kept for each supervisor                                        *)
(***************************************************************************)
Own(s) == StartedInv(s) /\ WorkerInv(s) /\ OrderInv(s) /\ FlagInv(s)

\* A step of s, or of its API, leaves the others alone.
Only(s) ==
    /\ args' = args
    /\ \A u \in Supervisors : u # s => sup'[u] = sup[u] /\ api'[u] = api[u]

\* The supervisor moves on towards its API.
LEMMA Forward ==
    ASSUME IInv, NEW s \in Supervisors, Quiet,
           NEW label \in Starting, Goto(s, label), sup[s].pc \in Starting,
           label \in {"states", "up", "health"} => ~args[s].no_docker,
           label \in {"validate", "states", "up"} => ~sup[s].brought
    PROVE  TypeOK' /\ Own(s)' /\ Only(s)
<1>1. label \in SupLabels
  BY DEF SupLabels
<1>2. /\ sup' \in [Supervisors -> Memories]
      /\ sup'[s] = [sup[s] EXCEPT !.pc = label]
      /\ \A u \in Supervisors : u # s => sup'[u] = sup[u]
  BY <1>1, GotoEffect DEF IInv
<1>3. TypeOK' /\ Only(s)
  BY <1>2, Types, TypesAfter DEF IInv, Quiet, Only
<1>4. Own(s)
  BY DEF IInv, Own
<1>5. sup[s] \in Memories
  BY Types DEF IInv
<1>6. /\ sup'[s].pc = label /\ sup'[s].brought = sup[s].brought
      /\ sup'[s].infrastructure_started_here = sup[s].infrastructure_started_here
      /\ sup'[s].found = sup[s].found
      /\ api' = api /\ args' = args
  BY <1>2, <1>5 DEF Memories, Quiet
<1>7. StartedInv(s)'
  BY <1>4, <1>6 DEF Own, StartedInv, Starting
<1>8. WorkerInv(s)' /\ OrderInv(s)'
  BY <1>4, <1>6 DEF Own, WorkerInv, OrderInv, Starting
<1>9. FlagInv(s)'
  BY <1>4, <1>6 DEF Own, FlagInv
<1>10. QED
  BY <1>3, <1>7, <1>8, <1>9 DEF Own

\* The supervisor leaves for its shutdown, before it or while it waits.
LEMMA Leaves ==
    ASSUME IInv, NEW s \in Supervisors, Quiet, Leave(s),
           sup[s].pc \notin Shutdown
    PROVE  TypeOK' /\ Own(s)' /\ Only(s)
<1>2. /\ sup' \in [Supervisors -> Memories]
      /\ sup'[s] = [sup[s] EXCEPT !.pc = FirstOfShutdown(s)]
      /\ \A u \in Supervisors : u # s => sup'[u] = sup[u]
  BY LeaveEffect DEF IInv
<1>3. TypeOK' /\ Only(s)
  BY <1>2, Types, TypesAfter DEF IInv, Quiet, Only
<1>4. Own(s)
  BY DEF IInv, Own
<1>5. sup[s] \in Memories
  BY Types DEF IInv
<1>6. /\ sup'[s].pc = FirstOfShutdown(s) /\ sup'[s].brought = sup[s].brought
      /\ sup'[s].infrastructure_started_here = sup[s].infrastructure_started_here
      /\ sup'[s].found = sup[s].found
      /\ api' = api /\ args' = args
  BY <1>2, <1>5 DEF Memories, Quiet
<1>7. StartedInv(s)'
  BY <1>4, <1>6 DEF Own, StartedInv, Starting, FirstOfShutdown
<1>8. WorkerInv(s)' /\ OrderInv(s)'
  BY <1>4, <1>6 DEF Own, WorkerInv, OrderInv, StartedInv, FirstOfShutdown, Over
<1>9. FlagInv(s)'
  BY <1>4, <1>6 DEF Own, FlagInv, FirstOfShutdown
<1>10. QED
  BY <1>3, <1>7, <1>8, <1>9 DEF Own

\* The steps before the API is started.
LEMMA StartSteps ==
    ASSUME IInv, NEW s \in Supervisors,
           \/ Validate(s) \/ ReadStates(s) \/ ComposeUp(s) \/ AwaitHealth(s)
           \/ Migrate(s) \/ CheckPort(s)
    PROVE  TypeOK' /\ Own(s)' /\ Only(s)
<1>a. Own(s) /\ sup[s] \in Memories /\ args[s] \in CommandLines
  BY Types, ArgumentsAssumption DEF IInv, Own
<1>b. /\ AfterInfrastructure(s) \in Starting
      /\ AfterInfrastructure(s) \notin {"validate", "states", "up", "health"}
  BY DEF AfterInfrastructure, Starting
<1>1. CASE Validate(s)
  <2>1. sup[s].pc = "validate" /\ Quiet
    BY <1>1 DEF Validate, At
  <2>2. CASE Leave(s)
    BY <2>1, <2>2, Leaves DEF Shutdown
  <2>3. CASE Goto(s, IF args[s].no_docker THEN AfterInfrastructure(s) ELSE "states")
    <3> DEFINE label == IF args[s].no_docker THEN AfterInfrastructure(s) ELSE "states"
    <3>1. /\ label \in Starting
          /\ label \in {"states", "up", "health"} => ~args[s].no_docker
          /\ sup[s].pc \in Starting /\ ~sup[s].brought
      BY <1>a, <1>b, <2>1 DEF Starting, Own, FlagInv
    <3>2. Goto(s, label)
      BY <2>3
    <3> HIDE DEF label
    <3>3. QED
      BY <2>1, <3>1, <3>2, Forward
  <2>4. QED
    BY <1>1, <2>2, <2>3 DEF Validate
<1>2. CASE ReadStates(s)
  <2>1. sup[s].pc = "states" /\ Quiet
    BY <1>2 DEF ReadStates, At
  <2>2. CASE Leave(s)
    BY <2>1, <2>2, Leaves DEF Shutdown
  <2>3. CASE sup' = [sup EXCEPT ![s].pc = "up",
                                ![s].infrastructure_started_here = StartedHere,
                                ![s].found = IF postgres = "stopped" THEN "stopped"
                                             ELSE "running"]
    <3> DEFINE found == IF postgres = "stopped" THEN "stopped" ELSE "running"
    <3>1. /\ sup' \in [Supervisors -> Memories]
          /\ sup'[s] = [sup[s] EXCEPT !.pc = "up",
                           !.infrastructure_started_here = StartedHere,
                           !.found = found]
          /\ \A u \in Supervisors : u # s => sup'[u] = sup[u]
      <4>1. StartedHere \in BOOLEAN /\ found \in {"stopped", "running"}
        BY DEF StartedHere
      <4>2. QED
        BY <2>3, <4>1, LookEffect DEF IInv
    <3>2. /\ sup'[s].pc = "up" /\ sup'[s].brought = sup[s].brought
          /\ sup'[s].infrastructure_started_here = (postgres = "stopped")
          /\ sup'[s].found = found
      BY <1>a, <3>1 DEF Memories, StartedHere
    <3>3. TypeOK' /\ Only(s)
      BY <2>1, <3>1, Types, TypesAfter DEF IInv, Quiet, Only
    <3>4. FlagInv(s)'
      BY <1>a, <2>1, <3>2 DEF Own, FlagInv, Quiet
    <3>5. StartedInv(s)' /\ WorkerInv(s)' /\ OrderInv(s)'
      BY <1>a, <2>1, <3>2 DEF Own, Quiet, StartedInv, WorkerInv, OrderInv, Starting
    <3>6. QED
      BY <3>3, <3>4, <3>5 DEF Own
  <2>4. QED
    BY <1>2, <2>2, <2>3 DEF ReadStates
<1>3. CASE ComposeUp(s)
  <2>1. sup[s].pc = "up" /\ UNCHANGED <<args, api, holder>>
    BY <1>3 DEF ComposeUp, At
  <2>2. CASE Leave(s) /\ UNCHANGED postgres
    BY <2>1, <2>2, Leaves DEF Shutdown, Quiet
  <2>3. CASE /\ postgres' = IF postgres = "stopped" THEN "starting" ELSE postgres
             /\ sup' = [sup EXCEPT ![s].pc = "health",
                                   ![s].brought = postgres = "stopped"]
    <3>1. /\ sup' \in [Supervisors -> Memories]
          /\ \A u \in Supervisors : u # s => sup'[u] = sup[u]
          /\ sup'[s].pc = "health"
          /\ sup'[s].infrastructure_started_here = sup[s].infrastructure_started_here
          /\ sup'[s].found = sup[s].found
      <4>1. (postgres = "stopped") \in BOOLEAN
        OBVIOUS
      <4>2. /\ sup' \in [Supervisors -> Memories]
            /\ sup'[s] = [sup[s] EXCEPT !.pc = "health",
                                        !.brought = postgres = "stopped"]
            /\ \A u \in Supervisors : u # s => sup'[u] = sup[u]
        BY <2>3, <4>1, UpEffect DEF IInv
      <4>3. QED
        BY <1>a, <4>2 DEF Memories
    <3>2. TypeOK' /\ Only(s)
      BY <2>1, <2>3, <3>1, Types, TypesAfter DEF IInv, Only
    <3>3. FlagInv(s)'
      BY <1>a, <2>1, <3>1 DEF Own, FlagInv
    <3>4. StartedInv(s)' /\ WorkerInv(s)' /\ OrderInv(s)'
      BY <1>a, <2>1, <3>1 DEF Own, StartedInv, WorkerInv, OrderInv, Starting
    <3>5. QED
      BY <3>2, <3>3, <3>4 DEF Own
  <2>4. QED
    BY <1>3, <2>2, <2>3 DEF ComposeUp
<1>4. CASE AwaitHealth(s)
  <2>1. sup[s].pc = "health" /\ Quiet
    BY <1>4 DEF AwaitHealth, At
  <2>2. CASE Leave(s)
    BY <2>1, <2>2, Leaves DEF Shutdown
  <2>3. CASE Goto(s, AfterInfrastructure(s))
    BY <1>b, <2>1, <2>3, Forward DEF Starting
  <2>4. QED
    BY <1>4, <2>2, <2>3 DEF AwaitHealth
<1>5. CASE Migrate(s)
  <2>1. sup[s].pc = "migrate" /\ Quiet
    BY <1>5 DEF Migrate, At
  <2>2. CASE Leave(s)
    BY <2>1, <2>2, Leaves DEF Shutdown
  <2>3. CASE Goto(s, "port")
    BY <2>1, <2>3, Forward DEF Starting
  <2>4. QED
    BY <1>5, <2>2, <2>3 DEF Migrate
<1>6. CASE CheckPort(s)
  <2>1. sup[s].pc = "port" /\ Quiet
    BY <1>6 DEF CheckPort, At
  <2>2. CASE Leave(s)
    BY <2>1, <2>2, Leaves DEF Shutdown
  <2>3. CASE Goto(s, "spawn")
    BY <2>1, <2>3, Forward DEF Starting
  <2>4. QED
    BY <1>6, <2>2, <2>3 DEF CheckPort
<1>7. QED
  BY <1>1, <1>2, <1>3, <1>4, <1>5, <1>6

\* A supervisor that changes its memory in a shutdown, or notes a request,
\* and leaves the API as it is.
LEMMA Remembers ==
    ASSUME IInv, NEW s \in Supervisors, NEW m \in Memories,
           sup' = [sup EXCEPT ![s] = m],
           UNCHANGED <<args, api, holder>>,
           postgres' \in {"stopped", "starting", "healthy"},
           m.found = sup[s].found, m.brought = sup[s].brought,
           m.infrastructure_started_here = sup[s].infrastructure_started_here,
           \/ m.pc = sup[s].pc /\ m.gave_up = sup[s].gave_up
           \/ /\ sup[s].pc \notin Starting \/ m.pc = "infra"
              /\ m.pc \in {"monitor", "infra", "ended"}
              /\ m.pc = "monitor" => api[s].leader # "none"
              /\ m.pc \in {"infra", "ended"} =>
                    /\ api[s].worker \in Over \/ m.gave_up \/ api[s].orphaned
                    /\ api[s].leader # "alive" \/ m.gave_up
    PROVE  TypeOK' /\ Own(s)' /\ Only(s)
<1>1. Own(s) /\ sup \in [Supervisors -> Memories]
  BY Types DEF IInv, Own
<1>2. /\ sup' \in [Supervisors -> Memories] /\ sup'[s] = m
      /\ \A u \in Supervisors : u # s => sup'[u] = sup[u]
  BY <1>1
<1>3. TypeOK' /\ Only(s)
  BY <1>2, Types, TypesAfter DEF IInv, Only
<1>4. api' = api /\ args' = args
  OBVIOUS
<1>5. StartedInv(s)'
  BY <1>1, <1>2, <1>4 DEF Own, StartedInv, Starting
<1>6. WorkerInv(s)'
  BY <1>1, <1>4 DEF Own, WorkerInv
<1>7. OrderInv(s)'
  BY <1>1, <1>2, <1>4 DEF Own, OrderInv, BeyondReach
<1>8. FlagInv(s)'
  BY <1>1, <1>2, <1>4 DEF Own, FlagInv
<1>9. QED
  BY <1>3, <1>5, <1>6, <1>7, <1>8 DEF Own

\* The waits for the API, and the request to shut down.
LEMMA WaitSteps ==
    ASSUME IInv, NEW s \in Supervisors,
           RequestShutdown(s) \/ AwaitApi(s) \/ Monitor(s)
    PROVE  TypeOK' /\ Own(s)' /\ Only(s)
<1>a. /\ Own(s) /\ sup[s] \in Memories
      /\ postgres \in {"stopped", "starting", "healthy"}
      /\ holder \in Supervisors \cup {NoOne}
  BY Types DEF IInv, Own
<1>1. CASE RequestShutdown(s)
  <2> DEFINE m == [sup[s] EXCEPT !.shutdown_requested = TRUE]
  <2>1. /\ m \in Memories /\ m.found = sup[s].found
        /\ m.brought = sup[s].brought /\ m.pc = sup[s].pc
        /\ m.infrastructure_started_here = sup[s].infrastructure_started_here
        /\ m.gave_up = sup[s].gave_up
    BY <1>a DEF Memories
  <2>2. sup' = [sup EXCEPT ![s] = m] /\ Quiet
    BY <1>1 DEF RequestShutdown
  <2> HIDE DEF m
  <2>3. QED
    BY <1>a, <2>1, <2>2, Remembers DEF Quiet
<1>2. CASE AwaitApi(s)
  <2>1. sup[s].pc = "wait" /\ Quiet
    BY <1>2 DEF AwaitApi, At
  <2>2. CASE Leave(s)
    BY <2>1, <2>2, Leaves DEF Shutdown
  <2>3. CASE sup' = [sup EXCEPT ![s].pc = "monitor", ![s].answered = holder]
    <3> DEFINE m == [sup[s] EXCEPT !.pc = "monitor", !.answered = holder]
    <3>1. "monitor" \in SupLabels
      BY DEF SupLabels
    <3>2. /\ m \in Memories /\ m.found = sup[s].found
          /\ m.brought = sup[s].brought /\ m.pc = "monitor"
          /\ m.infrastructure_started_here = sup[s].infrastructure_started_here
      BY <1>a, <3>1 DEF Memories
    <3>3. sup' = [sup EXCEPT ![s] = m]
      BY <2>3
    <3>4. api[s].leader # "none" /\ sup[s].pc \notin Starting
      BY <1>a, <2>1 DEF Own, StartedInv, Starting
    <3> HIDE DEF m
    <3>5. QED
      BY <1>a, <2>1, <3>2, <3>3, <3>4, Remembers DEF Quiet
  <2>4. QED
    BY <1>2, <2>2, <2>3 DEF AwaitApi
<1>3. CASE Monitor(s)
  BY <1>3, Leaves DEF Monitor, At, Shutdown
<1>4. QED
  BY <1>1, <1>2, <1>3

\* The process group of s changes: it is still there, runs only what ran or
\* what a leader that is alive may start, and is not less an orphan.
LEMMA GroupChanges ==
    ASSUME IInv, NEW s \in Supervisors, NEW g \in Groups,
           api' = [api EXCEPT ![s] = g],
           UNCHANGED <<args, sup, postgres>>,
           holder' \in Supervisors \cup {NoOne},
           g.leader # "none",
           sup[s].pc \notin Starting,
           g.leader = "alive" => api[s].leader = "alive",
           g.worker \notin Over =>
              /\ api[s].worker \notin Over \/ api[s].leader = "alive"
              /\ g.leader = "alive" \/ g.orphaned
              /\ api[s].orphaned => g.orphaned,
           g.worker = "serving" => holder' = s,
           \A u \in Supervisors : u # s /\ holder = u => holder' = u
    PROVE  TypeOK' /\ Own(s)' /\ Only(s)
<1>1. Own(s) /\ api \in [Supervisors -> Groups]
  BY Types DEF IInv, Own
<1>2. /\ api' \in [Supervisors -> Groups] /\ api'[s] = g
      /\ \A u \in Supervisors : u # s => api'[u] = api[u]
  BY <1>1
<1>3. \A u \in Supervisors : api'[u].worker = "serving" => holder' = u
  BY <1>2, Types DEF IInv
<1>4. TypeOK'
  BY <1>2, <1>3, Types, TypesAfter DEF IInv
<1>5. Only(s) /\ sup' = sup /\ args' = args
  BY <1>2 DEF Only
<1>6. StartedInv(s)'
  BY <1>1, <1>2, <1>5 DEF Own, StartedInv
<1>7. WorkerInv(s)'
  BY <1>2 DEF WorkerInv
<1>8. OrderInv(s)'
  BY <1>1, <1>2, <1>5 DEF Own, OrderInv, BeyondReach
<1>9. FlagInv(s)'
  BY <1>1, <1>5 DEF Own, FlagInv
<1>10. QED
  BY <1>4, <1>5, <1>6, <1>7, <1>8, <1>9 DEF Own

\* The supervisor signals its process group.
LEMMA Signals ==
    ASSUME IInv, NEW s \in Supervisors, NEW label \in {"await_exit", "await_kill"},
           NEW signal \in {"term", "kill"},
           sup[s].pc \in {"terminate", "await_exit"},
           Goto(s, label), api' = [api EXCEPT ![s].sent = signal],
           UNCHANGED <<args, postgres, holder>>
    PROVE  TypeOK' /\ Own(s)' /\ Only(s)
<1>1. Own(s) /\ api[s] \in Groups /\ sup[s] \in Memories
  BY Types DEF IInv, Own
<1>2. label \in SupLabels
  BY DEF SupLabels, Shutdown
<1>3. /\ sup' \in [Supervisors -> Memories]
      /\ sup'[s] = [sup[s] EXCEPT !.pc = label]
      /\ \A u \in Supervisors : u # s => sup'[u] = sup[u]
  BY <1>2, GotoEffect DEF IInv
<1>4. /\ api' \in [Supervisors -> Groups]
      /\ api'[s] = [api[s] EXCEPT !.sent = signal]
      /\ \A u \in Supervisors : u # s => api'[u] = api[u]
  BY Types DEF IInv, Groups
<1>5. /\ sup'[s].pc = label /\ sup'[s].brought = sup[s].brought
      /\ sup'[s].infrastructure_started_here = sup[s].infrastructure_started_here
      /\ sup'[s].found = sup[s].found
  BY <1>1, <1>3 DEF Memories
<1>6. /\ api'[s].leader = api[s].leader /\ api'[s].worker = api[s].worker
      /\ api'[s].orphaned = api[s].orphaned
  BY <1>1, <1>4 DEF Groups
<1>7. \A u \in Supervisors : api'[u].worker = "serving" => holder' = u
  BY <1>4, <1>6, Types DEF IInv
<1>8. TypeOK'
  BY <1>3, <1>4, <1>7, Types, TypesAfter DEF IInv
<1>9. Only(s) /\ args' = args
  BY <1>3, <1>4 DEF Only
<1>10. StartedInv(s)'
  BY <1>1, <1>5, <1>6 DEF Own, StartedInv, Starting
<1>11. WorkerInv(s)' /\ OrderInv(s)'
  BY <1>1, <1>5, <1>6 DEF Own, WorkerInv, OrderInv
<1>12. FlagInv(s)'
  BY <1>1, <1>5, <1>9 DEF Own, FlagInv
<1>13. QED
  BY <1>8, <1>9, <1>10, <1>11, <1>12 DEF Own

\* The supervisor turns to the infrastructure, or ends.
LEMMA MovesOn ==
    ASSUME IInv, NEW s \in Supervisors, NEW label \in {"infra", "ended"},
           Goto(s, label), UNCHANGED <<args, api, holder>>,
           postgres' \in {"stopped", "starting", "healthy"},
           sup[s].pc \in Shutdown,
           api[s].worker \in Over \/ BeyondReach(s),
           api[s].leader # "alive" \/ sup[s].gave_up
    PROVE  TypeOK' /\ Own(s)' /\ Only(s)
<1> DEFINE m == [sup[s] EXCEPT !.pc = label]
<1>1. sup[s] \in Memories /\ label \in SupLabels
  BY Types DEF IInv, SupLabels, Shutdown
<1>2. /\ m \in Memories /\ m.found = sup[s].found
      /\ m.brought = sup[s].brought /\ m.pc = label
      /\ m.infrastructure_started_here = sup[s].infrastructure_started_here
      /\ m.gave_up = sup[s].gave_up
  BY <1>1 DEF Memories
<1>3. sup' = [sup EXCEPT ![s] = m]
  BY DEF Goto
<1>4. sup[s].pc \notin Starting /\ label # "monitor"
  BY DEF Shutdown, Starting
<1> HIDE DEF m
<1>5. QED
  BY <1>2, <1>3, <1>4, Remembers DEF BeyondReach

\* The steps of a shutdown.
LEMMA ShutdownSteps ==
    ASSUME IInv, NEW s \in Supervisors,
           \/ Terminate(s) \/ AwaitExit(s) \/ AwaitKill(s)
           \/ StopInfrastructure(s)
    PROVE  TypeOK' /\ Own(s)' /\ Only(s)
<1>a. /\ Own(s) /\ sup[s] \in Memories
      /\ postgres \in {"stopped", "starting", "healthy"}
  BY Types DEF IInv, Own
<1>b. api[s].leader = "dead" => api[s].worker \in Over \/ BeyondReach(s)
  BY <1>a DEF Own, WorkerInv, BeyondReach
<1>1. CASE Terminate(s)
  <2>1. sup[s].pc = "terminate" /\ UNCHANGED <<args, postgres, holder>>
    BY <1>1 DEF Terminate, At
  <2>2. CASE api[s].leader = "dead"
    <3>1. api' = api /\ Goto(s, "infra")
      BY <1>1, <2>2 DEF Terminate, AfterTerminate
    <3>2. QED
      BY <1>a, <1>b, <2>1, <2>2, <3>1, MovesOn DEF Shutdown
  <2>3. CASE api[s].leader # "dead"
    <3>1. api' = [api EXCEPT ![s].sent = "term"] /\ Goto(s, "await_exit")
      BY <1>1, <2>3 DEF Terminate, AfterTerminate
    <3>2. QED
      BY <2>1, <3>1, Signals
  <2>4. QED
    BY <2>2, <2>3
<1>2. CASE AwaitExit(s)
  <2>1. sup[s].pc = "await_exit" /\ UNCHANGED <<args, postgres, holder>>
    BY <1>2 DEF AwaitExit, At
  <2>2. CASE api[s].leader = "dead" /\ Goto(s, "infra") /\ UNCHANGED api
    BY <1>a, <1>b, <2>1, <2>2, MovesOn DEF Shutdown
  <2>3. CASE api' = [api EXCEPT ![s].sent = "kill"] /\ Goto(s, "await_kill")
    BY <2>1, <2>3, Signals
  <2>4. QED
    BY <1>2, <2>2, <2>3 DEF AwaitExit
<1>3. CASE AwaitKill(s)
  <2>1. sup[s].pc = "await_kill" /\ Quiet
    BY <1>3 DEF AwaitKill, At
  <2>2. CASE api[s].leader = "dead" /\ Goto(s, "infra")
    BY <1>a, <1>b, <2>1, <2>2, MovesOn DEF Shutdown, Quiet
  <2>3. CASE sup' = [sup EXCEPT ![s].pc = "infra", ![s].gave_up = TRUE]
    <3> DEFINE m == [sup[s] EXCEPT !.pc = "infra", !.gave_up = TRUE]
    <3>1. "infra" \in SupLabels
      BY DEF SupLabels, Shutdown
    <3>2. /\ m \in Memories /\ m.found = sup[s].found
          /\ m.brought = sup[s].brought /\ m.pc = "infra" /\ m.gave_up
          /\ m.infrastructure_started_here = sup[s].infrastructure_started_here
      BY <1>a, <3>1 DEF Memories
    <3>3. sup' = [sup EXCEPT ![s] = m]
      BY <2>3
    <3> HIDE DEF m
    <3>4. QED
      BY <1>a, <2>1, <3>2, <3>3, Remembers DEF Quiet
  <2>4. QED
    BY <1>3, <2>2, <2>3 DEF AwaitKill
<1>4. CASE StopInfrastructure(s)
  <2>1. /\ sup[s].pc = "infra" /\ UNCHANGED <<args, api, holder>>
        /\ postgres' \in {postgres, "stopped"}
    BY <1>4 DEF StopInfrastructure, At
  <2>2. /\ api[s].worker \in Over \/ BeyondReach(s)
        /\ api[s].leader # "alive" \/ sup[s].gave_up
    BY <1>a, <2>1 DEF Own, OrderInv
  <2>3. CASE Goto(s, "ended")
    BY <1>a, <2>1, <2>2, <2>3, MovesOn DEF Shutdown
  <2>4. CASE sup' = [sup EXCEPT ![s].pc = "ended", ![s].left = TRUE]
    <3> DEFINE m == [sup[s] EXCEPT !.pc = "ended", !.left = TRUE]
    <3>1. "ended" \in SupLabels /\ sup[s].pc \notin Starting
      BY <2>1 DEF SupLabels, Shutdown, Starting
    <3>2. /\ m \in Memories /\ m.found = sup[s].found
          /\ m.brought = sup[s].brought /\ m.pc = "ended"
          /\ m.gave_up = sup[s].gave_up
          /\ m.infrastructure_started_here = sup[s].infrastructure_started_here
      BY <1>a, <3>1 DEF Memories
    <3>3. sup' = [sup EXCEPT ![s] = m]
      BY <2>4
    <3> HIDE DEF m
    <3>4. QED
      BY <1>a, <2>1, <2>2, <3>1, <3>2, <3>3, Remembers DEF BeyondReach
  <2>5. QED
    BY <1>4, <2>3, <2>4 DEF StopInfrastructure
<1>5. QED
  BY <1>1, <1>2, <1>3, <1>4

\* The start of the API.
LEMMA SpawnStep ==
    ASSUME IInv, NEW s \in Supervisors, StartApi(s)
    PROVE  TypeOK' /\ Own(s)' /\ Only(s)
<1>a. /\ Own(s) /\ sup[s] \in Memories /\ api[s] \in Groups
      /\ api \in [Supervisors -> Groups]
  BY Types DEF IInv, Own
<1>1. sup[s].pc = "spawn" /\ UNCHANGED <<args, postgres, holder>>
  BY DEF StartApi, At
<1>2. CASE Leave(s) /\ UNCHANGED api
  BY <1>1, <1>2, Leaves DEF Shutdown, Quiet
<1>3. CASE /\ api' = [api EXCEPT ![s].leader = "alive",
                                 ![s].worker = IF args[s].reload THEN "none"
                                               ELSE "starting"]
           /\ Goto(s, "wait")
  <2> DEFINE first == IF args[s].reload THEN "none" ELSE "starting"
  <2>1. "wait" \in SupLabels
    BY DEF SupLabels
  <2>2. /\ sup' \in [Supervisors -> Memories]
        /\ sup'[s] = [sup[s] EXCEPT !.pc = "wait"]
        /\ \A u \in Supervisors : u # s => sup'[u] = sup[u]
    BY <1>3, <2>1, GotoEffect DEF IInv
  <2>3. /\ sup'[s].pc = "wait" /\ sup'[s].brought = sup[s].brought
        /\ sup'[s].infrastructure_started_here = sup[s].infrastructure_started_here
        /\ sup'[s].found = sup[s].found
    BY <1>a, <2>2 DEF Memories
  <2>4. /\ api' \in [Supervisors -> Groups]
        /\ api'[s].leader = "alive" /\ api'[s].worker # "serving"
        /\ \A u \in Supervisors : u # s => api'[u] = api[u]
    <3>1. first \in Over \cup {"starting"} /\ first # "serving"
      BY DEF Over
    <3>2. api' = [api EXCEPT ![s].leader = "alive", ![s].worker = first]
      BY <1>3
    <3> HIDE DEF first
    <3>3. QED
      BY <1>a, <3>1, <3>2 DEF Groups
  <2>5. \A u \in Supervisors : api'[u].worker = "serving" => holder' = u
    BY <1>1, <2>4, Types DEF IInv
  <2>6. TypeOK' /\ Only(s)
    BY <1>1, <2>2, <2>4, <2>5, Types, TypesAfter DEF IInv, Only
  <2>7. StartedInv(s)' /\ WorkerInv(s)' /\ OrderInv(s)'
    BY <2>3, <2>4 DEF StartedInv, WorkerInv, OrderInv, Starting
  <2>8. FlagInv(s)'
    BY <1>a, <1>1, <2>3 DEF Own, FlagInv
  <2>9. QED
    BY <2>6, <2>7, <2>8 DEF Own
<1>4. QED
  BY <1>2, <1>3 DEF StartApi

-----------------------------------------------------------------------------
(***************************************************************************)
(* The API processes                                                       *)
(***************************************************************************)
\* A group that has a process was started by its supervisor.
LEMMA Running ==
    ASSUME IInv, NEW s \in Supervisors,
           api[s].worker \notin Over \/ api[s].leader = "alive"
    PROVE  /\ api[s].leader # "none" /\ sup[s].pc \notin Starting
           /\ api[s] \in Groups
<1>1. StartedInv(s) /\ api[s] \in Groups
  BY Types DEF IInv
<1>2. api[s].leader # "none"
  BY <1>1 DEF StartedInv, Over
<1>3. QED
  BY <1>1, <1>2 DEF StartedInv

\* A port that s gives up is nobody's, and another's port stays with it.
LEMMA ReleasedIs ==
    ASSUME IInv, NEW s \in Supervisors, NEW leader
    PROVE  /\ Released(s, leader) \in Supervisors \cup {NoOne}
           /\ \A u \in Supervisors : u # s /\ holder = u => Released(s, leader) = u
BY Types DEF IInv, Released

\* The worker ends.
LEMMA EndsStep ==
    ASSUME IInv, NEW s \in Supervisors, NEW how \in {"exited", "crashed"},
           api[s].worker \notin Over, Ends(s, how)
    PROVE  TypeOK' /\ Own(s)' /\ Only(s)
<1> DEFINE leader == IF args[s].reload THEN api[s].leader ELSE "dead"
           g == [api[s] EXCEPT !.worker = how, !.leader = leader]
<1>1. /\ api[s].leader # "none" /\ sup[s].pc \notin Starting /\ api[s] \in Groups
  BY Running
<1>2. /\ leader \in {"none", "alive", "dead"} /\ leader # "none"
      /\ leader = "alive" => api[s].leader = "alive"
  BY <1>1 DEF Groups
<1>3. /\ api' = [api EXCEPT ![s] = g] /\ holder' = Released(s, leader)
      /\ UNCHANGED <<args, sup, postgres>>
  BY DEF Ends
<1> HIDE DEF leader
<1>4. g \in Groups /\ g.leader = leader /\ g.worker = how
  BY <1>1, <1>2 DEF Groups, Over
<1>5. g.worker \in Over /\ g.worker # "serving"
  BY <1>4 DEF Over
<1>6. /\ holder' \in Supervisors \cup {NoOne}
      /\ \A u \in Supervisors : u # s /\ holder = u => holder' = u
  BY <1>3, ReleasedIs
<1> HIDE DEF g
<1>7. QED
  BY <1>1, <1>2, <1>3, <1>4, <1>5, <1>6, GroupChanges

\* The worker goes on in its lifespan.
LEMMA BecomesStep ==
    ASSUME IInv, NEW s \in Supervisors,
           NEW state \in {"starting", "preparing", "binding"},
           api[s].worker \notin Over \/ api[s].leader = "alive",
           Becomes(s, state)
    PROVE  TypeOK' /\ Own(s)' /\ Only(s)
<1> DEFINE g == [api[s] EXCEPT !.worker = state]
<1>1. /\ api[s].leader # "none" /\ sup[s].pc \notin Starting /\ api[s] \in Groups
  BY Running
<1>2. /\ api' = [api EXCEPT ![s] = g] /\ UNCHANGED <<args, sup, postgres, holder>>
  BY DEF Becomes
<1>3. /\ g \in Groups /\ g.leader = api[s].leader /\ g.worker = state
      /\ g.orphaned = api[s].orphaned
  BY <1>1 DEF Groups
<1>4. g.worker # "serving" /\ (g.leader = "alive" \/ g.orphaned)
  BY <1>3 DEF IInv, WorkerInv
<1>5. holder' \in Supervisors \cup {NoOne} /\ holder' = holder
  BY <1>2, Types DEF IInv
<1> HIDE DEF g
<1>6. QED
  BY <1>1, <1>2, <1>3, <1>4, <1>5, GroupChanges

\* Every step of the API processes.
LEMMA ApiSteps ==
    ASSUME IInv, NEW s \in Supervisors,
           ApiStep(s) \/ ExitOnSignal(s) \/ Crash(s) \/ ReloaderCrash(s)
    PROVE  TypeOK' /\ Own(s)' /\ Only(s)
<1>1. CASE StartRuntime(s)
  <2>1. api[s].worker \notin Over /\ (Becomes(s, "preparing") \/ Ends(s, "exited"))
    BY <1>1 DEF StartRuntime, Over
  <2>2. QED
    BY <2>1, BecomesStep, EndsStep
<1>2. CASE Prepare(s)
  <2>1. api[s].worker \notin Over /\ (Becomes(s, "binding") \/ Ends(s, "exited"))
    BY <1>2 DEF Prepare, Over
  <2>2. QED
    BY <2>1, BecomesStep, EndsStep
<1>3. CASE Bind(s)
  <2>1. api[s].worker \notin Over
    BY <1>3 DEF Bind, Over
  <2>2. CASE holder # NoOne
    BY <1>3, <2>1, <2>2, EndsStep DEF Bind
  <2>3. CASE holder = NoOne
    <3> DEFINE g == [api[s] EXCEPT !.worker = "serving"]
    <3>1. /\ api[s].leader # "none" /\ sup[s].pc \notin Starting
          /\ api[s] \in Groups
      BY <2>1, Running
    <3>2. /\ api' = [api EXCEPT ![s] = g] /\ holder' = s
          /\ UNCHANGED <<args, sup, postgres>>
      BY <1>3, <2>3 DEF Bind
    <3>3. /\ g \in Groups /\ g.leader = api[s].leader /\ g.worker = "serving"
          /\ g.orphaned = api[s].orphaned
      BY <3>1 DEF Groups
    <3>4. g.leader = "alive" \/ g.orphaned
      BY <2>1, <3>3 DEF IInv, WorkerInv
    <3>5. \A u \in Supervisors : holder # u
      BY <2>3, NoOneAssumption
    <3> HIDE DEF g
    <3>6. QED
      BY <2>1, <3>1, <3>2, <3>3, <3>4, <3>5, GroupChanges
  <2>4. QED
    BY <2>2, <2>3
<1>4. CASE ReloaderExits(s)
  <2> DEFINE g == [api[s] EXCEPT !.leader = "dead"]
  <2>1. /\ api[s].leader = "alive" /\ api[s].worker \in Over
        /\ api' = [api EXCEPT ![s] = g] /\ holder' = Released(s, "dead")
        /\ UNCHANGED <<args, sup, postgres>>
    BY <1>4 DEF ReloaderExits
  <2>2. sup[s].pc \notin Starting /\ api[s] \in Groups
    BY <2>1, Running
  <2>3. /\ g \in Groups /\ g.leader = "dead" /\ g.worker = api[s].worker
    BY <2>2 DEF Groups
  <2>4. g.worker \in Over /\ g.worker # "serving"
    BY <2>1, <2>3 DEF Over
  <2>5. /\ holder' \in Supervisors \cup {NoOne}
        /\ \A u \in Supervisors : u # s /\ holder = u => holder' = u
    BY <2>1, ReleasedIs
  <2> HIDE DEF g
  <2>6. QED
    BY <2>1, <2>2, <2>3, <2>4, <2>5, GroupChanges
<1>5. CASE Killed(s)
  <2> DEFINE worker == IF api[s].worker \in Over THEN api[s].worker ELSE "crashed"
             g == [api[s] EXCEPT !.leader = "dead", !.worker = worker]
  <2>1. /\ api[s].worker \notin Over \/ api[s].leader = "alive"
        /\ holder' = Released(s, "dead")
        /\ UNCHANGED <<args, sup, postgres>>
    BY <1>5 DEF Killed
  <2>2. api' = [api EXCEPT ![s] = g]
    BY <1>5 DEF Killed
  <2>3. sup[s].pc \notin Starting /\ api[s] \in Groups
    BY <2>1, Running
  <2>4. worker \in Over /\ worker # "serving"
    BY DEF Over
  <2> HIDE DEF worker
  <2>5. g \in Groups /\ g.leader = "dead" /\ g.worker = worker
    BY <2>3, <2>4 DEF Groups
  <2>6. /\ holder' \in Supervisors \cup {NoOne}
        /\ \A u \in Supervisors : u # s /\ holder = u => holder' = u
    BY <2>1, ReleasedIs
  <2> HIDE DEF g
  <2>7. QED
    BY <2>1, <2>2, <2>3, <2>4, <2>5, <2>6, GroupChanges
<1>6. CASE ExitOnSignal(s)
  BY <1>6, EndsStep DEF ExitOnSignal, Over
<1>7. CASE Crash(s)
  BY <1>7, EndsStep DEF Crash
<1>8. CASE ReloaderCrash(s)
  <2> DEFINE orphaned == api[s].worker \notin Over
             g == [api[s] EXCEPT !.leader = "dead", !.orphaned = orphaned]
  <2>1. /\ api[s].leader = "alive"
        /\ holder' = IF api[s].worker \in Over THEN Released(s, "dead")
                     ELSE holder
        /\ UNCHANGED <<args, sup, postgres>>
        /\ api' = [api EXCEPT ![s] = g]
    BY <1>8 DEF ReloaderCrash
  <2>2. sup[s].pc \notin Starting /\ api[s] \in Groups
    BY <2>1, Running
  <2>3. orphaned \in BOOLEAN
    OBVIOUS
  <2>4. api[s].worker \notin Over => orphaned
    OBVIOUS
  <2>5. api[s].worker = "serving" => holder' = s
    BY <2>1, Types DEF IInv, Over
  <2> HIDE DEF orphaned
  <2>6. /\ g \in Groups /\ g.leader = "dead" /\ g.worker = api[s].worker
        /\ g.orphaned = orphaned
    BY <2>2, <2>3 DEF Groups
  <2>7. /\ holder' \in Supervisors \cup {NoOne}
        /\ \A u \in Supervisors : u # s /\ holder = u => holder' = u
    BY <2>1, ReleasedIs, Types DEF IInv
  <2> HIDE DEF g
  <2>8. QED
    BY <2>1, <2>2, <2>4, <2>5, <2>6, <2>7, GroupChanges
<1>9. CASE ReloaderBinds(s)
  <2>1. CASE holder # NoOne
    <3> DEFINE g == [api[s] EXCEPT !.leader = "dead"]
    <3>1. /\ api[s].leader = "alive" /\ api[s].worker = "none"
          /\ api' = [api EXCEPT ![s] = g]
          /\ UNCHANGED <<args, sup, postgres, holder>>
      BY <1>9, <2>1 DEF ReloaderBinds
    <3>2. sup[s].pc \notin Starting /\ api[s] \in Groups
      BY <3>1, Running
    <3>3. g \in Groups /\ g.leader = "dead" /\ g.worker = "none"
      BY <3>1, <3>2 DEF Groups
    <3>4. g.worker \in Over /\ holder' = holder
          /\ holder' \in Supervisors \cup {NoOne}
      BY <3>1, <3>3, Types DEF IInv, Over
    <3> HIDE DEF g
    <3>5. QED
      BY <3>1, <3>2, <3>3, <3>4, GroupChanges
  <2>2. CASE holder = NoOne
    BY <1>9, <2>2, BecomesStep DEF ReloaderBinds
  <2>3. QED
    BY <2>1, <2>2
<1>10. QED
  BY <1>1, <1>2, <1>3, <1>4, <1>5, <1>6, <1>7, <1>8, <1>9 DEF ApiStep

\* One step, of one supervisor or its API, or of none.
LEMMA OneStep ==
    ASSUME IInv, [Next]_vars
    PROVE  \/ \E s \in Supervisors :
                 /\ \/ RequestShutdown(s) \/ SupervisorStep(s) \/ ApiStep(s)
                    \/ ExitOnSignal(s) \/ Crash(s) \/ ReloaderCrash(s)
                 /\ TypeOK' /\ Own(s)' /\ Only(s)
           \/ /\ UNCHANGED <<args, sup, api, holder>>
              /\ postgres' = "stopped" => postgres = "stopped"
              /\ postgres = "stopped" => postgres' = "stopped"
              /\ TypeOK'
<1>1. ASSUME NEW s \in Supervisors,
             \/ RequestShutdown(s) \/ SupervisorStep(s) \/ ApiStep(s)
             \/ ExitOnSignal(s) \/ Crash(s) \/ ReloaderCrash(s)
      PROVE  TypeOK' /\ Own(s)' /\ Only(s)
  BY <1>1, StartSteps, SpawnStep, WaitSteps, ShutdownSteps, ApiSteps
     DEF SupervisorStep
<1>2. CASE PostgresIsHealthy
  <2>1. /\ UNCHANGED <<args, sup, api, holder>>
        /\ postgres = "starting" /\ postgres' = "healthy"
    BY <1>2 DEF PostgresIsHealthy
  <2>2. TypeOK'
    BY <2>1, Types, TypesAfter DEF IInv
  <2>3. QED
    BY <2>1, <2>2
<1>3. CASE UNCHANGED vars
  <2>1. UNCHANGED <<args, sup, api, holder, postgres>>
    BY <1>3 DEF vars
  <2>2. TypeOK'
    BY <2>1, Types, TypesAfter DEF IInv
  <2>3. QED
    BY <2>1, <2>2
<1>4. QED
  BY <1>1, <1>2, <1>3 DEF Next, Idle

\* What is kept for each supervisor, and the types.
LEMMA OwnKept ==
    ASSUME IInv, [Next]_vars
    PROVE  TypeOK' /\ \A u \in Supervisors : Own(u)'
<1>1. ASSUME NEW u \in Supervisors,
             args' = args, sup'[u] = sup[u], api'[u] = api[u]
      PROVE  Own(u)'
  <2>1. Own(u)
    BY DEF IInv, Own
  <2>2. StartedInv(u)' /\ WorkerInv(u)'
    BY <1>1, <2>1 DEF Own, StartedInv, WorkerInv
  <2>3. OrderInv(u)' /\ FlagInv(u)'
    BY <1>1, <2>1 DEF Own, OrderInv, FlagInv, BeyondReach
  <2>4. QED
    BY <2>2, <2>3 DEF Own
<1>2. ASSUME NEW s \in Supervisors, TypeOK', Own(s)', Only(s)
      PROVE  TypeOK' /\ \A u \in Supervisors : Own(u)'
  BY <1>1, <1>2 DEF Only
<1>3. ASSUME UNCHANGED <<args, sup, api, holder>>, TypeOK'
      PROVE  TypeOK' /\ \A u \in Supervisors : Own(u)'
  BY <1>1, <1>3
<1>4. QED
  BY <1>2, <1>3, OneStep

-----------------------------------------------------------------------------
(***************************************************************************)
(* The container                                                           *)
(***************************************************************************)
\* Only an up and a stop touch the container, and only the last step ends.
LEMMA LeavesContainer ==
    ASSUME IInv, NEW s \in Supervisors,
           \/ RequestShutdown(s) \/ Validate(s) \/ ReadStates(s)
           \/ AwaitHealth(s) \/ Migrate(s) \/ CheckPort(s) \/ StartApi(s)
           \/ AwaitApi(s) \/ Monitor(s)
           \/ Terminate(s) \/ AwaitExit(s) \/ AwaitKill(s)
    PROVE  /\ postgres' = postgres
           /\ sup'[s].brought = sup[s].brought
           /\ sup'[s].pc # "ended"
<1>a. sup \in [Supervisors -> Memories] /\ sup[s] \in Memories
  BY Types DEF IInv
<1>b. ASSUME NEW label, Goto(s, label), label # "ended"
      PROVE  sup'[s].brought = sup[s].brought /\ sup'[s].pc # "ended"
  BY <1>a, <1>b DEF Goto, Memories
<1>c. ASSUME Leave(s)
      PROVE  sup'[s].brought = sup[s].brought /\ sup'[s].pc # "ended"
  <2>1. FirstOfShutdown(s) # "ended"
    BY DEF FirstOfShutdown
  <2>2. QED
    BY <1>b, <1>c, <2>1 DEF Leave
<1>d. AfterInfrastructure(s) # "ended"
  BY DEF AfterInfrastructure
<1>1. CASE RequestShutdown(s)
  BY <1>a, <1>1 DEF RequestShutdown, Quiet, Memories, Shutdown
<1>2. CASE Validate(s)
  <2>1. (IF args[s].no_docker THEN AfterInfrastructure(s) ELSE "states") # "ended"
    BY <1>d
  <2>2. QED
    BY <1>2, <1>b, <1>c, <2>1 DEF Validate, Quiet
<1>3. CASE ReadStates(s)
  <2>1. postgres' = postgres
    BY <1>3 DEF ReadStates, Quiet
  <2>2. CASE sup' = [sup EXCEPT ![s].pc = "up",
                                ![s].infrastructure_started_here = StartedHere,
                                ![s].found = IF postgres = "stopped" THEN "stopped"
                                             ELSE "running"]
    BY <1>a, <2>1, <2>2 DEF Memories
  <2>3. QED
    BY <1>3, <1>c, <2>1, <2>2 DEF ReadStates
<1>4. CASE AwaitHealth(s)
  BY <1>4, <1>b, <1>c, <1>d DEF AwaitHealth, Quiet
<1>5. CASE Migrate(s)
  BY <1>5, <1>b, <1>c DEF Migrate, Quiet
<1>6. CASE CheckPort(s)
  BY <1>6, <1>b, <1>c DEF CheckPort, Quiet
<1>7. CASE StartApi(s)
  BY <1>7, <1>b, <1>c DEF StartApi
<1>8. CASE AwaitApi(s)
  BY <1>a, <1>8, <1>c DEF AwaitApi, Quiet, Memories
<1>9. CASE Monitor(s)
  BY <1>9, <1>c DEF Monitor, Quiet
<1>10. CASE Terminate(s)
  <2>1. AfterTerminate(s) # "ended"
    BY DEF AfterTerminate
  <2>2. QED
    BY <1>10, <1>b, <2>1 DEF Terminate
<1>11. CASE AwaitExit(s)
  BY <1>11, <1>b DEF AwaitExit
<1>12. CASE AwaitKill(s)
  BY <1>a, <1>12, <1>b DEF AwaitKill, Quiet, Memories
<1>13. QED
  BY <1>1, <1>2, <1>3, <1>4, <1>5, <1>6, <1>7, <1>8, <1>9, <1>10, <1>11, <1>12

\* The steps of an API touch neither a supervisor nor the container.
LEMMA ApiIsApart ==
    ASSUME NEW s \in Supervisors,
           ApiStep(s) \/ ExitOnSignal(s) \/ Crash(s) \/ ReloaderCrash(s)
    PROVE  UNCHANGED <<args, sup, postgres>>
<1>1. ASSUME NEW how, Ends(s, how) PROVE UNCHANGED <<args, sup, postgres>>
  BY <1>1 DEF Ends
<1>2. ASSUME NEW how, Becomes(s, how) PROVE UNCHANGED <<args, sup, postgres>>
  BY <1>2 DEF Becomes
<1>3. QED
  BY <1>1, <1>2 DEF ApiStep, ReloaderBinds, StartRuntime, Prepare, Bind, ReloaderExits, Killed,
                   ExitOnSignal, Crash, ReloaderCrash

\* The end of a supervisor: it has stopped the container, or its memory says
\* why not.
LEMMA StopEffect ==
    ASSUME IInv, NEW s \in Supervisors, StopInfrastructure(s)
    PROVE  /\ sup[s].pc = "infra" /\ sup'[s].pc = "ended"
           /\ sup'[s].brought = sup[s].brought /\ sup'[s].found = sup[s].found
           /\ \/ postgres' = "stopped" /\ sup[s].infrastructure_started_here
              \/ /\ postgres' = postgres
                 /\ \/ sup'[s].left
                    \/ ~sup[s].infrastructure_started_here
                    \/ args[s].keep_infra
                    \/ args[s].no_docker
<1>a. sup \in [Supervisors -> Memories] /\ sup[s] \in Memories
  BY Types DEF IInv
<1>b. sup[s].pc = "infra"
  BY DEF StopInfrastructure, At
<1>1. ASSUME Goto(s, "ended")
      PROVE  /\ sup'[s].pc = "ended"
             /\ sup'[s].brought = sup[s].brought /\ sup'[s].found = sup[s].found
  BY <1>a, <1>1 DEF Goto, Memories
<1>2. ASSUME sup' = [sup EXCEPT ![s].pc = "ended", ![s].left = TRUE]
      PROVE  /\ sup'[s].pc = "ended" /\ sup'[s].left
             /\ sup'[s].brought = sup[s].brought /\ sup'[s].found = sup[s].found
  BY <1>a, <1>2 DEF Memories
<1>3. \/ /\ sup[s].infrastructure_started_here
         /\ postgres' = "stopped" /\ Goto(s, "ended")
      \/ /\ sup' = [sup EXCEPT ![s].pc = "ended", ![s].left = TRUE]
         /\ postgres' = postgres
      \/ /\ \/ ~sup[s].infrastructure_started_here
            \/ args[s].keep_infra
            \/ args[s].no_docker
         /\ Goto(s, "ended") /\ postgres' = postgres
  BY DEF StopInfrastructure
<1>4. QED
  BY <1>b, <1>1, <1>2, <1>3

\* A running container stays somebody's business.
LEMMA ContainerKept ==
    ASSUME IInv, [Next]_vars
    PROVE  ContainerInv'
<1> DEFINE Business(u) ==
              /\ sup[u].brought
              /\ \/ sup[u].pc # "ended"
                 \/ sup[u].found # "stopped"
                 \/ args[u].keep_infra
                 \/ sup[u].left
<1>a. postgres # "stopped" /\ (\E u \in Supervisors : sup[u].brought) =>
         \E u \in Supervisors : Business(u)
  BY DEF IInv, ContainerInv, At
<1> SUFFICES ASSUME postgres' # "stopped",
                    NEW v \in Supervisors, sup'[v].brought
             PROVE  \E u \in Supervisors : Business(u)'
  BY DEF ContainerInv, At
<1>1. CASE UNCHANGED <<args, sup>> /\ postgres # "stopped"
  BY <1>1, <1>a
<1>2. ASSUME NEW s \in Supervisors, Only(s),
             postgres' = postgres, sup'[s].brought = sup[s].brought,
             sup'[s].pc # "ended"
      PROVE  \E u \in Supervisors : Business(u)'
  <2>1. sup[v].brought
    BY <1>2 DEF Only
  <2>2. PICK w \in Supervisors : Business(w)
    BY <1>2, <1>a, <2>1
  <2>3. CASE w = s
    BY <1>2, <2>2, <2>3
  <2>4. CASE w # s
    BY <1>2, <2>2, <2>4 DEF Only
  <2>5. QED
    BY <2>3, <2>4
<1>3. ASSUME NEW s \in Supervisors, Only(s), StopInfrastructure(s)
      PROVE  \E u \in Supervisors : Business(u)'
  <2>1. /\ sup'[s].brought = sup[s].brought /\ sup'[s].found = sup[s].found
        /\ postgres' = postgres
        /\ \/ sup'[s].left
           \/ ~sup[s].infrastructure_started_here
           \/ args[s].keep_infra
           \/ args[s].no_docker
    BY <1>3, StopEffect
  <2>2. sup[v].brought
    BY <1>3, <2>1 DEF Only
  <2>3. PICK w \in Supervisors : Business(w)
    BY <1>a, <2>1, <2>2
  <2>4. CASE w = s
    <3>1. FlagInv(s) /\ sup[s].brought
      BY <2>3, <2>4 DEF IInv
    <3>2. Business(s)'
      BY <1>3, <2>1, <3>1 DEF FlagInv, Only
    <3>3. QED
      BY <3>2
  <2>5. CASE w # s
    BY <1>3, <2>3, <2>5 DEF Only
  <2>6. QED
    BY <2>4, <2>5
<1>4. ASSUME NEW s \in Supervisors, Only(s), ComposeUp(s)
      PROVE  \E u \in Supervisors : Business(u)'
  <2>a. sup \in [Supervisors -> Memories] /\ sup[s] \in Memories
    BY Types DEF IInv
  <2>1. CASE Leave(s) /\ UNCHANGED postgres
    <3>1. FirstOfShutdown(s) # "ended"
      BY DEF FirstOfShutdown
    <3>2. sup'[s].brought = sup[s].brought /\ sup'[s].pc # "ended"
      BY <2>a, <2>1, <3>1 DEF Leave, Goto, Memories
    <3>3. QED
      BY <1>2, <1>4, <2>1, <3>2
  <2>2. CASE sup' = [sup EXCEPT ![s].pc = "health",
                                ![s].brought = postgres = "stopped"]
    <3>1. sup'[s].pc = "health" /\ sup'[s].brought = (postgres = "stopped")
      BY <2>a, <2>2 DEF Memories
    <3>2. CASE postgres = "stopped"
      BY <3>1, <3>2
    <3>3. CASE postgres # "stopped"
      <4>1. ~sup[s].brought /\ v # s
        BY <1>4, <3>1, <3>3 DEF IInv, FlagInv, ComposeUp, At
      <4>2. PICK w \in Supervisors : Business(w)
        BY <1>4, <1>a, <3>3, <4>1 DEF Only
      <4>3. w # s
        BY <4>1, <4>2
      <4>4. QED
        BY <1>4, <4>2, <4>3 DEF Only
    <3>4. QED
      BY <3>2, <3>3
  <2>3. QED
    BY <1>4, <2>1, <2>2 DEF ComposeUp
<1>5. ASSUME NEW s \in Supervisors, Only(s),
             \/ RequestShutdown(s) \/ SupervisorStep(s) \/ ApiStep(s)
             \/ ExitOnSignal(s) \/ Crash(s) \/ ReloaderCrash(s)
      PROVE  \E u \in Supervisors : Business(u)'
  <2>1. CASE ApiStep(s) \/ ExitOnSignal(s) \/ Crash(s) \/ ReloaderCrash(s)
    BY <1>1, <2>1, ApiIsApart
  <2>2. CASE ComposeUp(s)
    BY <1>4, <1>5, <2>2
  <2>3. CASE StopInfrastructure(s)
    BY <1>3, <1>5, <2>3
  <2>4. CASE \/ RequestShutdown(s) \/ Validate(s) \/ ReadStates(s)
             \/ AwaitHealth(s) \/ Migrate(s) \/ CheckPort(s) \/ StartApi(s)
             \/ AwaitApi(s) \/ Monitor(s)
             \/ Terminate(s) \/ AwaitExit(s) \/ AwaitKill(s)
    BY <1>2, <1>5, <2>4, LeavesContainer
  <2>5. QED
    BY <1>5, <2>1, <2>2, <2>3, <2>4 DEF SupervisorStep
<1>6. QED
  BY <1>1, <1>5, OneStep

-----------------------------------------------------------------------------
(***************************************************************************)
(* Results                                                                 *)
(***************************************************************************)
\* Before the first command every supervisor is at its beginning ...
LEMMA BackendInit == Init => IInv
<1> SUFFICES ASSUME Init PROVE IInv
  OBVIOUS
<1>1. NewSupervisor \in Memories
  BY DEF NewSupervisor, Memories, SupLabels, Starting
<1>2. NewApi \in Groups
  BY DEF NewApi, Groups, Over
<1>3. \A s \in Supervisors : sup[s] = NewSupervisor /\ api[s] = NewApi
  BY DEF Init
<1>4. TypeOK
  <2>1. /\ args \in Arguments /\ sup \in [Supervisors -> Memories]
        /\ api \in [Supervisors -> Groups]
        /\ postgres \in {"stopped", "starting", "healthy"} /\ holder = NoOne
    BY <1>1, <1>2 DEF Init
  <2>2. \A s \in Supervisors : api[s].worker # "serving"
    <3>1. NewApi.worker = "none"
      BY DEF NewApi
    <3>2. QED
      BY <1>3, <3>1
  <2>3. QED
    BY <2>1, <2>2, Types
<1>5. ASSUME NEW s \in Supervisors
      PROVE  StartedInv(s) /\ WorkerInv(s) /\ OrderInv(s) /\ FlagInv(s)
  BY <1>3 DEF NewSupervisor, NewApi, StartedInv, WorkerInv, OrderInv, FlagInv,
              Over, BeyondReach, Starting
<1>6. ContainerInv
  BY <1>3 DEF ContainerInv, NewSupervisor
<1>7. QED
  BY <1>4, <1>5, <1>6 DEF IInv

\* ... and every step keeps what makes it right, ...
LEMMA BackendStep == IInv /\ [Next]_vars => IInv'
<1> SUFFICES ASSUME IInv, [Next]_vars PROVE IInv'
  OBVIOUS
<1>1. TypeOK' /\ \A u \in Supervisors : Own(u)'
  BY OwnKept
<1>2. ContainerInv'
  BY ContainerKept
<1>3. QED
  BY <1>1, <1>2 DEF IInv, Own

\* ... so it holds in every reachable state, for any number of supervisors.
THEOREM BackendInvariance == Spec => []IInv
BY BackendInit, BackendStep, PTL DEF Spec

\* Every variable has its type, and only the API that holds the port serves.
THEOREM BackendTypeCorrect == Spec => []TypeOK
<1>1. IInv => TypeOK
  BY DEF IInv
<1>2. QED
  BY <1>1, BackendInvariance, PTL

\* A supervisor that has ended has left no API process within its reach, and
\* a container that supervisors have brought up is left only with a reason.
THEOREM BackendEndsClean == Spec => []EndsClean
<1>1. IInv => EndedLeavesNoProcess
  BY DEF IInv, EndedLeavesNoProcess, OrderInv, BeyondReach, At
<1>2. IInv => LeftRunningIsAccounted
  <2> SUFFICES ASSUME IInv, \A s \in Supervisors : At(s, "ended"),
                      \E s \in Supervisors : sup[s].brought,
                      postgres # "stopped"
               PROVE  \E s \in Supervisors :
                         \/ /\ sup[s].infrastructure_started_here
                            /\ args[s].keep_infra \/ sup[s].left
                         \/ sup[s].brought /\ sup[s].found # "stopped"
    BY DEF LeftRunningIsAccounted
  <2>1. PICK s \in Supervisors :
           /\ sup[s].brought
           /\ sup[s].found # "stopped" \/ args[s].keep_infra \/ sup[s].left
    BY DEF IInv, ContainerInv
  <2>2. sup[s].infrastructure_started_here <=> sup[s].found = "stopped"
    BY DEF IInv, FlagInv
  <2>3. QED
    BY <2>1, <2>2
<1>3. IInv => EndsClean
  BY <1>1, <1>2 DEF EndsClean
<1>4. QED
  BY <1>3, BackendInvariance, PTL

\* A supervisor stops PostgreSQL only after its own API, and only when it
\* found it stopped.
THEOREM BackendStopsOnlyItsOwn == Spec => StopsOnlyItsOwn
<1>1. ASSUME IInv, [Next]_vars PROVE StopFollowsOwnApi
  BY <1>1 DEF IInv, OrderInv, StopFollowsOwnApi, At
<1>2. ASSUME IInv, [Next]_vars PROVE FoundRunningIsLeft
  <2> SUFFICES ASSUME NEW s \in Supervisors, sup[s].found # "stopped",
                      sup[s].pc # "ended", sup'[s].pc = "ended"
               PROVE  postgres' = postgres
    BY DEF FoundRunningIsLeft, At
  <2>1. ~sup[s].infrastructure_started_here
    BY <1>2 DEF IInv, FlagInv
  <2>2. CASE sup' = sup
    BY <2>2
  <2>3. ASSUME NEW u \in Supervisors, Only(u),
               RequestShutdown(u) \/ SupervisorStep(u)
        PROVE  postgres' = postgres
    <3>1. u = s
      BY <2>3 DEF Only
    <3>2. CASE StopInfrastructure(s)
      BY <1>2, <2>1, <3>2, StopEffect
    <3>3. CASE ComposeUp(s)
      <4>a. sup \in [Supervisors -> Memories] /\ sup[s] \in Memories
        BY <1>2, Types DEF IInv
      <4>1. FirstOfShutdown(s) # "ended"
        BY DEF FirstOfShutdown
      <4>2. sup'[s].pc \in {FirstOfShutdown(s), "health"}
        BY <3>3, <4>a DEF ComposeUp, Leave, Goto, Memories
      <4>3. QED
        BY <4>1, <4>2
    <3>4. QED
      BY <1>2, <2>3, <3>1, <3>2, <3>3, LeavesContainer DEF SupervisorStep
  <2>4. QED
    BY <1>2, <2>2, <2>3, OneStep, ApiIsApart
<1>3. IInv /\ [Next]_vars => [StopFollowsOwnApi /\ FoundRunningIsLeft]_vars
  BY <1>1, <1>2
<1>4. QED
  BY <1>3, BackendInvariance, PTL DEF Spec, StopsOnlyItsOwn
=============================================================================
