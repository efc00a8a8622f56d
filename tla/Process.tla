------------------------------- MODULE Process -------------------------------
(***************************************************************************)
(* src/main.py: the life of the process, from the environment it finds to  *)
(* its exit code.  main() loads the configuration and runs _run_env or     *)
(* _run_database, one coroutine that is suspended at `main`; beside it run *)
(* the connects of the clients, the reconcile loop, the admin UI's request *)
(* handlers and the operator's Ctrl-C.                                     *)
(*                                                                         *)
(* Ctrl-C cancels the coroutine (asyncio.run): the CancelledError passes   *)
(* `except Exception` and runs only the `finally` around stop_event.wait().*)
(* The stop event itself is never set.  A second Ctrl-C is left out.       *)
(***************************************************************************)
EXTENDS EnvConfig, GroupTable

CONSTANTS
    Started,        \* what the process may find: [environ, table]
    NotLoaded,
    MaxRequests     \* bound on the admin requests in progress

ASSUME ProcessAssumption ==
    /\ Started \subseteq [environ : Environs, table : Seq(Rows)]
    /\ \A start \in Started : IsTable(start.table)
    /\ NotLoaded \notin Configs \cup {ConfigError}
    /\ NotLoaded \notin Seq(DesiredGroups) \cup {RowsRefused}
    /\ MaxRequests \in Nat

VARIABLES
    environ,        \* os.environ
    table,          \* the rows in the database when they are first read
    config,         \* what load_config() made of it
    desired,        \* what rows_to_desired() made of the rows
    main,           \* where the main coroutine is
    todo,           \* what is left of its cleanup, when main = "ending"
    exit_code,      \* the exit code, or the one the cleanup ends with
    connects,       \* WeCom client |-> "pending", "ok", "failed" or "cancelled"
    disconnected,   \* the clients disconnect() was called for
    sweeper,        \* whether the session sweeper was started
    repo,           \* the repository: "none", "open", "closed"
    loop,           \* reload_task: "none", "running", "cancelling", "done"
    listening,      \* whether the admin UI accepts requests
    requests,       \* the admin requests in progress
    interrupted     \* what Ctrl-C interrupted: "none", "start" or "service"

vars == <<environ, table, config, desired, main, todo, exit_code, connects, disconnected, sweeper,
          repo, loop, listening, requests, interrupted>>

found == <<environ, table>>

background == <<sweeper, repo, loop, listening, requests>>

Clients == DOMAIN connects

InDatabase == config.source = "database"

\* The process ends; asyncio.run cancels the tasks that are left.
Exit(code) ==
    /\ main' = "exited"
    /\ exit_code' = code
    /\ todo' = << >>
    /\ requests' = 0
    /\ loop' = IF loop = "none" THEN "none" ELSE "done"

\* What `except Exception` does before it raises again: close what may be open.
Failing ==
    /\ main' = "ending"
    /\ todo' = IF InDatabase THEN <<"close_dify", "close_repo">> ELSE <<"close_dify">>
    /\ exit_code' = 1

-----------------------------------------------------------------------------
(* Start.                                                                  *)

LoadRefused ==
    /\ main = "load"
    /\ config' = LoadConfig(environ)
    /\ config' = ConfigError
    /\ Exit(1)
    /\ UNCHANGED <<found, desired, connects, disconnected, sweeper, repo, listening, interrupted>>

\* _run_env calls connect() for all groups at once; _run_database opens its database.
LoadAccepted ==
    /\ main = "load"
    /\ config' = LoadConfig(environ)
    /\ config' # ConfigError
    /\ main' = IF config'.source = "database" THEN "opening" ELSE "connecting"
    /\ connects' = [g \in DOMAIN config'.groups |-> "pending"]
    /\ UNCHANGED <<found, desired, todo, exit_code, disconnected, background, interrupted>>

ConnectEnds(g) ==
    /\ main # "exited"
    /\ connects[g] = "pending"
    /\ \E outcome \in {"ok", "failed"} : connects' = [connects EXCEPT ![g] = outcome]
    /\ UNCHANGED <<found, config, desired, main, todo, exit_code, disconnected, background,
                   interrupted>>

\* Mutant: gather() that returns exceptions instead of raising the first one.
AllEnded ==
    /\ main = "connecting"
    /\ \A g \in Clients : connects[g] # "pending"
    /\ main' = "serving"
    /\ sweeper' = TRUE
    /\ UNCHANGED <<found, config, desired, todo, exit_code, connects, disconnected, repo, loop,
                   listening, requests, interrupted>>

AllConnected ==
    /\ main = "connecting"
    /\ \A g \in Clients : connects[g] = "ok"
    /\ main' = "serving"
    /\ sweeper' = TRUE
    /\ UNCHANGED <<found, config, desired, todo, exit_code, connects, disconnected, repo, loop,
                   listening, requests, interrupted>>

\* gather() raises as soon as one connect does.
OneFailed ==
    /\ main = "connecting"
    /\ \E g \in Clients : connects[g] = "failed"
    /\ Failing
    /\ UNCHANGED <<found, config, desired, connects, disconnected, background, interrupted>>

OpenRepo ==
    /\ main = "opening"
    /\ repo' = "open"
    /\ main' = "listing"
    /\ UNCHANGED <<found, config, desired, todo, exit_code, connects, disconnected, sweeper, loop,
                   listening, requests, interrupted>>

\* The database cannot be opened or not be read ...
DatabaseFails ==
    /\ main \in {"opening", "listing"}
    /\ Failing
    /\ UNCHANGED <<found, config, desired, connects, disconnected, background, interrupted>>

\* ... or its rows are not what they should be.
RowsAreRefused ==
    /\ main = "listing"
    /\ desired' = RowsToDesired(table)
    /\ desired' = RowsRefused
    /\ Failing
    /\ UNCHANGED <<found, config, connects, disconnected, background, interrupted>>

RowsAccepted ==
    /\ main = "listing"
    /\ desired' = RowsToDesired(table)
    /\ desired' # RowsRefused
    /\ connects' = [g \in DOMAIN desired' |-> "pending"]
    /\ UNCHANGED <<found, config, todo, exit_code, disconnected, repo, listening, requests,
                   interrupted>>

\* Mutant: waits for the connects before it goes on.
StartGroupsAndWait ==
    /\ RowsAccepted
    /\ main' = "connecting"
    /\ sweeper' = TRUE
    /\ loop' = "running"

\* Mutant: without start_sweeper().
StartGroupsUnswept ==
    /\ RowsAccepted
    /\ main' = IF config.admin_ui THEN "binding" ELSE "serving"
    /\ loop' = "running"
    /\ UNCHANGED sweeper

\* From list_rows to the next await: the clients of the enabled rows, whose connects
\* are detached tasks, the sweeper and the reconcile loop.
StartGroups ==
    /\ RowsAccepted
    /\ main' = IF config.admin_ui THEN "binding" ELSE "serving"
    /\ sweeper' = TRUE
    /\ loop' = "running"

StartAdmin ==
    /\ main = "binding"
    /\ listening' = TRUE
    /\ main' = "serving"
    /\ UNCHANGED <<found, config, desired, todo, exit_code, connects, disconnected, sweeper, repo,
                   loop, requests, interrupted>>

PortTaken ==
    /\ main = "binding"
    /\ Failing
    /\ UNCHANGED <<found, config, desired, connects, disconnected, background, interrupted>>

-----------------------------------------------------------------------------
(* Service: admin requests come and go.                                    *)

RequestArrives ==
    /\ listening
    /\ requests < MaxRequests
    /\ requests' = requests + 1
    /\ UNCHANGED <<found, config, desired, main, todo, exit_code, connects, disconnected, sweeper,
                   repo, loop, listening, interrupted>>

RequestEnds ==
    /\ requests > 0
    /\ requests' = requests - 1
    /\ UNCHANGED <<found, config, desired, main, todo, exit_code, connects, disconnected, sweeper,
                   repo, loop, listening, interrupted>>

-----------------------------------------------------------------------------
(* Ctrl-C, and the `finally` around stop_event.wait().                     *)

\* Before that, nothing cleans up: the interpreter ends.
InterruptStart ==
    /\ interrupted = "none"
    /\ main \in {"connecting", "opening", "listing", "binding", "ending"}
    /\ interrupted' = "start"
    /\ Exit(0)
    /\ UNCHANGED <<found, config, desired, connects, disconnected, sweeper, repo, listening>>

\* _run_env disconnects its clients in turn; one whose disconnect() raises keeps the
\* rest from being disconnected, and the cancellation becomes a failure.
InterruptEnv ==
    /\ interrupted = "none"
    /\ main = "serving" /\ ~ InDatabase
    /\ interrupted' = "service"
    /\ \/ /\ disconnected' = Clients
          /\ main' = "ending" /\ todo' = <<"close_dify">> /\ exit_code' = 0
       \/ /\ \E g \in Clients : disconnected' = {h \in Clients : h < g}
          /\ Failing
    /\ UNCHANGED <<found, config, desired, connects, background>>

\* Mutant: the admin UI, whose handlers use the repository, is stopped last.
StopOrderAdminLast ==
    <<"await_loop", "shutdown_manager", "close_repo">>
      \o (IF config.admin_ui THEN <<"stop_admin">> ELSE << >>) \o <<"close_dify">>

StopOrder ==
    <<"await_loop">> \o (IF config.admin_ui THEN <<"stop_admin">> ELSE << >>)
      \o <<"shutdown_manager", "close_repo", "close_dify">>

InterruptDatabase ==
    /\ interrupted = "none"
    /\ main = "serving" /\ InDatabase
    /\ interrupted' = "service"
    /\ main' = "ending" /\ todo' = StopOrder /\ exit_code' = 0
    /\ loop' = "cancelling"
    /\ UNCHANGED <<found, config, desired, connects, disconnected, sweeper, repo, listening, requests>>

\* Mutant: a loop whose `except Exception` takes the cancellation, too.
LoopGoesOn ==
    /\ loop = "cancelling"
    /\ loop' = "running"
    /\ UNCHANGED <<found, config, desired, main, todo, exit_code, connects, disconnected, sweeper,
                   repo, listening, requests, interrupted>>

\* The cancellation reaches reconcile_loop.
LoopCancelled ==
    /\ loop = "cancelling"
    /\ loop' = "done"
    /\ UNCHANGED <<found, config, desired, main, todo, exit_code, connects, disconnected, sweeper,
                   repo, listening, requests, interrupted>>

\* It is the turn of this part of the cleanup; after the last one the process ends.
Turn(part) == main = "ending" /\ todo # << >> /\ Head(todo) = part

Proceed ==
    /\ todo' = Tail(todo)
    /\ UNCHANGED <<found, config, desired, main, exit_code, interrupted>>

LoopAwaited ==
    /\ Turn("await_loop")
    /\ loop = "done"
    /\ Proceed
    /\ UNCHANGED <<connects, disconnected, background>>

\* runner.cleanup() closes the listener, then lets the handlers finish for a while
\* (60 s) and cancels those that did not.
StopListening ==
    /\ Turn("stop_admin")
    /\ listening
    /\ listening' = FALSE
    /\ UNCHANGED <<found, config, desired, main, todo, exit_code, connects, disconnected, sweeper,
                   repo, loop, requests, interrupted>>

AdminStopped ==
    /\ Turn("stop_admin")
    /\ ~ listening
    /\ requests' = 0
    /\ Proceed
    /\ UNCHANGED <<connects, disconnected, sweeper, repo, loop, listening>>

\* Mutant: disconnects the connected clients only.
ShutdownConnected ==
    /\ Turn("shutdown_manager")
    /\ disconnected' = {g \in Clients : connects[g] = "ok"}
    /\ Proceed
    /\ UNCHANGED <<connects, background>>

\* GroupManager has the steps of shutdown().  A client whose connect failed is gone.
ShutdownManager ==
    /\ Turn("shutdown_manager")
    /\ connects' = [g \in Clients |->
                      IF connects[g] = "pending" THEN "cancelled" ELSE connects[g]]
    /\ disconnected' = {g \in Clients : connects[g] # "failed"}
    /\ Proceed
    /\ UNCHANGED background

CloseRepo ==
    /\ Turn("close_repo")
    /\ repo' = IF repo = "open" THEN "closed" ELSE repo
    /\ Proceed
    /\ UNCHANGED <<connects, disconnected, sweeper, loop, listening, requests>>

CloseDify ==
    /\ Turn("close_dify")
    /\ Proceed
    /\ UNCHANGED <<connects, disconnected, background>>

CleanupEnds ==
    /\ main = "ending" /\ todo = << >>
    /\ Exit(exit_code)
    /\ UNCHANGED <<found, config, desired, connects, disconnected, sweeper, repo, listening,
                   interrupted>>

-----------------------------------------------------------------------------
Init ==
    /\ \E start \in Started : environ = start.environ /\ table = start.table
    /\ config = NotLoaded /\ desired = NotLoaded
    /\ main = "load"
    /\ todo = << >> /\ exit_code = 0
    /\ connects = << >> /\ disconnected = {}
    /\ sweeper = FALSE
    /\ repo = "none" /\ loop = "none"
    /\ listening = FALSE /\ requests = 0
    /\ interrupted = "none"

StartStep ==
    LoadRefused \/ LoadAccepted \/ AllConnected \/ OneFailed \/ OpenRepo \/ DatabaseFails
      \/ RowsAreRefused \/ StartGroups \/ StartAdmin \/ PortTaken

StopStep ==
    LoopAwaited \/ StopListening \/ AdminStopped \/ ShutdownManager \/ CloseRepo
      \/ CloseDify \/ CleanupEnds

MainStep == StartStep \/ StopStep

Interrupt == InterruptStart \/ InterruptEnv \/ InterruptDatabase

Next ==
    \/ MainStep
    \/ LoopCancelled
    \/ Interrupt
    \/ RequestArrives \/ RequestEnds
    \/ \E g \in Clients : ConnectEnds(g)

\* The event loop runs the coroutine when what it awaits is there, local files answer,
\* and a cancellation is delivered.  A connect may hang, the handlers' clients may be
\* slow, and nobody has to press Ctrl-C.
Fairness == WF_vars(MainStep) /\ WF_vars(LoopCancelled)

Spec == Init /\ [][Next]_vars /\ Fairness

-----------------------------------------------------------------------------
Parts == {"await_loop", "stop_admin", "shutdown_manager", "close_repo", "close_dify"}

\* What is cleaned up, started or listened on has its type, and the admin UI listens
\* only over a repository and a loop.
TypeOK ==
    /\ [environ |-> environ, table |-> table] \in Started
    /\ config \in {NotLoaded, ConfigError} \cup Configs
    /\ desired \in {NotLoaded, RowsRefused} \cup Seq(DesiredGroups)
    /\ main \in {"load", "connecting", "opening", "listing", "binding", "serving", "ending",
                 "exited"}
    /\ Range(todo) \subseteq Parts
    /\ exit_code \in {0, 1}
    /\ Range(connects) \subseteq {"pending", "ok", "failed", "cancelled"}
    /\ disconnected \subseteq Clients
    /\ repo \in {"none", "open", "closed"}
    /\ loop \in {"none", "running", "cancelling", "done"}
    /\ requests \in 0..MaxRequests
    /\ interrupted \in {"none", "start", "service"}
    /\ loop # "none" => sweeper
    /\ listening => repo # "none" /\ loop # "none"

\* Any incomplete or gapped group, duplicate name or missing variable stops the
\* process, and nothing else does; the groups are those of the variables, in order, and
\* in database mode stale group variables do not matter.
ConfigIsWhatWasWritten ==
    config # NotLoaded =>
        /\ config # ConfigError <=> WellConfigured(environ)
        /\ config # ConfigError /\ ~ InDatabase =>
             LET k == Len(config.groups)
             IN  /\ Complete(environ.entries) = 1..k
                 /\ config.groups = [n \in 1..k |-> Group(n, environ.entries[n])]

\* The groups are the enabled rows, in order and each once, and the start fails over a
\* row that is invalid, although it may be disabled, and over names that differ in
\* spaces only, although UNIQUE accepts them; over nothing else.
DesiredIsWhatIsStored ==
    desired # NotLoaded =>
        /\ desired # RowsRefused <=> WellFilled(table)
        /\ desired # RowsRefused =>
             /\ Range(desired) = {RowGroup(i, table[i]) : i \in EnabledRows(table)}
             /\ \A i, j \in DOMAIN desired : i < j => desired[i].index < desired[j].index

\* "fails the process rather than running half-broken": a process that is up has every
\* part the configuration asks for, whatever failed on the way.
ServingIsWhole ==
    main = "serving" =>
        /\ sweeper
        /\ IF InDatabase
           THEN /\ repo = "open" /\ loop = "running" /\ listening = config.admin_ui
                /\ Clients = DOMAIN desired
           ELSE /\ Len(config.groups) > 0
                /\ \A g \in DOMAIN config.groups : connects[g] = "ok"

\* The parts are stopped in the order of their use: no request finds the repository
\* closed, and no loop is there to start clients once they are disconnected.
NothingUsedAfterItsEnd ==
    /\ requests > 0 => repo = "open"
    /\ disconnected # {} => loop \in {"none", "done"}

\* "exits with code 1 (the Docker restart policy then retries)": only a process that was
\* interrupted ends with 0, and after a stop in service with 0 every client that was
\* there is disconnected and nothing is left open, connects that hang included.
ZeroMeansCleanStop ==
    main = "exited" /\ exit_code = 0 =>
        /\ interrupted # "none"
        /\ interrupted = "service" =>
             /\ \A g \in Clients : connects[g] \in {"ok", "cancelled"} => g \in disconnected
             /\ \A g \in Clients : connects[g] # "pending"
             /\ repo # "open"
             /\ loop \in {"none", "done"}
             /\ ~ listening

\* Ctrl-C ends the process, whatever the loop, the requests and the connects do.
StopsWhenTold == interrupted # "none" ~> main = "exited"

\* "a failing group must not block the whole startup": in database mode the process
\* gets up or gives up, although connects may hang for ever.
StartsOrFails ==
    (config \notin {NotLoaded, ConfigError} /\ InDatabase) ~> main \in {"serving", "exited"}
=============================================================================
