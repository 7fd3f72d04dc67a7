---------------------------- MODULE WorkerProcess ----------------------------
(***************************************************************************)
(* The worker containers of a deployment: scripts/start.sh with alembic's  *)
(* env.py, the health server it leaves in the background, and the TaskIQ   *)
(* worker it becomes, whose processes run on_startup and on_shutdown of    *)
(* worker.py.  Every replica migrates the one database before it serves.   *)
(*                                                                         *)
(* Kubernetes restarts a container that ends; TaskIQ's process manager     *)
(* restarts a process that dies without ending the container.              *)
(***************************************************************************)
EXTENDS Migrations

CONSTANTS Replica,        \* containers of the deployment
          Process,        \* worker processes in each: WORKER_CONCURRENCY
          MaxDbFaults,    \* lost database connections during a migration
          MaxCrashes,     \* containers, health servers or processes that die
          MaxStops,       \* containers told to stop
          MaxDowngrades   \* alembic downgrade -1, by an operator

ASSUME BoundAssumption ==
    MaxDbFaults \in Nat /\ MaxCrashes \in Nat /\ MaxStops \in Nat /\ MaxDowngrades \in Nat

VARIABLES
    config,    \* the environment of the deployment
    schema,    \* the objects of the database
    version,   \* alembic_version
    stage,     \* [replica] how far start.sh is
    seen,      \* [replica] the version its alembic read
    health,    \* [replica] the health server
    child,     \* [replica, process] a worker process
    emitter,   \* the processes, as <<replica, process>>, whose _sio is set
    faults     \* how often each fault has happened

vars == <<config, schema, version, stage, seen, health, child, emitter, faults>>

Stage == {"down", "alembic", "upgrading", "migrated", "running", "stopping"}

\* The URLs of core/config.py: as they should be, of another scheme, or empty.
Url == {"valid", "scheme", "empty"}

Config == [rabbitmq_url : Url, redis_url : Url, database_url : Url]

ChildState == {"none", "booting", "idle", "busy", "dead", "ended"}

TypeOK ==
    /\ config \in Config
    /\ schema \subseteq MadeBy(Head)
    /\ version \in Version
    /\ stage \in [Replica -> Stage]
    /\ seen \in [Replica -> Version]
    /\ health \in [Replica -> {"off", "starting", "up", "dead"}]
    /\ child \in [Replica \X Process -> ChildState]
    /\ emitter \subseteq Replica \X Process
    /\ faults \in [db : 0 .. MaxDbFaults, crash : 0 .. MaxCrashes,
                   stop : 0 .. MaxStops, downgrade : 0 .. MaxDowngrades]

\* Settings without validate_redis_url.
SettingsLoad_NoRedisCheck == config.rabbitmq_url = "valid"

\* Settings(), run by the import of core/config.py: validate_rabbitmq_url and
\* validate_redis_url refuse another scheme, and the empty URL with it.
SettingsLoad == config.rabbitmq_url = "valid" /\ config.redis_url = "valid"

\* A URL that names no known driver makes no engine.
EngineMade == config.database_url = "valid"

\* The errors of validate_config.
ConfigErrors == {name \in DOMAIN config : config[name] = "empty"}

Deployable == SettingsLoad /\ EngineMade

\* The revisions pending on this schema can never run.
Wedged == ~Upgradable(schema, version)

Init ==
    /\ config \in Config
    /\ version \in Version
    /\ schema = MadeBy(version)
    /\ stage = [r \in Replica |-> "down"]
    /\ seen = [r \in Replica |-> 0]
    /\ health = [r \in Replica |-> "off"]
    /\ child = [rp \in Replica \X Process |-> "none"]
    /\ emitter = {}
    /\ faults = [db |-> 0, crash |-> 0, stop |-> 0, downgrade |-> 0]

-----------------------------------------------------------------------------
(* start.sh up to the migration. *)

database == <<schema, version>>
processes == <<child, emitter>>

\* The container's first process ends and takes all the others with it.
End(r) ==
    /\ stage' = [stage EXCEPT ![r] = "down"]
    /\ health' = [health EXCEPT ![r] = "off"]
    /\ child' = [rp \in Replica \X Process |-> IF rp[1] = r THEN "none" ELSE child[rp]]
    /\ emitter' = {rp \in emitter : rp[1] # r}

Start(r) ==
    /\ stage[r] = "down"
    /\ stage' = [stage EXCEPT ![r] = "alembic"]
    /\ UNCHANGED <<config, database, seen, health, processes, faults>>

\* env.py imports the settings and makes an engine before it connects; set -e
\* ends the script.
ConfigRefused(r) ==
    /\ stage[r] = "alembic"
    /\ ~Deployable
    /\ End(r)
    /\ UNCHANGED <<config, database, seen, faults>>

\* do_run_migrations opens its transaction and reads the current version.
ReadVersion(r) ==
    /\ stage[r] = "alembic"
    /\ Deployable
    /\ stage' = [stage EXCEPT ![r] = "upgrading"]
    /\ seen' = [seen EXCEPT ![r] = version]
    /\ UNCHANGED <<config, database, health, processes, faults>>

\* A migration that commits what it has when the connection breaks.
DatabaseLost_KeepsTables(r) ==
    /\ stage[r] \in {"alembic", "upgrading"}
    /\ Deployable
    /\ faults.db < MaxDbFaults
    /\ faults' = [faults EXCEPT !.db = @ + 1]
    /\ End(r)
    /\ schema' = IF stage[r] = "upgrading" THEN Upgraded(schema, seen[r]) ELSE schema
    /\ UNCHANGED <<config, version, seen>>

\* The database cannot be reached, or is lost before the commit: the one
\* transaction of all the pending revisions rolls back.
DatabaseLost(r) ==
    /\ stage[r] \in {"alembic", "upgrading"}
    /\ Deployable
    /\ faults.db < MaxDbFaults
    /\ faults' = [faults EXCEPT !.db = @ + 1]
    /\ End(r)
    /\ UNCHANGED <<config, database, seen>>

\* run_migrations: the pending revisions and the new version, in one commit.
\* Replicas that started together race here and the objects of the first to
\* commit are in the way of the others.
Upgrade(r) ==
    /\ stage[r] = "upgrading"
    /\ Upgradable(schema, seen[r])
    /\ schema' = Upgraded(schema, seen[r])
    /\ version' = Head
    /\ stage' = [stage EXCEPT ![r] = "migrated"]
    /\ UNCHANGED <<config, seen, health, processes, faults>>

\* start.sh without set -e.
UpgradeRefused_Ignored(r) ==
    /\ stage[r] = "upgrading"
    /\ ~Upgradable(schema, seen[r])
    /\ stage' = [stage EXCEPT ![r] = "migrated"]
    /\ UNCHANGED <<config, database, seen, health, processes, faults>>

\* start.sh that runs the same upgrade again until it works.
UpgradeRefused_Waits(r) ==
    /\ stage[r] = "upgrading"
    /\ ~Upgradable(schema, seen[r])
    /\ UNCHANGED vars

\* A duplicate object ends alembic, and set -e the script.
UpgradeRefused(r) ==
    /\ stage[r] = "upgrading"
    /\ ~Upgradable(schema, seen[r])
    /\ End(r)
    /\ UNCHANGED <<config, database, seen, faults>>

-----------------------------------------------------------------------------
(* start.sh after the migration: the health server and the worker. *)

\* uvicorn goes to the background and the worker takes over at once.
Launch(r) ==
    /\ stage[r] = "migrated"
    /\ stage' = [stage EXCEPT ![r] = "running"]
    /\ health' = [health EXCEPT ![r] = "starting"]
    /\ child' = [rp \in Replica \X Process |-> IF rp[1] = r THEN "booting" ELSE child[rp]]
    /\ UNCHANGED <<config, database, seen, emitter, faults>>

\* From here on /health and /ready answer, whatever the worker does.
HealthUp(r) ==
    /\ health[r] = "starting"
    /\ health' = [health EXCEPT ![r] = "up"]
    /\ UNCHANGED <<config, database, stage, seen, processes, faults>>

\* init_emitter: made without a connection, so it cannot fail here.
InitEmitter(r, p) == emitter' = emitter \cup {<<r, p>>}

\* close_emitter
CloseEmitter(r, p) == emitter' = emitter \ {<<r, p>>}

\* on_startup, before the process listens: validate_config, the engine and the
\* emitter.
Boot(r, p) ==
    /\ child[<<r, p>>] = "booting"
    /\ stage[r] = "running"
    /\ ConfigErrors = {}
    /\ child' = [child EXCEPT ![<<r, p>>] = "idle"]
    /\ IF config.redis_url = "empty" THEN UNCHANGED emitter ELSE InitEmitter(r, p)
    /\ UNCHANGED <<config, database, stage, seen, health, faults>>

Take(r, p) ==
    /\ stage[r] = "running"
    /\ child[<<r, p>>] = "idle"
    /\ child' = [child EXCEPT ![<<r, p>>] = "busy"]
    /\ UNCHANGED <<config, database, stage, seen, health, emitter, faults>>

Finish(r, p) ==
    /\ child[<<r, p>>] = "busy"
    /\ child' = [child EXCEPT ![<<r, p>>] = "idle"]
    /\ UNCHANGED <<config, database, stage, seen, health, emitter, faults>>

\* The broker cannot be reached at start-up, or the process is killed: the
\* process manager starts another, and the health server never knows.
ProcessDies(r, p) ==
    /\ child[<<r, p>>] \in {"booting", "idle", "busy"}
    /\ faults.crash < MaxCrashes
    /\ faults' = [faults EXCEPT !.crash = @ + 1]
    /\ child' = [child EXCEPT ![<<r, p>>] = "dead"]
    /\ emitter' = emitter \ {<<r, p>>}
    /\ UNCHANGED <<config, database, stage, seen, health>>

Respawn(r, p) ==
    /\ stage[r] = "running"
    /\ child[<<r, p>>] = "dead"
    /\ child' = [child EXCEPT ![<<r, p>>] = "booting"]
    /\ UNCHANGED <<config, database, stage, seen, health, emitter, faults>>

-----------------------------------------------------------------------------
(* The end of a container. *)

\* SIGTERM, from a rollout or because the liveness probe found no health server.
Terminate(r) ==
    /\ stage[r] = "running"
    /\ \/ health[r] = "dead" /\ UNCHANGED faults
       \/ faults.stop < MaxStops /\ faults' = [faults EXCEPT !.stop = @ + 1]
    /\ stage' = [stage EXCEPT ![r] = "stopping"]
    /\ UNCHANGED <<config, database, seen, health, processes>>

\* TaskIQ: a process told to stop first waits for its delivery in progress.
DeliveryOver(r, p) == child[<<r, p>>] # "busy"

\* on_shutdown, after which the process ends.
Shutdown(r, p) ==
    /\ stage[r] = "stopping"
    /\ child[<<r, p>>] # "ended"
    /\ DeliveryOver(r, p)
    /\ child' = [child EXCEPT ![<<r, p>>] = "ended"]
    /\ CloseEmitter(r, p)
    /\ UNCHANGED <<config, database, stage, seen, health, faults>>

Exit(r) ==
    /\ stage[r] = "stopping"
    /\ \A p \in Process : child[<<r, p>>] = "ended"
    /\ End(r)
    /\ UNCHANGED <<config, database, seen, faults>>

\* The container is killed: out of memory, or past the grace of a SIGTERM.
Kill(r) ==
    /\ stage[r] # "down"
    /\ faults.crash < MaxCrashes
    /\ faults' = [faults EXCEPT !.crash = @ + 1]
    /\ End(r)
    /\ UNCHANGED <<config, database, seen>>

\* Nothing in start.sh watches the process in the background.
HealthDies(r) ==
    /\ health[r] \in {"starting", "up"}
    /\ faults.crash < MaxCrashes
    /\ faults' = [faults EXCEPT !.crash = @ + 1]
    /\ health' = [health EXCEPT ![r] = "dead"]
    /\ UNCHANGED <<config, database, stage, seen, processes>>

\* An operator undoes the last revision; nobody does while containers run.
Downgrade ==
    /\ \A r \in Replica : stage[r] = "down"
    /\ version > 0
    /\ faults.downgrade < MaxDowngrades
    /\ faults' = [faults EXCEPT !.downgrade = @ + 1]
    /\ schema' = schema \ Drops(version)
    /\ version' = version - 1
    /\ UNCHANGED <<config, stage, seen, health, processes>>

-----------------------------------------------------------------------------

StartUp(r) ==
    \/ Start(r)
    \/ ConfigRefused(r)
    \/ ReadVersion(r)
    \/ Upgrade(r)
    \/ UpgradeRefused(r)
    \/ Launch(r)

Work(r, p) ==
    \/ Boot(r, p)
    \/ Finish(r, p)
    \/ Respawn(r, p)
    \/ Shutdown(r, p)

Next ==
    \/ \E r \in Replica :
          \/ StartUp(r) \/ HealthUp(r) \/ Terminate(r) \/ Exit(r)
          \/ DatabaseLost(r) \/ Kill(r) \/ HealthDies(r)
          \/ \E p \in Process : Work(r, p) \/ Take(r, p) \/ ProcessDies(r, p)
    \/ Downgrade

Spec == Init /\ [][Next]_vars

\* Kubernetes restarts and probes, start.sh runs on, a delivery comes to an
\* end and the process manager does its work.  Messages need not arrive.
Fairness ==
    \A r \in Replica :
        /\ WF_vars(StartUp(r))
        /\ WF_vars(HealthUp(r))
        /\ WF_vars(health[r] = "dead" /\ Terminate(r))
        /\ WF_vars(Exit(r))
        /\ \A p \in Process : WF_vars(Work(r, p))

FairSpec == Spec /\ Fairness

-----------------------------------------------------------------------------

Serving(r, p) == child[<<r, p>>] \in {"idle", "busy"}

\* A process that takes messages finds every table and index of the migrations,
\* however many replicas raced to make them and whatever broke on the way, and
\* an emitter: without one emit_task_event drops every event and says nothing.
ServesReady ==
    \A r \in Replica, p \in Process :
        Serving(r, p) => MadeBy(Head) \subseteq schema /\ <<r, p>> \in emitter

\* No migration is applied in part: the objects are those of the recorded
\* version, but for the enum type that a downgrade to base leaves behind.
SchemaOfVersion ==
    /\ MadeBy(version) \subseteq schema
    /\ schema \subseteq MadeBy(version) \cup {"taskstatus"}

\* A container whose health server was started has run every migration, and its
\* configuration is one that on_startup accepts: validate_config never has an
\* error to raise.
HealthFollowsMigration ==
    \A r \in Replica :
        health[r] # "off" => Deployable /\ ConfigErrors = {} /\ version = Head

\* A downgrade to base, and nothing else, makes a database that no start of a
\* container can ever migrate again: the type it left is in the way.
BaseIsWedged == Wedged <=> version = 0 /\ faults.downgrade > 0

\* Whatever dies, is stopped or loses its race, in the end every process of
\* every replica serves, unless the configuration is refused or the database
\* was downgraded to base.
EventuallyServes ==
    <>[](Deployable /\ ~Wedged => \A r \in Replica, p \in Process : Serving(r, p))
=============================================================================
