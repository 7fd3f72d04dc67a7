------------------------- MODULE WorkerProcessProofs -------------------------
(***************************************************************************)
(* What holds of any number of replicas and processes, however often they  *)
(* and the database fail.                                                  *)
(*                                                                         *)
(* The schema is that of the recorded version because the revisions commit *)
(* together or not at all, and because a stale upgrade finds its objects   *)
(* in the way.  A replica is past its migration only on a database at      *)
(* head, which a downgrade cannot leave while any replica is up.           *)
(***************************************************************************)
EXTENDS WorkerProcess, TLAPS

\* The migrations make what the models declare, nothing else, and all of it but one
\* object: the created_at index that TimestampedTable gives task_attempt.
THEOREM IndexMissing ==
    /\ MissingAtHead = {"ix_task_attempt_created_at"}
    /\ UndeclaredAtHead = {}
<1>1. 1 .. Head = {1, 2}
  BY DEF Head
<1>2. MadeBy(Head) = ExecutionObjects \cup AttemptObjects
  BY <1>1, SMT DEF MadeBy, Creates
<1>3. /\ CreatedAtIndex["task_execution"] = "ix_task_execution_created_at"
      /\ CreatedAtIndex["task_attempt"] = "ix_task_attempt_created_at"
  BY DEF CreatedAtIndex
<1>4. ExecutionDeclared = ExecutionObjects
  BY <1>3 DEF ExecutionDeclared, ExecutionObjects
<1>5. AttemptDeclared = AttemptObjects \cup {"taskstatus", "ix_task_attempt_created_at"}
  BY <1>3 DEF AttemptDeclared, AttemptObjects
<1>6. /\ "taskstatus" \in ExecutionObjects
      /\ "ix_task_attempt_created_at" \notin ExecutionObjects \cup AttemptObjects
  BY DEF ExecutionObjects, AttemptObjects
<1> QED
  BY <1>2, <1>4, <1>5, <1>6 DEF MissingAtHead, UndeclaredAtHead, Declared

\* The three versions, written out.
LEMMA Versions ==
    /\ Version = {0, 1, 2}
    /\ MadeBy(0) = {}
    /\ MadeBy(1) = Creates(1)
    /\ MadeBy(2) = Creates(1) \cup Creates(2)
<1>1. 1 .. 0 = {} /\ 1 .. 1 = {1} /\ 1 .. 2 = {1, 2}
  OBVIOUS
<1>2. Version = {0, 1, 2}
  BY DEF Version, Head
<1> QED
  BY <1>1, <1>2, SMT DEF MadeBy

\* An upgrade from the version that is recorded makes the schema of head, and
\* one from an older version cannot run.
LEMMA UpgradeReachesHead ==
    ASSUME NEW objects, NEW at \in Version, NEW from \in Version,
           MadeBy(at) \subseteq objects,
           Upgradable(objects, from)
    PROVE  /\ at <= from
           /\ at = from => Upgraded(objects, from) = objects \cup MadeBy(Head)
<1>1. \A revision \in from + 1 .. Head : Creates(revision) \cap objects = {}
  BY DEF Upgradable
<1>2. \A revision \in 1 .. at : Creates(revision) # {} /\ Creates(revision) \subseteq objects
  BY DEF MadeBy, Creates, ExecutionObjects, AttemptObjects
<1>3. at <= from
  <2> SUFFICES ASSUME from < at PROVE FALSE
    BY DEF Version
  <2>1. at \in from + 1 .. Head /\ at \in 1 .. at
    BY DEF Version, Head
  <2> QED
    BY <1>1, <1>2, <2>1
<1>4. ASSUME at = from
      PROVE  Upgraded(objects, from) = objects \cup MadeBy(Head)
  <2>1. 1 .. Head = (1 .. at) \cup (from + 1 .. Head)
    BY <1>4 DEF Version, Head
  <2>2. MadeBy(Head) = MadeBy(at) \cup UNION {Creates(r) : r \in from + 1 .. Head}
    BY <2>1 DEF MadeBy
  <2> QED
    BY <2>2 DEF Upgraded
<1> QED
  BY <1>3, <1>4

\* The version a replica read is never ahead of the one recorded while it
\* upgrades, and past the upgrade the database is at head.
PastMigration ==
    \A r \in Replica :
        /\ stage[r] \in {"upgrading", "migrated", "running", "stopping"} => Deployable
        /\ stage[r] = "upgrading" => seen[r] <= version
        /\ stage[r] \in {"migrated", "running", "stopping"} => version = Head

\* The health server and the worker processes live only after Launch, and a
\* process that serves has its emitter.
LiveAfterLaunch ==
    \A r \in Replica :
        /\ stage[r] \notin {"running", "stopping"} =>
               health[r] = "off" /\ \A p \in Process : child[<<r, p>>] = "none"
        /\ \A p \in Process : Serving(r, p) => <<r, p>> \in emitter

\* At base, the enum type is there exactly if a downgrade has left it.
Leftover == version = 0 => ("taskstatus" \in schema <=> faults.downgrade > 0)

StartInv ==
    /\ TypeOK
    /\ SchemaOfVersion
    /\ PastMigration
    /\ LiveAfterLaunch
    /\ Leftover

\* Next, with every action named.
ReplicaStep(r) ==
    \/ Start(r) \/ ConfigRefused(r) \/ ReadVersion(r) \/ Upgrade(r) \/ UpgradeRefused(r)
    \/ Launch(r) \/ HealthUp(r) \/ Terminate(r) \/ Exit(r)
    \/ DatabaseLost(r) \/ Kill(r) \/ HealthDies(r)

ProcessStep(r, p) ==
    \/ Boot(r, p) \/ Finish(r, p) \/ Respawn(r, p) \/ Shutdown(r, p)
    \/ Take(r, p) \/ ProcessDies(r, p)

LEMMA NextSplit ==
    Next => \/ \E r \in Replica : ReplicaStep(r)
            \/ \E r \in Replica, p \in Process : ProcessStep(r, p)
            \/ Downgrade
BY DEF Next, StartUp, Work, ReplicaStep, ProcessStep

LEMMA StartInit == Init => StartInv
<1> SUFFICES ASSUME Init PROVE StartInv
  OBVIOUS
<1>1. TypeOK
  <2>1. schema \subseteq MadeBy(Head)
    BY Versions DEF Init, Head
  <2> QED
    BY <2>1, BoundAssumption DEF Init, TypeOK, Stage, ChildState, Version, Head
<1>2. SchemaOfVersion
  BY DEF Init, SchemaOfVersion
<1>3. PastMigration
  BY DEF Init, PastMigration
<1>4. LiveAfterLaunch
  BY DEF Init, LiveAfterLaunch, Serving
<1>5. Leftover
  BY Versions DEF Init, Leftover
<1> QED
  BY <1>1, <1>2, <1>3, <1>4, <1>5 DEF StartInv

\* An upgrade that runs started from the recorded version and makes the schema
\* of head.
LEMMA UpgradeSound ==
    ASSUME StartInv, NEW r \in Replica, Upgrade(r)
    PROVE  schema' = MadeBy(Head) /\ version' = Head
<1>1. version \in Version /\ seen[r] \in Version /\ seen[r] <= version
  BY DEF StartInv, TypeOK, PastMigration, Upgrade
<1>2. seen[r] = version
  <2>1. version <= seen[r]
    BY <1>1, UpgradeReachesHead DEF StartInv, SchemaOfVersion, Upgrade
  <2> QED
    BY <1>1, <2>1 DEF Version
<1>3. schema' = schema \cup MadeBy(Head)
  BY <1>1, <1>2, UpgradeReachesHead DEF StartInv, SchemaOfVersion, Upgrade
<1> QED
  BY <1>3 DEF StartInv, TypeOK, Upgrade

\* A downgrade keeps the schema that of the version.
LEMMA DowngradeSound ==
    ASSUME StartInv, Downgrade
    PROVE  /\ version' \in Version
           /\ schema' \subseteq MadeBy(Head)
           /\ SchemaOfVersion'
           /\ Leftover'
<1>1. version \in {1, 2} /\ version' = version - 1 /\ schema' = schema \ Drops(version)
  BY Versions DEF StartInv, TypeOK, Downgrade
<1>2. version' \in Version /\ schema' \subseteq MadeBy(Head)
  BY <1>1, Versions DEF StartInv, TypeOK
<1>3. SchemaOfVersion'
  <2>1. CASE version = 1
    BY <1>1, <2>1, Versions DEF StartInv, SchemaOfVersion, Creates, Drops, ExecutionDrops, AttemptDrops
  <2>2. CASE version = 2
    <3>1. Creates(1) \cap Creates(2) = {} /\ "taskstatus" \notin Creates(2)
      BY DEF Creates, ExecutionObjects, AttemptObjects
    <3> QED
      BY <1>1, <2>2, <3>1, Versions DEF StartInv, SchemaOfVersion, Creates, Drops, ExecutionDrops, AttemptDrops
  <2> QED
    BY <1>1, <2>1, <2>2
<1>4. Leftover'
  <2>1. faults'.downgrade > 0
    BY DEF StartInv, TypeOK, Downgrade
  <2>2. version' = 0 => "taskstatus" \in schema'
    <3> SUFFICES ASSUME version = 1 PROVE "taskstatus" \in schema'
      BY <1>1
    <3>1. "taskstatus" \in schema
      BY Versions DEF StartInv, SchemaOfVersion, Creates, ExecutionObjects
    <3> QED
      BY <1>1, <3>1 DEF Drops, ExecutionDrops
  <2> QED
    BY <2>1, <2>2 DEF Leftover
<1> QED
  BY <1>2, <1>3, <1>4
-----------------------------------------------------------------------------
(* Each part of the invariant across a step. *)

LEMMA TypeStep == StartInv /\ [Next]_vars => TypeOK'
<1> SUFFICES ASSUME StartInv, [Next]_vars PROVE TypeOK'
  OBVIOUS
<1> USE BoundAssumption DEF TypeOK, Stage, ChildState
<1>1. ASSUME NEW r \in Replica, ReplicaStep(r) PROVE TypeOK'
  <2>1. CASE Upgrade(r)
    <3>1. schema' = MadeBy(Head) /\ version' = Head
      BY <2>1, UpgradeSound
    <3> QED
      BY <2>1, <3>1 DEF StartInv, Upgrade, processes, Version, Head
  <2>2. CASE Start(r) \/ ReadVersion(r) \/ Launch(r) \/ HealthUp(r)
    BY <2>2 DEF StartInv, Start, ReadVersion, Launch, HealthUp, database, processes
  <2>3. CASE Terminate(r) \/ HealthDies(r)
    BY <2>3 DEF StartInv, Terminate, HealthDies, database, processes
  <2>4. CASE ConfigRefused(r) \/ UpgradeRefused(r) \/ Exit(r)
    BY <2>4 DEF StartInv, ConfigRefused, UpgradeRefused, Exit, End, database
  <2>5. CASE DatabaseLost(r) \/ Kill(r)
    BY <2>5 DEF StartInv, DatabaseLost, Kill, End, database
  <2> QED
    BY <1>1, <2>1, <2>2, <2>3, <2>4, <2>5 DEF ReplicaStep
<1>2. ASSUME NEW r \in Replica, NEW p \in Process, ProcessStep(r, p) PROVE TypeOK'
  <2>1. CASE Boot(r, p) \/ Shutdown(r, p) \/ ProcessDies(r, p)
    BY <2>1 DEF StartInv, Boot, Shutdown, ProcessDies, database, InitEmitter, CloseEmitter
  <2>2. CASE Finish(r, p) \/ Respawn(r, p) \/ Take(r, p)
    BY <2>2 DEF StartInv, Finish, Respawn, Take, database
  <2> QED
    BY <1>2, <2>1, <2>2 DEF ProcessStep
<1>3. CASE Downgrade
  BY <1>3, DowngradeSound DEF StartInv, Downgrade, processes
<1>4. CASE UNCHANGED vars
  BY <1>4 DEF StartInv, vars
<1> QED
  BY <1>1, <1>2, <1>3, <1>4, NextSplit

\* Only an upgrade and a downgrade touch the database.
LEMMA DatabaseStep == StartInv /\ [Next]_vars => SchemaOfVersion' /\ Leftover'
<1> SUFFICES ASSUME StartInv, [Next]_vars PROVE SchemaOfVersion' /\ Leftover'
  OBVIOUS
<1>1. ASSUME NEW r \in Replica, Upgrade(r) PROVE SchemaOfVersion' /\ Leftover'
  BY <1>1, UpgradeSound DEF SchemaOfVersion, Leftover, Head
<1>2. CASE Downgrade
  BY <1>2, DowngradeSound
<1>3. ASSUME UNCHANGED <<database, faults.downgrade>> PROVE SchemaOfVersion' /\ Leftover'
  BY <1>3 DEF StartInv, SchemaOfVersion, Leftover, database
<1>4. ASSUME NEW r \in Replica, ReplicaStep(r), ~Upgrade(r)
      PROVE  UNCHANGED <<database, faults.downgrade>>
  BY <1>4 DEF StartInv, TypeOK, ReplicaStep, Start, ConfigRefused, ReadVersion, UpgradeRefused,
      Launch, HealthUp, Terminate, Exit, DatabaseLost, Kill, HealthDies, database
<1>5. ASSUME NEW r \in Replica, NEW p \in Process, ProcessStep(r, p)
      PROVE  UNCHANGED <<database, faults.downgrade>>
  BY <1>5 DEF StartInv, TypeOK, ProcessStep, Boot, Finish, Respawn, Shutdown, Take, ProcessDies,
      database
<1>6. CASE UNCHANGED vars
  BY <1>3, <1>6 DEF vars, database
<1> QED
  BY <1>1, <1>2, <1>3, <1>4, <1>5, <1>6, NextSplit

LEMMA PastStep == StartInv /\ [Next]_vars => PastMigration'
<1> SUFFICES ASSUME StartInv, [Next]_vars PROVE PastMigration'
  OBVIOUS
<1> USE DEF Deployable, SettingsLoad, EngineMade
<1>1. ASSUME NEW r \in Replica, ReplicaStep(r) PROVE PastMigration'
  <2>1. CASE Upgrade(r)
    <3>1. version' = Head /\ version <= Head /\ seen \in [Replica -> Version]
      BY <2>1, UpgradeSound, Versions DEF StartInv, TypeOK, Head
    <3> QED
      BY <2>1, <3>1 DEF StartInv, TypeOK, PastMigration, Upgrade, Version, Head
  <2>2. CASE ReadVersion(r)
    BY <2>2 DEF StartInv, TypeOK, PastMigration, ReadVersion, database, Version
  <2>3. CASE Start(r) \/ Launch(r) \/ HealthUp(r) \/ Terminate(r) \/ HealthDies(r)
    BY <2>3 DEF StartInv, TypeOK, PastMigration, Start, Launch, HealthUp, Terminate, HealthDies,
        database
  <2>4. CASE ConfigRefused(r) \/ UpgradeRefused(r) \/ Exit(r) \/ DatabaseLost(r) \/ Kill(r)
    BY <2>4 DEF StartInv, TypeOK, PastMigration, ConfigRefused, UpgradeRefused, Exit,
        DatabaseLost, Kill, End, database
  <2> QED
    BY <1>1, <2>1, <2>2, <2>3, <2>4 DEF ReplicaStep
<1>2. ASSUME NEW r \in Replica, NEW p \in Process, ProcessStep(r, p) PROVE PastMigration'
  BY <1>2 DEF StartInv, PastMigration, ProcessStep, Boot, Finish, Respawn, Shutdown, Take,
      ProcessDies, database
<1>3. CASE Downgrade
  BY <1>3 DEF PastMigration, Downgrade
<1>4. CASE UNCHANGED vars
  BY <1>4 DEF StartInv, PastMigration, vars
<1> QED
  BY <1>1, <1>2, <1>3, <1>4, NextSplit

LEMMA LiveStep == StartInv /\ [Next]_vars => LiveAfterLaunch'
<1> SUFFICES ASSUME StartInv, [Next]_vars PROVE LiveAfterLaunch'
  OBVIOUS
<1> USE DEF LiveAfterLaunch, Serving
<1>1. ASSUME NEW r \in Replica, ReplicaStep(r) PROVE LiveAfterLaunch'
  <2>1. CASE Start(r) \/ ReadVersion(r) \/ Upgrade(r) \/ HealthUp(r) \/ Terminate(r) \/ HealthDies(r)
    BY <2>1 DEF StartInv, TypeOK, Start, ReadVersion, Upgrade, HealthUp, Terminate, HealthDies,
        processes
  <2>2. CASE Launch(r)
    BY <2>2 DEF StartInv, TypeOK, Launch
  <2>3. CASE ConfigRefused(r) \/ UpgradeRefused(r) \/ Exit(r) \/ DatabaseLost(r) \/ Kill(r)
    BY <2>3 DEF StartInv, TypeOK, ConfigRefused, UpgradeRefused, Exit, DatabaseLost, Kill, End
  <2> QED
    BY <1>1, <2>1, <2>2, <2>3 DEF ReplicaStep
<1>2. ASSUME NEW r \in Replica, NEW p \in Process, ProcessStep(r, p) PROVE LiveAfterLaunch'
  <2>1. stage[r] \in {"running", "stopping"} /\ UNCHANGED <<stage, health>>
    BY <1>2 DEF StartInv, TypeOK, ProcessStep, Boot, Finish, Respawn, Shutdown, Take, ProcessDies
  <2>2. CASE Boot(r, p)
    <3>1. config.redis_url # "empty"
      BY <2>2 DEF StartInv, TypeOK, Config, Boot, ConfigErrors
    <3> QED
      BY <2>1, <2>2, <3>1 DEF StartInv, TypeOK, Boot, InitEmitter
  <2>3. CASE Shutdown(r, p) \/ ProcessDies(r, p)
    BY <2>1, <2>3 DEF StartInv, TypeOK, Shutdown, ProcessDies, CloseEmitter
  <2>4. CASE Finish(r, p) \/ Respawn(r, p) \/ Take(r, p)
    BY <2>1, <2>4 DEF StartInv, TypeOK, Finish, Respawn, Take
  <2> QED
    BY <1>2, <2>2, <2>3, <2>4 DEF ProcessStep
<1>3. CASE Downgrade
  BY <1>3 DEF StartInv, Downgrade, processes
<1>4. CASE UNCHANGED vars
  BY <1>4 DEF StartInv, vars
<1> QED
  BY <1>1, <1>2, <1>3, <1>4, NextSplit

\* In every reachable state the invariant above holds, TypeOK with it.
THEOREM StartInvariant == Spec => []StartInv
<1>1. StartInv /\ [Next]_vars => StartInv'
  BY TypeStep, DatabaseStep, PastStep, LiveStep DEF StartInv
<1> QED
  BY StartInit, <1>1, PTL DEF Spec

-----------------------------------------------------------------------------

\* No process takes messages before the database is at head, whatever replicas race
\* and die in start.sh, or without the emitter that its events need.
THEOREM ServesOnlyReady == Spec => []ServesReady
<1>1. StartInv => ServesReady
  BY DEF StartInv, SchemaOfVersion, PastMigration, LiveAfterLaunch, ServesReady, Serving
<1> QED
  BY StartInvariant, <1>1, PTL

\* The one transaction of alembic/env.py: no migration is left half applied.
THEOREM SchemaIsOfVersion == Spec => []SchemaOfVersion
<1>1. StartInv => SchemaOfVersion
  BY DEF StartInv
<1> QED
  BY StartInvariant, <1>1, PTL

\* start.sh starts the health server after the migration only, and the settings
\* it needed leave validate_config of worker.py nothing to raise.
THEOREM HealthFollows == Spec => []HealthFollowsMigration
<1>1. ASSUME TypeOK, Deployable PROVE ConfigErrors = {}
  BY <1>1 DEF TypeOK, Config, Deployable, SettingsLoad, EngineMade, ConfigErrors
<1>2. StartInv => HealthFollowsMigration
  BY <1>1 DEF StartInv, PastMigration, LiveAfterLaunch, HealthFollowsMigration
<1> QED
  BY StartInvariant, <1>2, PTL

\* The downgrade of cf1c62d50694 is the one thing that stops all later upgrades.
THEOREM OnlyBaseIsWedged == Spec => []BaseIsWedged
<1>1. Creates(1) \cap Creates(2) = {} /\ "taskstatus" \notin Creates(2)
  BY DEF Creates, ExecutionObjects, AttemptObjects
<1>2. 2 + 1 .. Head = {} /\ 1 + 1 .. Head = {2} /\ 0 + 1 .. Head = {1, 2}
  BY DEF Head
<1>3. ASSUME StartInv PROVE BaseIsWedged
  <2>1. CASE version = 2
    BY <1>2, <2>1 DEF BaseIsWedged, Wedged, Upgradable
  <2>2. CASE version = 1
    <3>1. Creates(2) \cap schema = {} /\ Needs(2) \subseteq schema
      BY <1>1, <1>3, <2>2, Versions
      DEF StartInv, SchemaOfVersion, Needs, Creates, ExecutionObjects, AttemptObjects
    <3> QED
      BY <1>2, <1>3, <2>2, <3>1 DEF StartInv, BaseIsWedged, Wedged, Upgradable
  <2>3. CASE version = 0
    <3>1. schema \subseteq {"taskstatus"}
      BY <1>3, <2>3, Versions DEF StartInv, SchemaOfVersion
    <3>2. Creates(2) \cap schema = {}
      BY <1>1, <3>1
    <3>3. Creates(1) \cap schema = {} <=> "taskstatus" \notin schema
      BY <3>1 DEF Creates, ExecutionObjects
    <3>4. Needs(1) = {} /\ Needs(2) \subseteq Creates(1)
      BY DEF Needs, Creates, ExecutionObjects
    <3>5. 0 + 1 .. 2 - 1 = {1}
      OBVIOUS
    <3>6. Upgradable(schema, 0) <=> "taskstatus" \notin schema
      BY <1>2, <3>2, <3>3, <3>4, <3>5 DEF Upgradable
    <3> QED
      BY <1>3, <2>3, <3>6 DEF StartInv, Leftover, BaseIsWedged, Wedged
  <2> QED
    BY <1>3, <2>1, <2>2, <2>3, Versions DEF StartInv, TypeOK
<1> QED
  BY StartInvariant, <1>3, PTL
=============================================================================
