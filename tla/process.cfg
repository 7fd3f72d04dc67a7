\* Two replicas of two processes each, every configuration, on a database at
\* base, at the first revision or at head.
SPECIFICATION FairSpec
CONSTANTS
    Replica = {r1, r2}
    Process = {p1, p2}
    MaxDbFaults = 1
    MaxCrashes = 1
    MaxStops = 1
    MaxDowngrades = 2
INVARIANTS
    ServesReady
    SchemaOfVersion
    HealthFollowsMigration
    BaseIsWedged
PROPERTY
    EventuallyServes
