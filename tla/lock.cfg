SPECIFICATION FairSpec
CONSTANTS
    Replicas = {"blue", "green"}
    PoolSize = 2
    Overflow = 1
    SqlErrors = TRUE
    MaxHeld = 2
    MaxTraffic = 3
    MaxRestarts = 1
INVARIANTS
    OneProcessor
PROPERTIES
    QueueIsServed
