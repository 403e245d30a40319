SPECIFICATION FairSpec
CONSTANTS
    Readers = {r1, r2}
    MaxChunks = 2
    MaxMsgs = 3
    Impatient = {r2}
    Stoppable = {r1}
    WeakStores = FALSE
INVARIANTS TypeOK BodySeesNextMessage PayloadsPaired
PROPERTIES RefinesLog Delivery EnqueueEnds ShutdownWakes
CHECK_DEADLOCK FALSE
