SPECIFICATION FairSpec
CONSTANTS
    Workers <- MCWorkers
    Confs = {"a", "b"}
    MaxFaults = 3
    MaxCommands = 3
CHECK_DEADLOCK FALSE
INVARIANTS StoppedMeansGone OneConfiguration
PROPERTIES StartSparesServing ServiceSucceeds
