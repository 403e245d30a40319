SPECIFICATION FairSpec
CONSTANTS
    Chain <- DsparkSteps
    Files <- DsparkFiles
    Modes = {"off", "a", "b"}
    MaxFaults = 2
    MaxRecreates = 1
CHECK_DEADLOCK FALSE
INVARIANTS EngineWhole CacheMatchesMode
PROPERTIES UndoneIsUndone ServesUnlessLost
