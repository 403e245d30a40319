SPECIFICATION FairSpec
CONSTANTS
    a = a
    r = r
    s = s
    NoId = NoId
    Ids = {a}
    Modes = {"live"}
    Readers = {r, s}
    MaxEntries = 1
    MaxEvents = 2
CHECK_DEADLOCK FALSE
INVARIANT NothingUnread
PROPERTIES ReadersEnd
