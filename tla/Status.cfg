\* Two polls at a time over a collector with two requests, one after
\* the other.
SPECIFICATION StatusSpec
CONSTANTS
    Requests = {r1}
    Methods = {"GET"}
    Kinds = {"blob"}
    Repos = {"p"}
    Reasons = {"auth"}
    StatusCodes = {200}
    ByteCounts = {1}
    Durations = {0, 6}
    None = None
    RecentCap = 1
    ReposCap = 1
    HistoryMinutes = 1
    FirstMinute = 1
    MaxMinute = 1
    MaxEvents = 2
    Polls = {s1, s2}
    Micro = 2
INVARIANTS StatusTypeOK NothingOlderThanKnown SumWithinOneMicroEach
PROPERTIES PageCatchesUp BadgeTellsTheOutage
