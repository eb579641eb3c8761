\* Every combination of outcome, kind, status class, size and duration, with
\* two handlers at once; the clock stands still.
SPECIFICATION Spec
CONSTANTS
    Requests = {r1, r2}
    Methods = {"GET", "OPTIONS"}
    Kinds = {"blob", "release"}
    Repos = {"p"}
    Reasons = {"auth", "list"}
    StatusCodes = {200, 404}
    ByteCounts = {0, 3}
    Durations = {1, 2}
    None = "none"
    RecentCap = 2
    ReposCap = 1
    HistoryMinutes = 2
    FirstMinute = 2
    MaxMinute = 2
    MaxEvents = 3
SYMMETRY HandlerSymmetry
INVARIANTS TypeOK GaugeExact CountersMatchLedger SnapshotAddsUp
