\* More requests than ring slots, table rows and chart minutes: everything
\* bounded wraps, and handlers hold stale readings of the clock meanwhile.
SPECIFICATION Spec
CONSTANTS
    Requests = {r1, r2}
    Methods = {"GET"}
    Kinds = {"blob"}
    Repos = {"p", "q"}
    Reasons = {"auth"}
    StatusCodes = {200}
    ByteCounts = {0, 3}
    Durations = {1}
    None = "none"
    RecentCap = 2
    ReposCap = 1
    HistoryMinutes = 2
    FirstMinute = 2
    MaxMinute = 4
    MaxEvents = 4
SYMMETRY HandlerSymmetry
INVARIANTS RecentIsLedgerTail RepoTableExact HistoryExact
