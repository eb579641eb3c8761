\* Load and Refresh while the login, the binary and hosts.yml change.
SPECIFICATION FairSpec
CONSTANTS
    Credentials = {"t1", "t2"}
    Unclean = {"", "two words"}
    Files <- HostsFiles
    NoFile = NoFile
    Rereads = TRUE
    MaxChanges = 2
    None = "none"
INVARIANTS TypeOK ServesWithCredential
PROPERTIES OnlyGhsCredential CatchesUp StopsOnSignal
