\* Every environment, and from each that is accepted every life of the process.
SPECIFICATION FairSpec
CONSTANTS
    Unescape <- Nowhere
    EncodedSchemes = {}
    Unglued <- Nowhere
    Authority <- Nowhere
    Dotted = {}
    None = None
    Unplain = {"a?"}
    Short = {"short"}
    Unpathable = {"sla/sh"}
    Unset = Unset
    Unreadable = Unreadable
    Unparsable = Unparsable
    Refused = Refused
    DefaultRedirectHosts = {"github.com"}
    Kilo = 4
    IntLimit = 128
    Environments <- MCEnvironments
    Credentials = {"t1"}
    Unclean = {"", "two words"}
    Files <- HostsFile
    NoFile = NoFile
    Rereads = TRUE
    MaxChanges = 0
INVARIANTS TypeOK ListensOnlyWhenSound LimitAsWritten CutOnlyByDeadlineOrFailure
PROPERTIES ExitsInTime
