\* Every form of request against every configuration; the exchange is short.
SPECIFICATION Spec
CONSTANTS
    Unescape <- MCUnescape
    EncodedSchemes <- EncodedScheme
    Unglued <- Glued
    Authority <- MCAuthority
    Dotted <- WithDot
    Repositories <- MCGateNames
    None = "none"
    Unplain = {}
    Short = {}
    Unpathable = {}
    Unset = Unset
    Unreadable = Unreadable
    Unparsable = Unparsable
    Refused = Refused
    DefaultRedirectHosts = {"github.com"}
    Kilo = 2
    IntLimit = 8
    Requests = {r1}
    Configs <- MCGateConfigs
    Methods = {"GET", "POST", "PUT", "OPTIONS"}
    Asks <- MCGateAsks
    Hosts = {"github.com", "gist.github.com", "gist.githubusercontent.com", "raw.githubusercontent.com", "raw.github.com"}
    ProxyableHosts = {"github.com", "gist.github.com", "gist.githubusercontent.com", "raw.githubusercontent.com", "raw.github.com"}
    RedirectHosts = {}
    MaxRedirects = 0
    SizeLimit = 0
    HeaderNames = {"Authorization"}
    PrivateHeaders = {}
    Credentials = {}
    Client = "client"
    Codes = {302}
    Lengths <- UnknownLength
    MaxBody = 0
    MaxInformational = 0
    RecentCap = 1
    ReposCap = 1
    HistoryMinutes = 1
    FirstMinute = 1
INVARIANTS TypeOK ProbeSeesNothing ServesWhatIsNamed TrafficIsAdmitted StatusTakesOnlyItsOwn
    FollowUpAccepted
PROPERTIES CollectorProtocol
