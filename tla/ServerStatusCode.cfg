\* One request to GitHub that sends a 1xx before its answer.
SPECIFICATION Spec
CONSTANTS
    Unescape <- MCUnescape
    EncodedSchemes <- EncodedScheme
    Unglued <- Glued
    Authority <- MCAuthority
    Dotted <- WithDot
    Repositories <- MCExchangeNames
    None = "none"
    Unplain = {}
    Short = {}
    Unpathable = {}
    Unset = Unset
    Unreadable = Unreadable
    Unparsable = Unparsable
    Refused = Refused
    DefaultRedirectHosts = {"github.com"}
    Kilo = 2
    IntLimit = 8
    Requests = {r1}
    Configs <- MCOneConfig
    Methods = {"GET", "POST", "PUT", "OPTIONS"}
    Asks <- MCExchangeAsks
    Hosts = {"github.com", "gist.github.com", "gist.githubusercontent.com", "raw.githubusercontent.com", "raw.github.com"}
    ProxyableHosts = {"github.com", "gist.github.com", "gist.githubusercontent.com", "raw.githubusercontent.com", "raw.github.com"}
    RedirectHosts = {"github.com"}
    MaxRedirects = 0
    SizeLimit = 0
    HeaderNames = {"Authorization"}
    PrivateHeaders = {}
    Credentials = {}
    Client = "client"
    Codes = {200}
    Lengths <- DeclaredLengths
    MaxBody = 0
    MaxInformational = 1
    RecentCap = 2
    ReposCap = 1
    HistoryMinutes = 1
    FirstMinute = 1
INVARIANTS RecordedStatusIsFinal
