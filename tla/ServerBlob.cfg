\* URLs with a second "blob" in their path.
SPECIFICATION Spec
CONSTANTS
    Unescape <- MCUnescape
    EncodedSchemes <- EncodedScheme
    Unglued <- Glued
    Authority <- MCAuthority
    Dotted <- WithDot
    Repositories <- MCBlobNames
    None = "none"
    Unplain = {}
    Short = {}
    Unpathable = {}
    Unset = Unset
    Unreadable = Unreadable
    Unparsable = Unparsable
    Refused = Refused
    DefaultRedirectHosts = {"github.com"}
    Kilo = 2
    IntLimit = 8
    Requests = {r1}
    Configs <- MCOneConfig
    Methods = {"GET", "POST", "PUT", "OPTIONS"}
    Asks <- MCBlobAsks
    Hosts = {"github.com", "gist.github.com", "gist.githubusercontent.com", "raw.githubusercontent.com", "raw.github.com"}
    ProxyableHosts = {"github.com", "gist.github.com", "gist.githubusercontent.com", "raw.githubusercontent.com", "raw.github.com"}
    RedirectHosts = {}
    MaxRedirects = 0
    SizeLimit = 0
    HeaderNames = {"Authorization"}
    PrivateHeaders = {}
    Credentials = {}
    Client = "client"
    Codes = {200}
    Lengths <- UnknownLength
    MaxBody = 0
    MaxInformational = 0
    RecentCap = 1
    ReposCap = 1
    HistoryMinutes = 1
    FirstMinute = 1
INVARIANT ServesTheFile
