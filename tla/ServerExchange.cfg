\* One request, answered by the handler or proxied with every course of an exchange.
SPECIFICATION FairSpec
CONSTANTS
    Unescape <- MCUnescape
    EncodedSchemes <- EncodedScheme
    Unglued <- Glued
    Authority <- MCAuthority
    Dotted <- WithDot
    Repositories <- MCExchangeNames
    None = "none"
    Unplain = {}
    Short = {}
    Unpathable = {}
    Unset = Unset
    Unreadable = Unreadable
    Unparsable = Unparsable
    Refused = Refused
    DefaultRedirectHosts = {"github.com"}
    Kilo = 2
    IntLimit = 8
    Requests = {r1}
    Configs <- MCOneConfig
    Methods = {"GET", "POST", "PUT", "OPTIONS"}
    Asks <- MCExchangeAsks
    Hosts = {"github.com", "gist.github.com", "gist.githubusercontent.com", "raw.githubusercontent.com", "raw.github.com"}
    ProxyableHosts = {"github.com", "gist.github.com", "gist.githubusercontent.com", "raw.githubusercontent.com", "raw.github.com"}
    RedirectHosts = {"github.com", "raw.githubusercontent.com"}
    MaxRedirects = 1
    SizeLimit = 0
    HeaderNames = {"Authorization"}
    PrivateHeaders = {}
    Credentials = {}
    Client = "client"
    Codes = {200, 302}
    Lengths <- DeclaredLengths
    MaxBody = 2
    MaxInformational = 1
    RecentCap = 2
    ReposCap = 1
    HistoryMinutes = 1
    FirstMinute = 1
INVARIANTS CountsWhatWasSent RecordFaithful
PROPERTIES EveryRequestRecorded AnswerComes
