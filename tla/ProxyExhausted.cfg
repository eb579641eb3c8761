\* A chain of redirects that outlasts MaxRedirects.
SPECIFICATION Spec
CONSTANTS
    Requests = {r1}
    Hosts = {"github.com", "objects"}
    ProxyableHosts = {"github.com"}
    RedirectHosts = {"github.com", "objects"}
    MaxRedirects = 1
    SizeLimit = 0
    HeaderNames = {"Authorization"}
    PrivateHeaders = {}
    Credentials = {"t1"}
    Client = "client"
    None = "none"
    Codes = {200, 302}
    Lengths <- DeclaredLengths
    MaxBody = 2
    MaxInformational = 1
INVARIANT ExhaustedChainContinues
