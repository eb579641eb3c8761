\* One exchange, every chain of redirects over three hosts, of which GitHub's
\* storage is followed to but not a target and the third is neither.
SPECIFICATION Spec
CONSTANTS
    Requests = {r1}
    Hosts = {"github.com", "objects", "elsewhere"}
    ProxyableHosts = {"github.com"}
    RedirectHosts = {"github.com", "objects"}
    MaxRedirects = 2
    SizeLimit = 1
    HeaderNames = {"Authorization", "Cookie"}
    PrivateHeaders = {"Cookie"}
    Credentials = {"t1", "t2"}
    Client = "client"
    None = "none"
    Codes = {200, 302}
    Lengths <- DeclaredLengths
    MaxBody = 2
    MaxInformational = 1
INVARIANTS TypeOK CredentialStaysHome RedirectsConfined BodiesReleased
    RedirectsComeBack DeclaredOversizeNotStreamed
PROPERTIES ImplementsExchange
