-------------------------------- MODULE Proxy --------------------------------
(***************************************************************************)
(* One proxied exchange: internal/proxy.                                   *)
(*                                                                         *)
(* rewrite prepares the outbound request, followingTransport chases        *)
(* redirects inside RoundTrip, modifyResponse turns GitHub's last answer   *)
(* into ours and errorHandler answers when there is none.  GitHub, the     *)
(* client and the credential store are the environment: GitHub answers     *)
(* anything at any time or never, the client may hang up at any moment,    *)
(* the credential may rotate in between.                                   *)
(*                                                                         *)
(* A URL is its scheme and host.  A body is counted in chunks, and the     *)
(* declared Content-Length, -1 when there is none, in the same unit.       *)
(***************************************************************************)
EXTENDS Integers, Sequences, FiniteSets, SequencesExt

CONSTANTS
    Requests,          \* exchanges
    Hosts,             \* hosts a URL may name
    ProxyableHosts,    \* hosts ghurl accepts in a target
    RedirectHosts,     \* Options.RedirectHosts
    MaxRedirects,      \* Options.MaxRedirects
    SizeLimit,         \* Options.SizeLimit; 0 is no limit
    HeaderNames,       \* request header fields
    PrivateHeaders,    \* the fields rewrite deletes, Authorization apart
    Credentials,       \* what the upstream credential may be
    Client,            \* a header value that came from the client
    None,              \* no header, no credential
    Codes,             \* final status codes GitHub may answer with
    Lengths,           \* Content-Length values GitHub may declare
    MaxBody,           \* bound: chunks in a body
    MaxInformational   \* bound: 1xx answers per exchange

ASSUME ProxyConstants ==
    /\ ProxyableHosts \subseteq Hosts /\ RedirectHosts \subseteq Hosts
    /\ MaxRedirects \in Nat /\ SizeLimit \in Nat /\ MaxBody \in Nat /\ MaxInformational \in Nat
    /\ "Authorization" \in HeaderNames /\ PrivateHeaders \subseteq HeaderNames
    /\ None \notin Credentials /\ Client \notin Credentials /\ Client # None
    /\ Codes \subseteq 200 .. 599
    /\ Lengths \subseteq Nat \cup {-1}

VARIABLES
    cred,       \* what UpstreamTokenFunc returns now
    pc,         \* pc[r]: where the goroutine serving exchange r is
    req,        \* req[r]: the outbound request of the current hop
    resp,       \* resp[r]: GitHub's answer to it, and the chunks read of it
    out,        \* out[r]: what ReverseProxy did to the ResponseWriter
    bodies,     \* bodies[r]: the hops whose response body is still open
    uploading,  \* the exchanges whose request body is not yet read and sent to its end
    gone,       \* the exchanges whose client hung up
    trail       \* auxiliary: the requests sent to GitHub, in order

vars == <<cred, pc, req, resp, out, bodies, uploading, gone, trail>>

------------------------------------------------------------------------------
ForwardedMethods == {"GET", "HEAD", "POST"}
Schemes == {"https", "http", "ftp"}   \* "ftp" stands for every other scheme
URL == [scheme: Schemes, host: Hosts]
NoURL == [scheme |-> "https", host |-> None]

\* A Location header: absent, unparsable, without an authority, or absolute.
Location == [kind: {"absent", "malformed", "relative"}, url: {NoURL}]
            \cup [kind: {"absolute"}, url: URL]
NoLocation == [kind |-> "absent", url |-> NoURL]

Header == [HeaderNames -> Credentials \cup {Client, None}]

\* hops counts the requests sent, cred is the credential read at the start.
Request == [method: ForwardedMethods, cred: Credentials \cup {None}, url: URL \cup {NoURL},
            header: Header, hops: Nat]
NoRequest == [method |-> "GET", cred |-> None, url |-> NoURL,
              header |-> [h \in HeaderNames |-> None], hops |-> 0]

\* declared is auxiliary: the length as GitHub gave it, which redirectOversized overwrites.
Response == [code: Codes \cup {0}, loc: Location, length: Lengths \cup {0},
             declared: Lengths \cup {0}, body: Nat, read: Nat]
NoResponse == [code |-> 0, loc |-> NoLocation, length |-> 0, declared |-> 0, body |-> 0, read |-> 0]

\* An answer GitHub can give: the body is as long as declared, HEAD has none.
\* A body that breaks off short of that is AbortCopy.
PossibleAnswer(method, length, body) ==
    \/ method = "HEAD" /\ body = 0
    \/ method # "HEAD" /\ length \in {-1, body}

\* URL.Parse(loc) on the URL of the request that was answered.
ResolveAbsoluteOnly(url, loc) == loc.url   \* seeded fault
Resolve(url, loc) == IF loc.kind = "relative" THEN url ELSE loc.url

IsRedirect(code) == code \in {301, 302, 303, 307, 308}

\* rewrite: nothing of the client's identity goes out; ours is added.
Rewrite(names, c) ==
    [h \in HeaderNames |->
        IF h = "Authorization" THEN c
        ELSE IF h \in names \ PrivateHeaders THEN Client ELSE None]

\* nextRequest: the credential does not cross to another host.
NextHeaderAlways(prev, next, header) == header   \* seeded fault
NextHeader(prev, next, header) ==
    IF prev.host # next.host THEN [header EXCEPT !["Authorization"] = None] ELSE header

NothingOut == [codes |-> <<>>, loc |-> [base |-> "none", url |-> NoURL],
               sent |-> 0, ended |-> "no"]

Init ==
    /\ cred \in Credentials \cup {None}
    /\ pc = [r \in Requests |-> "idle"]
    /\ req = [r \in Requests |-> NoRequest]
    /\ resp = [r \in Requests |-> NoResponse]
    /\ out = [r \in Requests |-> NothingOut]
    /\ bodies = [r \in Requests |-> {}]
    /\ uploading = {}
    /\ gone = {}
    /\ trail = [r \in Requests |-> <<>>]

------------------------------------------------------------------------------
(* Sending a request to GitHub: base.RoundTrip is called. *)
Send(r, q) ==
    /\ pc' = [pc EXCEPT ![r] = "sent"]
    /\ req' = [req EXCEPT ![r] = q]
    /\ trail' = [trail EXCEPT ![r] = Append(@, [url |-> q.url, header |-> q.header])]

\* ServeHTTP: rewrite builds the request for the target, then the first hop,
\* with a body or without one, whatever the method.
Begin(r, method, host, names) ==
    /\ pc[r] = "idle"
    /\ Send(r, [method |-> method, cred |-> cred, hops |-> 1,
                url |-> [scheme |-> "https", host |-> host],
                header |-> Rewrite(names, cred)])
    /\ uploading' \in {uploading, uploading \cup {r}}
    /\ UNCHANGED <<cred, resp, out, bodies, gone>>

\* The rest of the request body is read from the client and written to GitHub,
\* which may have answered before.
Upload(r) ==
    /\ pc[r] \notin {"idle", "done"} /\ r \in uploading
    /\ uploading' = uploading \ {r}
    /\ UNCHANGED <<cred, pc, req, resp, out, bodies, gone, trail>>

\* GitHub sends a 1xx, which ReverseProxy passes on with WriteHeader.
Informational(r) ==
    /\ pc[r] = "sent"
    /\ Len(out[r].codes) < MaxInformational
    /\ out' = [out EXCEPT ![r].codes = Append(@, 103)]
    /\ UNCHANGED <<cred, pc, req, resp, bodies, uploading, gone, trail>>

\* GitHub answers the current hop.
Respond(r, code, loc, length, body) ==
    /\ pc[r] = "sent"
    /\ PossibleAnswer(req[r].method, length, body)
    /\ pc' = [pc EXCEPT ![r] = "received"]
    /\ resp' = [resp EXCEPT ![r] = [code |-> code, loc |-> loc, length |-> length,
                                    declared |-> length, body |-> body, read |-> 0]]
    /\ bodies' = [bodies EXCEPT ![r] = @ \cup {req[r].hops}]
    /\ UNCHANGED <<cred, req, out, uploading, gone, trail>>

\* base.RoundTrip returns an error.
TransportError(r) ==
    /\ pc[r] = "sent"
    /\ pc' = [pc EXCEPT ![r] = "failed"]
    /\ UNCHANGED <<cred, req, resp, out, bodies, uploading, gone, trail>>

\* The request of the current hop is sent; only the first one has a body.
Sent(r) == r \notin uploading \/ req[r].hops > 1

\* ... because ResponseHeaderTimeout ran out, counted from the last byte sent ...
HeaderTimeoutFirstHop(r) == req[r].hops = 1 /\ r \notin uploading /\ TransportError(r)   \* seeded fault
HeaderTimeout(r) == Sent(r) /\ TransportError(r)

\* ... or because the client hung up.  net/http learns of that by reading, and
\* is sure to read on only behind the end of the request's body; until then it
\* may or may not notice.
Noticed == gone \ uploading
Cancelled(r) == r \in gone /\ TransportError(r)

------------------------------------------------------------------------------
(***************************************************************************)
(* The loop of followingTransport.RoundTrip, entered with each response.   *)
(* hops counts the requests sent, so hops - 1 is the loop variable.        *)
(***************************************************************************)
FollowsPosts(r) ==   \* seeded fault
    /\ req[r].hops <= MaxRedirects
    /\ IsRedirect(resp[r].code)
    /\ resp[r].loc.kind \in {"relative", "absolute"}
Follows(r) ==
    /\ req[r].method \in {"GET", "HEAD"}
    /\ req[r].hops <= MaxRedirects
    /\ IsRedirect(resp[r].code)
    /\ resp[r].loc.kind \in {"relative", "absolute"}

Permitted(url) == url.scheme \in {"http", "https"} /\ url.host \in RedirectHosts

NextURL(r) == Resolve(req[r].url, resp[r].loc)

\* The body of the current hop is closed: drain, or the end of the copy.
LeftOpen(r) == bodies   \* seeded fault
Closed(r) == [bodies EXCEPT ![r] = @ \ {req[r].hops}]

\* Not GET or HEAD, not a redirect, an unparsable Location or the chain is
\* exhausted: RoundTrip hands the response over with its body open.
ReturnResponse(r) ==
    /\ pc[r] = "received" /\ ~Follows(r)
    /\ pc' = [pc EXCEPT ![r] = "returned"]
    /\ UNCHANGED <<cred, req, resp, out, bodies, uploading, gone, trail>>

\* A scheme or a host that is not followed: drained, and RoundTrip fails.
RefuseHop(r) ==
    /\ pc[r] = "received" /\ Follows(r) /\ ~Permitted(NextURL(r))
    /\ bodies' = Closed(r)
    /\ resp' = [resp EXCEPT ![r] = NoResponse]
    /\ pc' = [pc EXCEPT ![r] = "failed"]
    /\ UNCHANGED <<cred, req, out, uploading, gone, trail>>

\* nextRequest: a clone without a body for the next URL.
NextRequest(r) ==
    [method |-> req[r].method, cred |-> req[r].cred, hops |-> req[r].hops + 1,
     url |-> NextURL(r),
     header |-> NextHeader(req[r].url, NextURL(r), req[r].header)]

\* Drained, then the next request is sent at once.
FollowHop(r) ==
    /\ pc[r] = "received" /\ Follows(r) /\ Permitted(NextURL(r))
    /\ bodies' = Closed(r)
    /\ resp' = [resp EXCEPT ![r] = NoResponse]
    /\ Send(r, NextRequest(r))
    /\ UNCHANGED <<cred, out, uploading, gone>>

------------------------------------------------------------------------------
(* The answer. *)
OversizedByOne(r) == SizeLimit > 0 /\ resp[r].length > SizeLimit + 1   \* seeded fault
Oversized(r) == SizeLimit > 0 /\ resp[r].length > SizeLimit

\* The Location the client gets: through selfBase for a redirect, resolved
\* against the hop that answered; untouched when it is not a redirect or does
\* not parse.
HandedBackUnresolved(r) ==   \* seeded fault
    LET loc == resp[r].loc IN
    IF loc.kind = "absent" THEN [base |-> "none", url |-> NoURL]
    ELSE IF IsRedirect(resp[r].code) /\ loc.kind # "malformed"
    THEN [base |-> "self", url |-> loc.url]
    ELSE [base |-> "untouched", url |-> loc.url]
HandedBack(r) ==
    LET loc == resp[r].loc IN
    IF loc.kind = "absent" THEN [base |-> "none", url |-> NoURL]
    ELSE IF IsRedirect(resp[r].code) /\ loc.kind # "malformed"
    THEN [base |-> "self", url |-> NextURL(r)]
    ELSE [base |-> "untouched", url |-> loc.url]

\* ReverseProxy's WriteHeader of a final status, with what the client gets with it.
Answer(r, code, loc, sent, ended) ==
    out' = [out EXCEPT ![r] = [codes |-> Append(@.codes, code), loc |-> loc,
                               sent |-> sent, ended |-> ended]]

\* modifyResponse without and with redirectOversized, which closes the body and
\* answers with an empty 302 to the real URL.
Deliver(r) ==
    /\ pc[r] = "returned" /\ ~Oversized(r)
    /\ pc' = [pc EXCEPT ![r] = "streaming"]
    /\ Answer(r, resp[r].code, HandedBack(r), 0, "no")
    /\ UNCHANGED <<cred, req, resp, bodies, uploading, gone, trail>>

DeliverOversized(r) ==
    /\ pc[r] = "returned" /\ Oversized(r)
    /\ pc' = [pc EXCEPT ![r] = "streaming"]
    /\ resp' = [resp EXCEPT ![r].length = 0, ![r].body = 0]
    /\ bodies' = Closed(r)
    /\ Answer(r, 302, [base |-> "direct", url |-> req[r].url], 0, "no")
    /\ UNCHANGED <<cred, req, uploading, gone, trail>>

\* ReverseProxy copies a chunk and flushes it.
CopyChunk(r) ==
    /\ pc[r] = "streaming" /\ resp[r].read < resp[r].body
    /\ resp' = [resp EXCEPT ![r].read = @ + 1]
    /\ out' = [out EXCEPT ![r].sent = @ + 1]
    /\ UNCHANGED <<cred, pc, req, bodies, uploading, gone, trail>>

End(r, how) ==
    /\ pc' = [pc EXCEPT ![r] = "done"]
    /\ out' = [out EXCEPT ![r].ended = how]
    /\ bodies' = Closed(r)
    /\ UNCHANGED <<cred, req, resp, uploading, gone, trail>>

\* The copy reaches the end of the body.
FinishCopy(r) ==
    /\ pc[r] = "streaming" /\ resp[r].read = resp[r].body
    /\ End(r, "complete")

\* GitHub's body breaks off, or the client hung up and a read or a write fails:
\* ReverseProxy panics with ErrAbortHandler and the connection is cut.
AbortCopy(r) ==
    /\ pc[r] = "streaming" /\ req[r].method # "HEAD" /\ bodies[r] # {}
    /\ \/ resp[r].length = -1
       \/ resp[r].read < resp[r].length
       \/ r \in gone /\ resp[r].length # 0
    /\ End(r, "aborted")

\* errorHandler: nothing at all if the context is cancelled, a 502 otherwise.
SilentError(r) ==   \* seeded fault
    /\ pc[r] = "failed"
    /\ pc' = [pc EXCEPT ![r] = "done"]
    /\ out' = [out EXCEPT ![r].ended = "silent"]
    /\ UNCHANGED <<cred, req, resp, bodies, uploading, gone, trail>>
HandleError(r) ==
    /\ pc[r] = "failed"
    /\ pc' = [pc EXCEPT ![r] = "done"]
    /\ \/ r \in gone /\ out' = [out EXCEPT ![r].ended = "silent"]
       \/ r \notin Noticed /\ Answer(r, 502, NothingOut.loc, 1, "complete")
    /\ UNCHANGED <<cred, req, resp, bodies, uploading, gone, trail>>

------------------------------------------------------------------------------
(* The environment, and the system. *)
Hangup(r) ==
    /\ pc[r] \notin {"idle", "done"} /\ r \notin gone
    /\ gone' = gone \cup {r}
    /\ UNCHANGED <<cred, pc, req, resp, out, bodies, uploading, trail>>

\* The credential source refreshes itself; it never goes back to having none.
Rotate ==
    /\ cred # None
    /\ cred' \in Credentials \ {cred}
    /\ UNCHANGED <<pc, req, resp, out, bodies, uploading, gone, trail>>

\* Every exchange is over: one slot serves one exchange in this module.
AllDone ==
    /\ \A r \in Requests : pc[r] = "done"
    /\ UNCHANGED vars

Answered(r) ==
    \E code \in Codes, loc \in Location, length \in Lengths, body \in 0 .. MaxBody :
        Respond(r, code, loc, length, body)

Step(r) ==
    \/ \E method \in ForwardedMethods, host \in ProxyableHosts, names \in {{}, HeaderNames} :
          Begin(r, method, host, names)
    \/ Upload(r) \/ Informational(r) \/ Answered(r)
    \/ TransportError(r) \/ HeaderTimeout(r) \/ Cancelled(r)
    \/ ReturnResponse(r) \/ RefuseHop(r) \/ FollowHop(r)
    \/ Deliver(r) \/ DeliverOversized(r) \/ CopyChunk(r) \/ FinishCopy(r) \/ AbortCopy(r) \/ HandleError(r)
    \/ Hangup(r)

Next == (\E r \in Requests : Step(r)) \/ Rotate \/ AllDone

Spec == Init /\ [][Next]_vars

------------------------------------------------------------------------------
(* Properties. *)

PCs == {"idle", "sent", "received", "returned", "streaming", "failed", "done"}

Statuses == Seq(100 .. 599)
ClientLocation == [base: {"self", "direct"}, url: URL]
                  \cup [base: {"none", "untouched"}, url: URL \cup {NoURL}]
Endings == {"no", "complete", "aborted", "silent"}
Output == [codes: Statuses, loc: ClientLocation, sent: Nat, ended: Endings]

\* Type invariant.  Once it is under way every exchange has a real URL, however
\* many Location headers it went through, and so has a redirect handed back.
TypeOK ==
    /\ cred \in Credentials \cup {None}
    /\ pc \in [Requests -> PCs]
    /\ req \in [Requests -> Request]
    /\ resp \in [Requests -> Response]
    /\ out \in [Requests -> Output]
    /\ bodies \in [Requests -> SUBSET Nat]
    /\ uploading \subseteq Requests /\ gone \subseteq Requests
    /\ trail \in [Requests -> Seq([url: URL, header: Header])]
    /\ \A r \in Requests : pc[r] # "idle" => req[r].url \in URL

\* The credential GitHub sees is the one read when the exchange began, however
\* it rotates meanwhile; it is on a hop only if every hop so far stayed on the
\* target's host, so it does not come back when a chain does; and no hop
\* carries a private field of the client (proxy.go:149-167, redirect.go:75-81,
\* .env.example:31).
CredentialStaysHome ==
    \A r \in Requests : \A i \in DOMAIN trail[r] :
        LET sent == trail[r][i].header IN
        /\ sent["Authorization"] \in {None, req[r].cred}
        /\ sent["Authorization"] # None =>
              \A j \in 1 .. i : trail[r][j].url.host = trail[r][1].url.host
        /\ \A h \in PrivateHeaders \cup {"Authorization"} : sent[h] # Client

\* What the proxy talks to: the target over TLS first, then only redirect
\* hosts, at most MaxRedirects of them, and a POST is sent once
\* (redirect.go:31-57).
RedirectsConfined ==
    \A r \in Requests :
        /\ Len(trail[r]) <= 1 + MaxRedirects
        /\ req[r].method = "POST" => Len(trail[r]) <= 1
        /\ trail[r] # <<>> => /\ trail[r][1].url.scheme = "https"
                            /\ trail[r][1].url.host \in ProxyableHosts
        /\ \A i \in 2 .. Len(trail[r]) : Permitted(trail[r][i].url)

\* No connection is kept from the pool: at most one response body is open, the
\* last hop's, and none while a hop is awaited or once the exchange is over,
\* whichever way it ended (redirect.go:50-57, 86-88, proxy.go:217).
BodiesReleased ==
    \A r \in Requests :
        /\ bodies[r] \subseteq {req[r].hops}
        /\ pc[r] \in {"idle", "sent", "failed", "done"} => bodies[r] = {}

\* A redirect that is handed back leads through the proxy again, to the URL
\* GitHub meant, that is relative to the hop that answered; only an oversized
\* body sends the client to GitHub itself (proxy.go:196-207).
RedirectsComeBack ==
    \A r \in Requests :
        pc[r] = "streaming" =>
            CASE out[r].loc.base = "self" ->
                    /\ out[r].loc.url \in URL
                    /\ out[r].loc.url = IF resp[r].loc.kind = "relative"
                                        THEN Last(trail[r]).url ELSE resp[r].loc.url
              [] out[r].loc.base = "direct" ->
                    out[r].loc.url = Last(trail[r]).url /\ resp[r].body = 0
              [] out[r].loc.base = "untouched" ->
                    ~IsRedirect(Last(out[r].codes)) \/ resp[r].loc.kind = "malformed"
              [] OTHER -> resp[r].loc.kind = "absent"

\* Of a body whose declared length is over the limit the client is sent nothing,
\* not one chunk, from the moment GitHub declared it to the end of the exchange
\* (proxy.go:205-207, 211-234).
DeclaredOversizeNotStreamed ==
    \A r \in Requests :
        SizeLimit > 0 /\ resp[r].declared > SizeLimit => out[r].sent = 0

\* What redirect.go:64-65 says of an exhausted chain: the final redirect is
\* rewritten "back through the proxy so the client can continue it".  For a host
\* the proxy would have followed to, the client's next request needs ghurl to
\* accept that host as a target.
ExhaustedChainContinues ==
    \A r \in Requests :
        /\ pc[r] = "streaming" /\ req[r].method = "GET" /\ out[r].loc.base = "self"
        /\ Permitted(out[r].loc.url)
        => out[r].loc.url.host \in ProxyableHosts

-----------------------------------------------------------------------------
(* The exchange as the client sees it. *)

FinalCode(r) ==
    IF out[r].codes # <<>> /\ Last(out[r].codes) >= 200 THEN Last(out[r].codes) ELSE 0

ClientPhase(r) ==
    CASE pc[r] = "idle" -> "idle" [] pc[r] = "streaming" -> "answering"
      [] pc[r] = "done" -> "over" [] OTHER -> "waiting"

X == INSTANCE Exchange WITH
        Codes <- Codes \cup {302},
        Sizes <- 0 .. MaxBody,
        phase <- [r \in Requests |-> ClientPhase(r)],
        code <- [r \in Requests |-> FinalCode(r)],
        owed <- [r \in Requests |->
                    IF pc[r] = "streaming" THEN resp[r].body - resp[r].read ELSE 0],
        sent <- [r \in Requests |-> out[r].sent],
        cut <- {r \in Requests : out[r].ended = "aborted"}

\* What the client sees of it is an exchange as Exchange promises: one final
\* status after any 1xx, then the whole body that goes with it or a cut
\* connection; a 502 when there is no answer, and silence only for a client that
\* hung up (redirect.go:12-18, proxy.go:236-251).
ImplementsExchange == X!Spec
=============================================================================
