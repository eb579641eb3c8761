------------------------------- MODULE Server -------------------------------
(***************************************************************************)
(* The public handler, internal/server, composed of what it calls: Gate    *)
(* decides, the collector records (Metrics), the exchange with GitHub is   *)
(* Proxy.  Between them sits the counting writer, through which everything *)
(* the client of a recorded request gets goes.                             *)
(*                                                                         *)
(* A slot r of Requests serves one request.  The wall clock and GitHub's   *)
(* credential stand still here; Metrics and Proxy let them move.           *)
(***************************************************************************)
EXTENDS Gate, Meaning

CONSTANTS
    Requests,   \* handler goroutines
    Configs,    \* configurations Load accepts
    Methods,    \* methods clients may use
    Asks,       \* requests clients may make
    Repositories,   \* owners and repositories their URLs may name
    Hosts, ProxyableHosts, RedirectHosts, MaxRedirects, SizeLimit, HeaderNames,
    PrivateHeaders, Credentials, Client, Codes, Lengths, MaxBody, MaxInformational,
    RecentCap, ReposCap, HistoryMinutes, FirstMinute

VARIABLES
    cfg,        \* the configuration, fixed at start
    asked,      \* asked[r]: the request, NoAsk before it arrives
    reply,      \* reply[r]: what the handler answered by itself
    cw,         \* cw[r]: the counting writer
    entry       \* auxiliary: where r is in the ledger, 0 before

\* The variables of the collector and of the exchanges.
VARIABLES inFlight, total, proxied, denied, preflight, bytes, durSum, durMax,
          status, reasons, kinds, repos, recent, recentN, history, rec, clock, log
VARIABLES cred, pc, req, resp, out, bodies, uploading, gone, trail

M == INSTANCE Metrics WITH
        Kinds <- TargetKinds,
        Repos <- {RepoName(t) : t \in Repositories},
        StatusCodes <- Codes \cup {103, 200, 204, 302, 404, 502},
        ByteCounts <- 0 .. MaxBody + 1,
        Durations <- {1},
        MaxMinute <- FirstMinute,
        MaxEvents <- Cardinality(Requests)
P == INSTANCE Proxy

own == <<cfg, asked, reply, cw, entry>>
collectorVars == <<inFlight, total, proxied, denied, preflight, bytes, durSum, durMax, status,
                   reasons, kinds, repos, recent, recentN, history, rec, clock, log>>
exchangeVars == <<cred, pc, req, resp, out, bodies, uploading, gone, trail>>
vars == <<own, collectorVars, exchangeVars>>

NoAsk == [method |-> "", raw |-> <<>>, headers |-> [proxy |-> "", scheme |-> "", user |-> "", pass |-> ""],
          query |-> ""]

URLBack == <<"https:", "", "elsewhere">>   \* what selfBase may be put in front of

\* Paths are sequences of words and None is no reason.  A word without
\* percent-encoding decodes to itself, none to nothing, and net/http answers a
\* request whose path does not decode; a token is too long to be a scheme
\* (config.go:130-140), and default hosts are ghurl's (config.go:354-367).  Each
\* of those is an authority and its own host, and begins no URL; all but www can
\* be proxied (ghurl.go:146-163).  The owner and repository of whatever passes
\* the gate are in Repositories.
NameOf(t) == [owner |-> t.owner, repo |-> t.repo]
ASSUME ServerConstants ==
    /\ None \notin Reasons /\ NoAsk \notin Asks
    /\ \A c \in Configs : /\ c.prefix \in Seq(STRING) /\ c.statusPath \in Seq(STRING)
                          /\ c.anonymous \in BOOLEAN /\ c.token # "https:"
                          /\ c.defaults \in Seq(SupportedHosts)
    /\ \A a \in Asks : /\ DOMAIN a = DOMAIN NoAsk /\ a.method \in Methods
                       /\ a.raw \in Seq(STRING) /\ Decodable(a.raw)
    /\ \A w \in DOMAIN Unescape : Unescape[w] \in Seq(STRING) \ {<<>>}
    /\ None \notin TargetKinds \cup DOMAIN Authority /\ Schemes \cap DOMAIN Unglued = {}
    /\ DOMAIN Authority \subseteq STRING /\ \A w \in DOMAIN Authority : Authority[w] \in STRING
    /\ \A host \in SupportedHosts : host \in DOMAIN Authority /\ Authority[host] = host /\ Bare(host)
    /\ \A w \in DOMAIN Unescape : w \in {"blob", ""} => Unescape[w] = <<w>>
    /\ Decodable(URLBack) /\ \A i \in DOMAIN URLBack : Unescape[URLBack[i]] = <<URLBack[i]>>
    /\ SupportedHosts \ {"www.github.com"} \subseteq ProxyableHosts
    /\ \A c \in Configs, a \in Asks :
          Reason(c, a) = None => NameOf(TargetOf(c, a)) \in Repositories

\* The parts are used with constants they allow.
ASSUME PartsConstants == M!MetricsConstants /\ M!StartsAfterTheEpoch /\ P!ProxyConstants

-----------------------------------------------------------------------------
(* The counting writer. *)

NewWriter == [status |-> 200, written |-> 0, wrote |-> FALSE]

WriteHeader(w, code) ==
    IF w.wrote THEN w ELSE [status |-> code, written |-> w.written, wrote |-> TRUE]

WriteLast(w, n) == [status |-> w.status, written |-> n, wrote |-> TRUE]   \* seeded fault: = for +=
Write(w, n) == [status |-> w.status, written |-> w.written + n, wrote |-> TRUE]

\* What the exchange did to its ResponseWriter in this step goes through it.
Counted(r) ==
    LET code == out'[r].codes
        n == out'[r].sent - out[r].sent
        w == IF code # out[r].codes THEN WriteHeader(cw[r], Last(code)) ELSE cw[r]
    IN  cw' = [cw EXCEPT ![r] = IF n > 0 THEN Write(w, n) ELSE w]

-----------------------------------------------------------------------------
Init ==
    /\ cfg \in Configs
    /\ asked = [r \in Requests |-> NoAsk]
    /\ reply = [r \in Requests |-> NoReply]
    /\ cw = [r \in Requests |-> NewWriter]
    /\ entry = [r \in Requests |-> 0]
    /\ M!Init /\ P!Init

Arriving(r, a) == asked[r] = NoAsk /\ asked' = [asked EXCEPT ![r] = a]

\* ServeHTTP, status path: answered before any recording starts.
ServeStatus(r, a) ==
    /\ Arriving(r, a) /\ OnStatusPath(cfg, a)
    /\ reply' = [reply EXCEPT ![r] = StatusReply(cfg, a)]
    /\ UNCHANGED <<cfg, cw, entry, collectorVars, exchangeVars>>

\* ServeHTTP, anything else: the recording starts, the writer is wrapped.
Arrive(r, a) ==
    /\ Arriving(r, a) /\ ~OnStatusPath(cfg, a)
    /\ M!Start(r, a.method)
    /\ UNCHANGED <<cfg, reply, cw, entry, exchangeVars>>

Serving(r) == rec[r].pc = "open" /\ reply[r] = NoReply /\ pc[r] = "idle"

\* deny.
Deny(r, reason, answer) ==
    /\ M!Deny(r, reason)
    /\ reply' = [reply EXCEPT ![r] = answer]
    /\ cw' = [cw EXCEPT ![r] = Write(WriteHeader(@, answer.code), answer.sent)]
    /\ UNCHANGED <<cfg, asked, entry, exchangeVars>>

RefuseMethodOpenly(r) ==   \* seeded fault
    /\ Serving(r) /\ Reason(cfg, asked[r]) # None
    /\ Deny(r, Reason(cfg, asked[r]),
            IF asked[r].method \notin Served THEN [Denial EXCEPT !.code = 405] ELSE Denial)
Refuse(r) ==
    /\ Serving(r) /\ Reason(cfg, asked[r]) # None
    /\ Deny(r, Reason(cfg, asked[r]), Denial)

\* The request is served: its kind and repository are recorded.
ResolveBeforeLists(r) ==   \* seeded fault
    /\ Serving(r) /\ rec[r].kind = None
    /\ Reason(cfg, asked[r]) \in {None, "blocked by access list"}
    /\ M!Target(r, TargetOf(cfg, asked[r]).kind, RepoName(TargetOf(cfg, asked[r])))
    /\ UNCHANGED <<own, exchangeVars>>
Resolve(r) ==
    /\ Serving(r) /\ rec[r].kind = None /\ Reason(cfg, asked[r]) = None
    /\ M!Target(r, TargetOf(cfg, asked[r]).kind, RepoName(TargetOf(cfg, asked[r])))
    /\ UNCHANGED <<own, exchangeVars>>

\* preflight.
AnswerPreflight(r) ==
    /\ Serving(r) /\ rec[r].kind # None /\ asked[r].method = "OPTIONS"
    /\ M!Preflight(r)
    /\ reply' = [reply EXCEPT ![r] = PreflightReply]
    /\ cw' = [cw EXCEPT ![r] = WriteHeader(@, PreflightReply.code)]
    /\ UNCHANGED <<cfg, asked, entry, exchangeVars>>

\* s.proxy.ServeHTTP with the target in the request's context.
Forward(r) ==
    /\ Serving(r) /\ rec[r].kind # None /\ asked[r].method # "OPTIONS"
    /\ P!Begin(r, asked[r].method, TargetOf(cfg, asked[r]).host, HeaderNames)
    /\ UNCHANGED <<own, collectorVars>>

\* A step of the exchange, of GitHub or of the client.
Relayed(r) == Counted(r) /\ UNCHANGED <<cfg, asked, reply, entry, collectorVars>>
Relay(r) == pc[r] # "idle" /\ P!Step(r) /\ Relayed(r)

\* serve returns, or ReverseProxy panics to cut the connection: either way the
\* deferred Finish runs, with what the writer holds by then.
Returned(r) == reply[r] # NoReply \/ pc[r] = "done"
CloseUnlessAborted(r) ==   \* seeded fault: Finish is not deferred
    /\ Returned(r) /\ out[r].ended # "aborted"
    /\ M!ReadClock(r, cw[r].status, cw[r].written, 1)
    /\ UNCHANGED <<own, exchangeVars>>
CloseWithEarlyArguments(r) ==   \* seeded fault: the arguments of a plain defer
    /\ Returned(r)
    /\ M!ReadClock(r, NewWriter.status, NewWriter.written, 1)
    /\ UNCHANGED <<own, exchangeVars>>
Close(r) ==
    /\ Returned(r)
    /\ M!ReadClock(r, cw[r].status, cw[r].written, 1)
    /\ UNCHANGED <<own, exchangeVars>>

Record(r) ==
    /\ M!Finish(r)
    /\ entry' = [entry EXCEPT ![r] = Len(log')]
    /\ UNCHANGED <<cfg, asked, reply, cw, exchangeVars>>

Over(r) == asked[r] # NoAsk /\ rec[r].pc = "idle"

\* Every slot has served its request.
AllOver == (\A r \in Requests : Over(r)) /\ UNCHANGED vars

Handle(r) == Refuse(r) \/ Resolve(r) \/ AnswerPreflight(r) \/ Forward(r) \/ Close(r) \/ Record(r)

Next ==
    \/ \E r \in Requests :
          \/ \E a \in Asks : ServeStatus(r, a) \/ Arrive(r, a)
          \/ Handle(r)
          \/ Relay(r)
    \/ AllOver

Spec == Init /\ [][Next]_vars

\* The goroutine runs, its handler and what of the exchange waits for nobody;
\* the transport's header timeout fires once the hop's request is sent; a hang-up
\* that is sure to be noticed unblocks whatever waits on GitHub or on the client.
\* Nothing is assumed of those two: neither that an upload goes on, nor that
\* ReverseProxy, which closes the request's body, is done with the rest of it.
Fairness ==
    \A r \in Requests :
        /\ WF_vars(Refuse(r) \/ Resolve(r) \/ AnswerPreflight(r) \/ Forward(r) \/ Record(r))
        /\ WF_vars(r \notin uploading /\ Close(r))
        /\ WF_vars((P!ReturnResponse(r) \/ P!Deliver(r) \/ P!DeliverOversized(r)) /\ Relayed(r))
        /\ WF_vars(P!HandleError(r) /\ Relayed(r))
        /\ WF_vars(P!HeaderTimeout(r) /\ Relayed(r))
        /\ WF_vars(r \in P!Noticed /\ P!Cancelled(r) /\ Relayed(r))
        /\ WF_vars(r \in P!Noticed /\ (P!RefuseHop(r) \/ P!FollowHop(r)) /\ Relayed(r))
        /\ WF_vars(r \in P!Noticed /\ (P!AbortCopy(r) \/ P!FinishCopy(r)) /\ Relayed(r))

FairSpec == Spec /\ Fairness

\* Of GitHub: the few bytes of a redirect's body, which drain waits for without
\* a deadline, arrive or break off.
RedirectsArrive == \A r \in Requests : WF_vars((P!RefuseHop(r) \/ P!FollowHop(r)) /\ Relayed(r))

-----------------------------------------------------------------------------
(* Properties. *)

\* Type invariant of the composition.
TypeOK ==
    /\ M!TypeOK /\ P!TypeOK
    /\ cfg \in Configs
    /\ \A r \in Requests : asked[r] = NoAsk \/ asked[r] \in Asks
    /\ reply \in [Requests -> {NoReply, Denial, GoNotFound, Page, NoSuchPage, PreflightReply}]
    /\ cw \in [Requests -> [status: 100 .. 599, written: Nat, wrote: BOOLEAN]]
    /\ entry \in [Requests -> Nat]

\* Whether a word stands anywhere in a request, percent-encoded or not.
Mentions(a, word) ==
    \/ word \in {a.headers.proxy, a.headers.user, a.headers.pass, a.query}
    \/ \E i \in DOMAIN a.raw :
          \/ a.raw[i] = word
          \/ /\ a.raw[i] \in DOMAIN Unescape
             /\ \E j \in DOMAIN Unescape[a.raw[i]] : Unescape[a.raw[i]][j] = word

\* To a client that does not know the token the service is a site that has
\* nothing: whatever it asks, by whatever method, under the prefix, beside it or
\* on the status page, it gets the same 404, and GitHub hears nothing
\* (server.go:227-239, docs/security.md:3).
ProbeSeesNothing ==
    \A r \in Requests :
        asked[r] # NoAsk /\ ~cfg.anonymous /\ ~Mentions(asked[r], cfg.token)
        /\ ~(OnStatusPath(cfg, asked[r]) /\ cfg.statusAuth = "none")
        => /\ reply[r] \in {NoReply, Denial}
           /\ Over(r) => reply[r] = Denial
           /\ trail[r] = <<>>

\* What the parts of an embedded URL mean: it is written as a word that stands for
\* an authority, spelled somehow, with a path behind it.
Meanings(r) ==
    LET u == Unwrapped(Passed(cfg, asked[r]).rest)
        cuts == {c \in (DOMAIN u \cap 1 .. 3) \X DOMAIN Authority : Spells(SubSeq(u, 1, c[1]), c[2])}
    IN  {Meant(c[2], SubSeq(u, c[1] + 1, Len(u)), cfg.defaults) : c \in cuts}

\* The client gets what it names or nothing: however the URL is spelled, whole or
\* with slashes collapsed, encoded, without a scheme or without a host, with the
\* token before it or not, it stands for the target that was meant, and a host
\* that is named is never exchanged for another (ghurl.go:60-65, 77-84, 205-211,
\* 344-350, README.md:121-131).
ServesWhatIsNamed ==
    \A r \in Requests :
        asked[r] # NoAsk /\ UnderPrefix(cfg, asked[r]) =>
            \A thing \in Meanings(r) :
                /\ Is(TargetOf(cfg, asked[r]), thing)
                /\ trail[r] # <<>> => trail[r][1].url.host = thing.host

\* What ghurl.go:140-141 says of every blob: /raw/ serves the file.
ServesTheFile ==
    \A r \in Requests :
        asked[r] # NoAsk /\ UnderPrefix(cfg, asked[r]) =>
            \A thing \in Meanings(r) : TargetOf(cfg, asked[r]).path = thing.path

\* The owner/repo pairs the two lists leave: the allow list, if there is one,
\* without what the deny list names.
Admitted ==
    LET named(rules) == {t \in Repositories : \E rule \in rules :
                            /\ rule.owner = "*" \/ rule.owner = t.owner
                            /\ rule.repo = "" \/ rule.repo = t.repo}
    IN  (IF cfg.allow = {} THEN Repositories ELSE named(cfg.allow)) \ named(cfg.deny)

\* Traffic to GitHub is for a repository the lists admit, by a method the proxy
\* relays; an OPTIONS request never causes any (server.go:106-154, 199-206).
TrafficIsAdmitted ==
    \A r \in Requests :
        trail[r] # <<>> =>
            /\ asked[r].method \in {"GET", "HEAD", "POST"}
            /\ NameOf(TargetOf(cfg, asked[r])) \in Admitted

\* What the first segment of a URL that names its host may decode to.
URLHeads ==
    LET first == {"https:", "http:"} \cup EncodedSchemes \cup DOMAIN Unglued
                 \cup {w \in DOMAIN Authority : Authority[w] \in SupportedHosts}
    IN  {Head(Unescape[w]) : w \in first \cap DOMAIN Unescape}

\* The status page takes a request the proxy would have served only where the
\* operator put it there: on the mount prefix, above it or on the token behind it;
\* or below the prefix where the short form is on, or on what begins a URL.  No
\* other embedded URL and no other word that begins alike ends up on it
\* (server.go:94, 167-172, README.md:135-138).
StatusTakesOnlyItsOwn ==
    \A r \in Requests :
        LET mount == Decoded(cfg.prefix)
            spelled == {w \in DOMAIN Unescape : w = cfg.token \/ Unescape[w] = <<cfg.token>>}
        IN
        asked[r] # NoAsk /\ OnStatusPath(cfg, asked[r]) /\ Reason(cfg, asked[r]) = None
        => \/ IsPrefix(cfg.statusPath, mount)
           \/ \E w \in spelled : IsPrefix(cfg.statusPath, Decoded(Append(cfg.prefix, w)))
           \/ /\ IsPrefix(mount, cfg.statusPath)
              /\ cfg.defaults # <<>> \/ \E i \in DOMAIN cfg.statusPath : cfg.statusPath[i] \in URLHeads

\* A redirect that is handed back stays inside: the client's next request, with
\* the same header, to selfBase followed by the redirect's URL is authenticated
\* again, with exactly that URL left to match, and the status page takes it only
\* if the operator gave that a URL's path (server.go:208-214).
FollowUpAccepted ==
    \A r \in Requests :
        out[r].loc.base = "self" =>
            LET next == [asked[r] EXCEPT !.raw = SelfBase(cfg, asked[r]) \o URLBack]
            IN  /\ UnderPrefix(cfg, next)
                /\ Passed(cfg, next) = [ok |-> TRUE, rest |-> URLBack]
                /\ OnStatusPath(cfg, next) =>
                      \E i \in DOMAIN cfg.statusPath : cfg.statusPath[i] = "https:"

\* The writer's count is what the client got, at every moment, and wrote is set
\* exactly when it got something (server.go:241-264).
CountsWhatWasSent ==
    \A r \in Requests :
        rec[r].pc # "idle" =>
            /\ cw[r].written = out[r].sent + reply[r].sent
            /\ cw[r].wrote <=> out[r].codes # <<>> \/ reply[r] # NoReply

\* A finished request is in the ledger once, with the reason or the target it
\* had and the bytes the client got; its status is the one the client got
\* unless a 1xx came first, and 200 if it got none.  Status page requests are
\* not recorded at all (server.go:90-104, README.md:183).
RecordFaithful ==
    /\ Len(log) = Cardinality({r \in Requests : entry[r] # 0})
    /\ \A r \in Requests :
          /\ OnStatusPath(cfg, asked[r]) => entry[r] = 0
          /\ entry[r] # 0 =>
                LET e == log[entry[r]] IN
                /\ Over(r)
                /\ \A x \in Requests \ {r} : entry[x] # entry[r]
                /\ e.reason = Reason(cfg, asked[r])
                /\ e.kind = IF e.reason = None THEN TargetOf(cfg, asked[r]).kind ELSE None
                /\ e.bytes = out[r].sent + reply[r].sent
                /\ e.status = IF reply[r] # NoReply THEN reply[r].code
                              ELSE IF out[r].codes = <<>> THEN 200
                              ELSE Head(out[r].codes)

\* The handler calls the collector as Metrics assumes of its caller.
CollectorProtocol == M!Spec

\* Whatever happens to it, a request ends up recorded: one that is answered by
\* the handler itself, and one whose client sent all of it and hung up, a cut
\* connection included (server.go:101).
EveryRequestRecorded ==
    \A r \in Requests :
        rec[r].pc # "idle" /\ (reply[r] # NoReply \/ r \in P!Noticed) ~> Over(r)

\* A request that was sent to GitHub with its body, whatever its method, and each
\* later hop of its chain, is answered or over in the end, although GitHub may stay
\* silent on any of them, as long as the bodies of its redirects end (proxy.go:127,
\* redirect.go:40-63).  A request whose client stops in the middle of its body is
\* not: nothing times that out (main.go:121-130).
AnswerComes ==
    RedirectsArrive =>
        \A r \in Requests :
            pc[r] = "sent" /\ P!Sent(r) ~> pc[r] \in {"streaming", "done"}

\* What server.go:241-243 says of the counting writer: it "observes the status
\* code [...] that reached the client".  A client that was sent a final status
\* got that one.
RecordedStatusIsFinal ==
    \A r \in Requests :
        entry[r] # 0 /\ out[r].codes # <<>> =>
            log[entry[r]].status = Last(out[r].codes)
=============================================================================
