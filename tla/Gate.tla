-------------------------------- MODULE Gate --------------------------------
(***************************************************************************)
(* What the public handler decides about a request before it is forwarded: *)
(* internal/server (serve, serveStatus, listsAllow, selfBase),             *)
(* internal/auth and internal/ghurl/rule.go.  Operators only.              *)
(*                                                                         *)
(* A path is the sequence of its segments, as in GhUrl but without what    *)
(* stands before its first slash: "/gh/tok/x" is <<"gh","tok","x">> and    *)
(* "/gh/" is <<"gh","">>.  A request target that is missing is <<>>.  A    *)
(* name stands for all its spellings in upper and lower case, which        *)
(* EqualFold does not tell apart.                                          *)
(***************************************************************************)
EXTENDS GhUrl, Integers, FiniteSets

Served == {"GET", "HEAD", "POST", "OPTIONS"}

\* What the handler itself answers, as far as a client can tell two apart:
\* status, X-Robots-Tag, Cache-Control: no-store, chunks of body.
Denial == [code |-> 404, robots |-> TRUE, noStore |-> FALSE, sent |-> 1]
GoNotFound == [code |-> 404, robots |-> FALSE, noStore |-> FALSE, sent |-> 1]   \* http.NotFound
Page == [code |-> 200, robots |-> TRUE, noStore |-> TRUE, sent |-> 1]
NoSuchPage == [Denial EXCEPT !.noStore = TRUE]
PreflightReply == [code |-> 204, robots |-> FALSE, noStore |-> FALSE, sent |-> 0]
NoReply == [code |-> 0, robots |-> FALSE, noStore |-> FALSE, sent |-> 0]

-----------------------------------------------------------------------------
(* Authentication.  c is the configuration, h the request's header. *)

\* An anonymous instance has no token, and nothing equals it.
Equal(c, word) == c.token # "" /\ word = c.token

InPath(c, rest) ==
    /\ Len(rest) > 1
    /\ \/ Equal(c, Head(rest))
       \/ /\ Head(rest) \in DOMAIN Unescape /\ Len(Unescape[Head(rest)]) = 1
          /\ Equal(c, Unescape[Head(rest)][1])

InHeaders(c, h) ==
    \/ Equal(c, h.proxy)
    \/ h.scheme \in {"bearer", "token", "basic"} /\ Equal(c, h.pass)
    \/ h.scheme = "basic" /\ Equal(c, h.user)

\* Check: whether the request may pass, and what is left of the path.
Check(c, h, rest) ==
    IF ~c.anonymous /\ InPath(c, rest) THEN [ok |-> TRUE, rest |-> Tail(rest)]
    ELSE [ok |-> c.anonymous \/ InHeaders(c, h), rest |-> rest]

-----------------------------------------------------------------------------
(* Access lists.  A rule without a repository covers all of its owner's. *)

Covers(rule, t) == rule.owner \in {"*", t.owner} /\ rule.repo \in {"", t.repo}
Matches(rules, t) == \E rule \in rules : Covers(rule, t)

AllowListAlone(c, t) ==   \* seeded fault: the deny list is not asked
    IF c.allow # {} THEN Matches(c.allow, t) ELSE ~Matches(c.deny, t)
ListsAllow(c, t) ==
    /\ c.allow # {} => Matches(c.allow, t)
    /\ ~Matches(c.deny, t)

-----------------------------------------------------------------------------
(* The order of serve. *)

UnderPrefix(c, a) == IsPrefix(c.prefix, a.raw) /\ Len(a.raw) > Len(c.prefix)
AfterPrefix(c, a) == SubSeq(a.raw, Len(c.prefix) + 1, Len(a.raw))

Passed(c, a) == Check(c, a.headers, AfterPrefix(c, a))

TargetOf(c, a) == ParseWithDefaults(Passed(c, a).rest, c.defaults)

\* The reason to deny request a, None when it is served.
Reason(c, a) ==
    IF a.method \notin Served THEN "method not allowed"
    ELSE IF a.raw = <<>> THEN "no request target"
    ELSE IF ~UnderPrefix(c, a) THEN "outside mount prefix"
    ELSE IF ~Passed(c, a).ok THEN "authentication failed"
    ELSE IF TargetOf(c, a) = NoTarget THEN "not a proxyable GitHub URL"
    ELSE IF ~ListsAllow(c, TargetOf(c, a)) THEN "blocked by access list"
    ELSE None

Reasons == {"method not allowed", "no request target", "outside mount prefix",
            "authentication failed", "not a proxyable GitHub URL", "blocked by access list"}

\* A gist has no repository: its owner stands alone.
RepoName(t) == IF t.repo = "" THEN t.owner ELSE t.owner \o "/" \o t.repo

\* This proxy's own prefix for the request, as it was used.
SelfBaseFromConfig(c, a) == c.prefix   \* seeded fault
SelfBase(c, a) == SubSeq(a.raw, 1, Len(a.raw) - Len(Passed(c, a).rest))

-----------------------------------------------------------------------------
(* The status path, matched on the decoded path but stripped from the raw   *)
(* one as well, which http.StripPrefix answers with a 404 of its own.       *)

OnStatusPathByPrefix(c, a) ==   \* seeded fault: "/gh/to" takes "/gh/tok"
    LET path == Decoded(a.raw)
        n == Len(c.statusPath)
    IN  /\ n > 0 /\ n <= Len(path) /\ SubSeq(path, 1, n - 1) = Front(c.statusPath)
        /\ path[n] \in {Last(c.statusPath), Last(c.statusPath) \o "k"}
OnStatusPath(c, a) == c.statusPath # <<>> /\ IsPrefix(c.statusPath, Decoded(a.raw))

StatusAllowed(c, a) ==
    \/ c.statusAuth = "none"
    \/ Check(c, a.headers, <<"">>).ok
    \/ Equal(c, a.query)

\* Handler.ServeHTTP of internal/status, with the trailing slash trimmed.
StatusPage(c, a) ==
    LET sub == SubSeq(Decoded(a.raw), Len(c.statusPath) + 1, Len(Decoded(a.raw)))
        trimmed == IF sub # <<>> /\ Last(sub) = "" THEN Front(sub) ELSE sub
    IN  IF ~IsPrefix(c.statusPath, a.raw) THEN GoNotFound
        ELSE IF a.method \notin {"GET", "HEAD"} THEN Denial
        ELSE IF trimmed \in {<<>>, <<"json">>, <<"metrics">>} THEN Page ELSE NoSuchPage

StatusReplyUnauthorized(c, a) ==   \* seeded fault
    IF StatusAllowed(c, a) THEN StatusPage(c, a) ELSE [Denial EXCEPT !.code = 401]
StatusReply(c, a) == IF StatusAllowed(c, a) THEN StatusPage(c, a) ELSE Denial
=============================================================================
