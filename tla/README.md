# gh-proxy in TLA+

A specification of gh-proxy beside its source: TLA+ modules translated from the
Go code under `src/`, instances that TLC checks exhaustively, and theorems that
TLAPS proves for every value of the constants. Line numbers are those of the
commit in `src/`.

## The system

gh-proxy is an HTTP server that lets a client reach GitHub through it. A request
`/<prefix>/<token>/https://github.com/...` is authenticated, its embedded URL is
matched against the shapes GitHub downloads have, and the request is streamed to
GitHub, redirects to GitHub's storage hosts being followed on the server.

| Component | State it keeps | Operations | Talks to |
|---|---|---|---|
| Public handler (`internal/server`) | none but the request's own: the Recorder, the counting writer | route, authenticate, match, apply lists, preflight, forward, deny | auth, ghurl, metrics, proxy; status under `GHP_STATUS_PATH` |
| Authentication (`internal/auth`) | the configured token | check a path segment or a header, strip it | called by the handler |
| URL matching (`internal/ghurl`) | none | repair a scheme, match host and path, rewrite blob to raw, allow and deny rules | called by the handler and by configuration |
| Proxy exchange (`internal/proxy`) | per request: current hop, its response body, the outgoing header | rewrite, follow redirects, modify the response, refuse a large body, handle errors | GitHub; reads the credential once per request |
| gh credential (`internal/ghcli`) | the cached token | load at start, refresh on a ticker, read | `gh` binary or its hosts file; read by proxy |
| Collector (`internal/metrics`) | counters, tables, a ring of recent events, a chart of 60 minute slots, one mutex | Start, Deny, Target, Preflight, Finish, Snapshot | written by the handler, read by status |
| Status handler (`internal/status`) | none | page, JSON, Prometheus | Snapshot |
| Status page (`status/page.html`) | last answer, failure count, poll timer | poll, render, change the rate | status JSON, GitHub's API for the version |
| Configuration (`internal/config`) | none after start | read and validate the environment | everything at start |
| Process (`cmd/gh-proxy`) | two listeners, the refresh goroutine | start, serve, shut down on a signal | all |

What is hard in it, and not in its unit tests:

* **Many handlers, one collector.** `Finish` reads the clocks before it takes the
  lock, so requests are recorded out of the order of their times, across minutes;
  the ring, the repository table and the chart all wrap or fill up meanwhile. The
  gauge is right only if every path runs `Finish` once, a panic included.
* **A chain of hops inside one RoundTrip.** Each early return owns an open body;
  the credential must not cross hosts nor come back; the loop must stop; a POST is
  never replayed; a redirect that is handed back must still make sense.
* **The client and GitHub fail at any point.** A hang-up races an error and an
  answer; a body breaks off; GitHub stalls.
* **A credential that rotates** underneath requests in flight, read from a program
  that can hang.
* **Shutdown** of two servers under one deadline.
* **String rewriting** in URLs, where the first match is not the matched segment.

What makes each component correct:

* Collector: every number on the page is the one a reader of all finished requests
  would count, and what is bounded stays exact inside its bound.
* Proxy exchange: credential and client headers go only where they may, redirects
  stay within the permitted hosts and the loop ends, bodies are closed, the client
  gets one final answer that makes sense, and nothing waits for ever.
* Public handler: a denied request causes no traffic and all denials look alike;
  what is recorded is what the client got, once, on every path.
* Credential source: the credential is one gh gave, a failed refresh keeps it, a later
  one replaces it.
* URL matching: the rewritten target names the object the client asked for.
* Configuration: no combination starts that the code means to refuse.
* Process: a signal ends both servers within the deadline, and no failure of one
  leaves the other's requests behind.
* Status: no answer is older than what the page showed when it was asked for; the page
  shows the latest answer in the end; the duration sum a scraper gets is short by less
  than a microsecond per request. (It may therefore step back between two scrapes by as
  much, as no other counter does.)

## Modules

| Module | Models | Kind |
|---|---|---|
| `Metrics` | `internal/metrics`, with the order in which `server.go` calls it | specification |
| `MCMetrics`, `MetricsCounters.cfg`, `MetricsWindows.cfg` | instances | TLC |
| `MetricsProofs` | theorems on `Metrics` | TLAPS |
| `Exchange` | what an exchange promises the client | abstract specification |
| `Proxy` | `internal/proxy` with `httputil.ReverseProxy`, GitHub and client as environment | specification, implements `Exchange` |
| `MCProxy`, `ProxySafety.cfg`, `ProxyExhausted.cfg` | instances | TLC |
| `ProxyProofs` | theorems on `Proxy` | TLAPS |
| `GhUrl` | `internal/ghurl/ghurl.go` | operators |
| `Meaning` | what a client means by an embedded URL, declaratively | reference for `GhUrl` |
| `Gate` | the decisions of `internal/server`, `internal/auth`, `ghurl/rule.go`, `status.Handler.ServeHTTP` | operators, on `GhUrl` |
| `Server` | `internal/server`, composed of `Gate`, `Metrics` and `Proxy` | specification |
| `MCServer`, `ServerGate.cfg`, `ServerExchange.cfg`, `ServerStatusCode.cfg`, `ServerBlob.cfg` | instances, configured through `Config` | TLC |
| `ServerProofs` | theorems on `Server` | TLAPS |
| `ProtocolProofs` | that `Metrics` and `Proxy` run inside `Server` as they are specified alone, and what follows | TLAPS |
| `GhCli` | `internal/ghcli`, with gh, its children and its file as environment | specification |
| `MCGhCli`, `GhSource.cfg`, `GhTimeout.cfg` | instances | TLC |
| `GhCliProofs` | theorems on `GhCli` | TLAPS |
| `Config` | `internal/config`, with `ParseRules` of `ghurl/rule.go` | operators |
| `Process` | `run` of `cmd/gh-proxy`, composed of `Config` and `GhCli` | specification |
| `MCProcess`, `Process.cfg` | instance | TLC |
| `ProcessProofs` | theorems on `Config` and `Process` | TLAPS |
| `Status` | `internal/status` and the polling of `page.html`, composed with `Metrics` | specification |
| `Status.cfg` | instance | TLC |
| `StatusProofs` | theorems on `Status` | TLAPS |
| `Induction` | induction on sets of naturals, concatenation of sequences | lemmas for the proofs |

### Metrics

The fields of `Metrics` are variables of the same names; a key missing from a Go
map is a count of 0. `rec[r]` is the Recorder of handler goroutine `r`, which
serves one request after another. The lock makes each critical section one
action: `Start`, `Finish`, and Snapshot as operators of one state. What happens
before the lock is apart: `ReadClock` is the head of `Finish` (metrics.go:131-135),
so between it and `Finish` other requests are recorded and `Tick` turns the minute.
Snapshot's own reading of the clock (line 247) is the parameter `now` of
`HistoryFrom`, quantified over every earlier minute.

`log` is an auxiliary variable, the ledger of finished events in lock order. It is
the requirement the collector is checked against: every number shown must be the
one a reader of the ledger would count.

The caller (`Arrive`, `Refuse`, `Resolve`, `AnswerPreflight`, `Close`) is the order
of `Server.ServeHTTP` and `serve`: Deny or Target, Preflight only for an OPTIONS
with a target, Finish last. That order matters: `SnapshotAddsUp` (kinds count what
was not denied) holds because of it.

Assumptions: the process starts after the first hour of 1970, so that the zero
value of a slot is no real minute and Go's `%` meets no negative minute; a
goroutine waits less than `HistoryMinutes` (an hour) for the mutex (`Tick`); the
wall clock does not step back. Left out: 64-bit wrap of the counters, sorting and
the cut to ten repositories in Snapshot, the nil collector.

### Proxy

`pc[r]` is where the goroutine of exchange `r` is: `sent` waits for
`base.RoundTrip`, `received` is the top of the loop, `returned` the return of
`followingTransport.RoundTrip`, `streaming` the copy, `failed` the error handler.
`req[r]` is the outbound request of the current hop, with the number of requests
sent so far (`hops`) and the credential read at the start (`cred`); `resp[r]` is
GitHub's answer to it. `out[r]` is what was done to the ResponseWriter:
the codes passed to `WriteHeader`, the Location, the chunks written. `bodies[r]`
holds the hops whose response body is open and `trail` (auxiliary) the requests
GitHub saw. URLs are scheme and host; bodies and Content-Length are counted in
chunks. `RefuseHop` and `FollowHop` contain `drain`, and drop the response; `Deliver`
is `modifyResponse` and ReverseProxy's `WriteHeader`, `DeliverOversized` the same with
`redirectOversized`. The auxiliary field `declared` of `resp[r]` keeps the length
GitHub gave, which `redirectOversized` sets to 0 (proxy.go:232).

`uploading` holds the exchanges whose request body is still on its way. Any request
may have one: ReverseProxy forwards the body of a GET or HEAD as well, and
redirect.go:73-74 drops it on later hops only. Two things wait for it. The header
timeout runs from the last byte of the request on, so `HeaderTimeout` needs `Sent(r)`,
that the body is gone or the hop is a later one. And net/http reads the connection,
and so learns of a hang-up, only behind the body: `Noticed` are the clients whose
hang-up is sure to be noticed, and one outside it may still get a 502
(`HandleError`).

GitHub answers anything at any time or never; the client may hang up at any point;
the credential rotates between any two steps. Left out: response header scrubbing,
CORS headers, protocol upgrades, ports and paths of URLs.

The exchange's fairness is stated where its goroutine is, in `Server`.

### Exchange

What the comments of `internal/proxy` promise a client, without hosts, hops or
errors: an exchange is idle, waits, is answered once with a final status and the
number of chunks that go with it, and is over; there is a 502 where there is no
answer (written in vain if the client hung up unnoticed), a cut connection where the
body breaks off, and silence only for a client that hung up. `Proxy` implements it under the mapping `X`: `sent`, `received`,
`returned` and `failed` are all `waiting`, the code is the last one written unless
it is a 1xx, and what is owed is the rest of the body GitHub announced. Hops,
uploads and rotations are stutters.

### GhUrl

`ParseWithDefaults` from the string to the target. A string with slashes is the
sequence of what is between them, so that a collapsed slash is a missing `""`, and
what a single word is comes from constants: `Unescape` (percent-decoding, which may
make several segments of one), `EncodedSchemes`, `Unglued` (a scheme with no slash
behind it), `Authority` (what `url.Parse` makes of the host part) and `Dotted` (what
`namesAHost` takes for a host). `Match` decodes the path to choose the kind, and
rewrites the escaped one, as the code does; `RewriteBlobToRaw` is the first
`/blob/` of it.

### Meaning

The reference `GhUrl` is held against, from the comments of ghurl.go and not from its
control flow. It goes from the meaning to the spelling: `Spells` lists the ways an
authority may be written in front of a path (two slashes, one, none, no scheme), `Shapes`
is the list of `Kind` (ghurl.go:22-28) as data, on which hosts, how many segments of
any name, which fixed ones, whether there is more; `Thing` is what a path names on a
host and `Meant` says which host that is, the one that is named or the first default
host that has such a thing. Nothing here repairs, cuts or tries in order. `Server`'s
`ServesWhatIsNamed` compares: for every way to read an authority and a path off a
request (`Meanings`), the target is what they mean and the first request goes to its
host. Since the property quantifies over all readings, it also says that no two of them
mean different things.

`Is` leaves one path open, that of a blob with another `blob` segment: there the code
rewrites the wrong one, which is the finding `first_blob` (`ServesTheFile`).

### Gate and Server

`Gate` has no state: it is what the handler computes from the configuration and one
request. A path is a sequence of segments, so that `strings.Cut` at a slash is
`Head` and `Tail` and a prefix `"/gh/"` is `<<"gh">>`; the empty last segment of
`"/gh/"` tells it from `"/gh"`. Percent-encoding is the function `Unescape`; the raw
request target keeps it (`serve`), the status path is matched on the decoded one
(`OnStatusPath`), and `http.StripPrefix` looks at both, which is why `GoNotFound` exists.
What an embedded URL stands for is `GhUrl`'s.
`Reason` is `serve` up to the line that records the target, in its order.

The status page's 404 for a sub-path it does not have (`NoSuchPage`) is not quite the
proxy's: status.go:84 has set `Cache-Control: no-store` by then, although
status.go:171-173 means the two to be the same. Only a client that is allowed to see
the page gets it, so `ProbeSeesNothing`, which leaves out `GHP_STATUS_AUTH=none`, holds.

`Server` instantiates `Metrics` as `M` and `Proxy` as `P` on variables of the same
names, and adds its own: `cfg`, `asked[r]` (the request), `reply[r]` (what the
handler answered by itself), `cw[r]` (the counting writer) and the auxiliary
`entry[r]` (where `r` is in the ledger). Every action is one of the handler's steps
joined with the collector's or the exchange's action that it calls: `Arrive` with
`M!Start`, `Refuse` with `M!Deny`, `Forward` with `P!Begin`, `Close` with
`M!ReadClock`. `Relay` is any step of the exchange, and whatever that writes goes
through `cw` (`Counted`). The caller that `Metrics` assumes is replaced by the real
one, and `CollectorProtocol` (`M!Spec`) is the refinement that shows it does what
`Metrics` assumed.

`Returned` holds after a normal return and after ReverseProxy's panic alike: the
deferred `Finish` runs in both. A write is counted as far as the ResponseWriter
accepted it; that net/http accepts and drops the body of an answer to HEAD is below
this model, and so are CORS headers and a server without a collector.

Fairness (`Fairness`): the handler's steps and what of the exchange waits for nobody
(`ReturnResponse`, `Deliver`, `HandleError`) are weakly fair because the Go scheduler
runs a goroutine that can run. `HeaderTimeout` is, because `ResponseHeaderTimeout` is
set on the transport (proxy.go:127), but no sooner than the hop's request is sent, and
provided it is not configured negative, which net/http takes for none. For a client whose hang-up is noticed (`Noticed`),
`Cancelled`, the hops and the end of the copy are, because net/http cancels the context
and the transport and the body reads return. `Close` is, once the request's body is
done: ReverseProxy closes that body before it returns, which may wait for the client.

Nothing is assumed of the client's upload. main.go:121-130 sets a `ReadHeaderTimeout`
and no `ReadTimeout`, so a request of any method whose body stalls, with or without a
hang-up on the wire, is timed out by nothing, and `AnswerComes` and `EveryRequestRecorded`
rightly leave it out: the one speaks of hops whose request was sent, the other of
requests the handler answers itself and of clients that sent all of theirs and hung
up. A client that pipelines requests is outside the model, since net/http does not
notice its hang-up while unread bytes are pending.
`RedirectsArrive` is an assumption on GitHub, used by
`AnswerComes` alone: the body of a redirect, which `drain` reads without a deadline,
arrives or breaks off.

### GhCli

`pc` is where Load, and after it the Refresh goroutine, is: `fetch` before
`exec.LookPath`, `running` inside `cmd.Run`, `select` between ticks. `token` is what
`Token()` returns to the exchanges. `gh`, `printed`, `helper` and `expired` are the
invocation under way: the process and how it ended, its stdout, whether a child of it
holds the pipes, and whether its timeout has passed. `tick` is the ticker's channel,
which holds one. gh reads its own store at one moment (`PrintToken`) and exits at
another; the context's end kills gh alone (`Kill`); `Waited` is `cmd.Wait` without
WaitDelay, which waits for gh and for its output to close. A context that ends after
gh has exited may or may not turn the answer into an error (`ReapError`). The user
and gh change the login, the binary and hosts.yml at any time, `MaxChanges` times in
all.

`token` is what `Proxy` calls `cred`: `OnlyGhsCredential` is what `Rotate` assumes of
it, that it changes from one credential to another and never to none.

hosts.yml is a sequence of lines, of which only the column, the key and the value
matter. `ScannedWord` is the scanner's loop, `HostToken` says which line it means;
`CatchesUp` and `OnlyGhsCredential` are stated with the latter.

Fairness: `RuntimeFairness` is Go's. The branch of a select that is ready again and
again is taken (`SF` of `TakeDone`), because select chooses at random. `GhFairness`
is an assumption on gh: tried again and again it answers again and again, and its
helpers end. The finding of `gh_timeout` is what happens without the last.

### Config and Process

`Config` is `Load`: from an environment, a record with a field for each variable the
models know, to a configuration or `Refused`. Which of several errors is returned is
left out. `EnvBytes` keeps the code's 64-bit product, `Wrap`, with `IntLimit`, 2^63 in
the code, a constant like `Kilo`; the units are 0 for bytes to 3 for G. The configurations `Server` is checked with are what `Load` makes of
environments, so that a status path or a prefix has the shape it has in the program.
An unset `GHP_REDIRECT_HOSTS` stands for the built-in hosts, one of separators only for
no host at all (`HostsToFollow`, config.go:177-184).

`Process` is one run of the program. `phase` is where `run` is, `listener[l]` what
became of each `ListenAndServe`, `errs` what is in `errCh`, `busy` the listeners with
a request in flight. It instantiates `GhCli` as `G` on variables of the same names:
`upstreamCredential` is `GhCli`'s Load, `cancelled` is the context both share, and
where the source is not gh none of its steps is taken. The two `Shutdown`s are
modelled as `main` uses them: the listener closes at once, then requests are waited
for until the deadline, and public's begins when admin's returned; until then public
goes on accepting. A listener that binds after its `Shutdown` was called closes at
once. The select picks at random between an error and the signal.

`ExitsInTime` assumes that `run`'s own steps, the deadline and gh's are fair, the
children of gh included (the finding of `gh_timeout` is what happens without that);
nothing of clients, whose requests may last for ever.

### Status

The readers of the collector. `Snapshot` is `Metrics.Snapshot` before the cut to ten
rows; `Average` is the mean in whole microseconds and `PromSum` the sum the
Prometheus handler rebuilds from it. `poll[s]` is a call of the page's `tick()`: polls
are not serialised, so `Draw` draws answers in the order they arrive. The timer polls
while the tab is visible; loading the page and changing the rate poll whether it is or
not (page.html:566-573), so `Begin` does not ask for it and only its fairness does. `known` is
auxiliary, what the page showed when the poll began. `failures` and `live` are the script's.

An older answer may be drawn after a newer one. The properties say what holds in
spite of it: `NothingOlderThanKnown` bounds how far back (`AtLeast` compares every
counter and table), `PageCatchesUp` that it does not stay, `BadgeTellsTheOutage` that
a late answer does not keep the badge up.

Fairness: the timer of a visible tab, the handler and the browser. The script gives
fetch no timeout; that a fetch is answered or fails is an assumption on the browser
and the network between.

## Runs

| Run | Question | Bounds |
|---|---|---|
| `metrics_counters` | do all counters agree with the ledger and with each other? | 2 handlers, 3 requests, every outcome, two status classes, sizes and durations; the clock stands still |
| `metrics_windows` | do the ring, the capped table and the chart stay exact when they wrap? | 2 handlers, 4 requests, ring of 2, table of 1 of 2 repositories, chart of 2 over 3 minutes |
| `proxy_safety` | what goes out, what comes back, what stays open, and is it an abstract exchange? | 1 exchange (exchanges share only the credential, which rotates freely), 3 hosts, 2 redirects, every Location form, a 1xx, bodies of 0 to 2 chunks at a limit of 1 |
| `proxy_exhausted` | finding: a redirect handed back after the last hop | 2 hosts, 1 redirect |
| `server_gate` | who gets what, what reaches GitHub, and is it what was named? | 1 request of some 400 forms; the configurations differ in mode, prefix, lists, the order and number of default hosts, and a status page off, open, by token, on the prefix and below it; a token right, wrong, encoded or missing in each place; seven things in every spelling asked for by OPTIONS, which parses and matches like any method, and one of them by GET in every spelling, held against `Meaning`; the exchange is one hop without a body |
| `server_exchange` | is what is recorded what was sent, is it always recorded, and does an answer come? | 1 request of four forms, 1 redirect, a 1xx, bodies of 0 to 2 chunks, every failure |
| `server_status_code` | finding: a 1xx is recorded as the answer | 1 request |
| `first_blob` | finding: the wrong `/blob/` is rewritten | 1 request, 2 paths with a second `blob` |
| `gh_source` | is the credential in hand always gh's, does it catch up, does the goroutine stop? | 2 credentials, an empty and an unclean answer, 4 hosts.yml and none, 2 changes of the world: enough to rotate while gh runs and to take the binary away and put it back |
| `gh_timeout` | finding: gh's timeout and gh's children | 1 credential, no file, no change |
| `process` | what starts, with which settings, and how does it end? | some 200 environments one or two settings from a sound one, of which the tokens' and the sources' are all combinations; 8-bit integers (`IntLimit` = 128) and K = 4, so that a product wraps at K, M and G; 1 request in flight at each listener; gh present or not, with its file or without, unchanged |
| `status` | what do a scraper and the page see of a collector that goes on? | 2 overlapping polls, 2 requests of durations whose mean is truncated, 2 units in a microsecond; the tab and the network change at will |

Two handlers are enough for the collector because a critical section involves one
recorder and the shared state: a third handler adds only more of the same
orders. One request is enough for `Server` because requests meet only in the
collector, whose interleavings are the first two runs'. Two polls are the fewest that overlap;
a third is between the other two and brings nothing new to what each knew when it
began. The caps are small so that each wraps at least once inside the bound.

A run stops where its bound is used up: `Exhausted` and `AllDone` are the only
steps left then, so that TLC's deadlock check still covers everything before.

Every property has a seeded fault, an operator marked as such beside the
definition it replaces, that violates it.

## Proofs

Every safety property of the passing runs is a theorem, for every value of the
constants under the named assumptions of the modules.

### The parts alone

`MetricsProofs`, for every finite set of handlers, every data set and every value of
the caps and bounds, from `MetricsConstants` and `StartsAfterTheEpoch`:

* `TypeCorrect` (`TypeOK`) and `GaugeCorrect` (`GaugeExact`). Neither is inductive
  alone. That the gauge is never negative, part of `TypeOK`, needs to know that the
  recording that finishes was counted; that it counts open recordings needs the
  types. `MetricsInv` is their conjunction. One lemma covers every step that only
  writes a handler's own Recorder (`RecorderStep`), one each `Start` and `Finish`,
  the latter one conjunct of the critical section at a time.
* `OutcomesCorrect` (`OutcomesAddUp`): total is denied plus preflights plus proxied.
* `CountersCorrect` (`CountersMatchLedger`) and `SnapshotCorrect` (`SnapshotAddsUp`).
  A sum over a ledger or a table is not a fold here but the number of its units
  (`Units`, `SumOf`), the size of the set of pairs of an index and a number below its
  entry: what an appended event adds is then a disjoint set, and the theorems on
  finite sets do what an induction would. That the tables sum to the counters needs
  nothing of the ledger; that they agree with it needs every entry's class, reason
  and kind to be one of the table's.
* `RecentCorrect` (`RecentIsLedgerTail`), from `RingInv`: the write index is the
  length of the ledger, and the slot `i % RecentCap` holds entry `i` of it for the
  last `RecentCap` entries. That a write disturbs none of them is `SlotsDistinct`,
  that two numbers less than `c` apart differ modulo `c`.
* `RepoTableCorrect` (`RepoTableExact`), inductive over the types; the cardinality
  of a repository's events grows by one exactly when its event is appended.
* `HistoryCorrect` (`HistoryExact`), from `HistoryInv`: each slot has exactly the traffic
  of the minute it was last opened for, and no event of the ledger with that slot is of
  a later one. It is kept because of `ClockInv`: a reading of the clock that is
  recorded is less than the chart's length old, so the slot of a late request holds
  its own minute or an older one, never a newer one it would wipe out.

`ProxyProofs`, for every set of requests, hosts, headers and credentials and every
`MaxRedirects` and `SizeLimit`, from `ProxyConstants`:

* `TypeCorrect` (`TypeOK`), from `ProxyInv`, which adds that a response the code
  looks at has a status GitHub gave.
* `BodiesCorrect` (`BodiesReleased`), inductive over the types.
* `ConfinementCorrect` (`RedirectsConfined`) and `CredentialCorrect`
  (`CredentialStaysHome`). What the code decides, it decides from the request in
  hand; what the properties speak of is the trail. `TrailMatches` ties them: the
  trail has one entry per hop and its last is the current request. `FirstHop` and
  `NextHop` are the two steps that send, `OtherSteps` says no other does.
* `SizeLimitCorrect` (`DeclaredOversizeNotStreamed`): of a body declared over the limit
  nothing is sent, not one chunk. From `DeliveryInv`: until the answer the declared
  length is the one the code compares, what is streamed although it was declared
  over the limit is empty, and what is written is what was read of the response in
  hand, no more than it has.
* `RedirectsCorrect` (`RedirectsComeBack`), from `TrailMatches` and `ReturnInv`, what
  was known of the response when its header was written.
* `ExchangeImplemented` (`ImplementsExchange`), the refinement: the initial states map
  to initial states, and for each action one lemma says which step of `Exchange` it
  is, or that the client sees nothing of it.

`GhCliProofs`, for every set of credentials, unclean words and files and any number
of changes, from `GhConstants`:

* `TypeCorrect` (`TypeOK`) and `ServesCorrect` (`ServesWithCredential`), from
  `GhInv`, which adds `PrintedIsFresh`: while gh runs, its login and what it printed
  are among what it could have printed since it was started.
* `CredentialCorrect` (`OnlyGhsCredential`), an action property. Only four steps can
  change the credential (`OnlyFetches`), two of them end in an error. Of the other two
  one read what gh printed, which `PrintedIsFresh` places after its start, and one
  hosts.yml, where it read the host's token:
* `ReadsTheHostsToken`: what the scanner finds is `HostToken`, for every file. The
  scanner is a recursive function with a flag, and the library's induction takes a
  predicate the provers cannot instantiate. But that `<` is well founded on the
  naturals is a plain fact, from which `Induction` proves that a set of naturals that
  holds 0 and with each number the next holds them all (`InductionOnSets`); what is
  to be shown for every length is then a set of lengths.

### The handler

`ServerProofs`, for every set of configurations and requests and any number of
handlers at once, from `ServerConstants`:

* `ServerInvariant`, `ServerInv`: each request's variables (`Slot`) fit what the gate
  says of it. A step touches one slot (`OneSlot`), and there is a lemma for each.
* `TrafficCorrect` (`TrafficIsAdmitted`) and `ProbeCorrect` (`ProbeSeesNothing`), from it and
  two lemmas on the gate: without the token every request is refused
  (`NoTokenNoEntry`), and what is not refused is admitted (`ServedIsAdmitted`).
* `CountCorrect` (`CountsWhatWasSent`), from `AccountInv`: the writer has counted what
  the handler and the exchange wrote, which only one of the two does.
* `StatusPathCorrect` (`StatusTakesOnlyItsOwn`) and `FollowUpCorrect` (`FollowUpAccepted`), from
  `ServerInv` and lemmas on paths. A request that passes is its own base, the prefix
  with or without the token's word, followed by what is left to match (`PassedPath`).
  `Decoded` distributes over the two (`DecodedBoth`, by `InductionOnSets`), and
  `PrefixOfBoth` says where in them a status path can end. What is left must begin like a
  target (`TargetHead`); a redirect's URL behind the same base is split off at the same
  place (`Rejoined`).

  Neither says "never". Nothing in config.go keeps an operator from giving a status
  path that looks like a target (`/https:/status`), that is the prefix, or that lies on
  the token behind it, and then the page does take such a request. The theorems say
  these are the only ways.
* `TargetsOnGitHub`: whatever string is parsed, a target is on one of the six hosts of
  `hostCandidates`, `www` under its canonical name. It needs no assumption.
* `ParsedAsMeant`, the long way to `ServesWhatIsNamed`: a path that spells a word and a
  path behind it is parsed into what the two mean. `Prepared` undoes the spelling,
  one case for each that `Spells` lists. `KindsAre` says that the matchers of ghurl.go, which
  try shapes in order, and `Shapes`, which has no order, name the same kind: at most one
  shape fits on a host (`KindsOnGitHub` and its like). `FileIs` is the rewriting of a
  blob: the segment that decides the kind is found on the decoded path and rewritten on
  the escaped one, so with `Decoded` distributing over both halves the two are the same
  unless another `blob` is in the path. `FallbackIs` is the short form: what is built for
  a default host and parsed again is the whole path on that host, an encoded
  slash in its first segment included.

`ProtocolProofs` shows that composing changes nothing. It instantiates the proof
modules of the parts, `PP` for the exchanges and `MP` for the collector, so that what is
proved of them alone can be cited of the server once it is shown to run them:

* `ExchangesRun`: `Spec` implies `Proxy`'s `Spec`. Its first step needs `ServerInv` (the host
  of a forwarded request is one the exchange accepts), every other is a step of `Proxy`
  joined with the writer's. `ExchangesSafe` and `ExchangesAnswer` are what follows:
  every safety theorem of `ProxyProofs`.
* `ProtocolCorrect` (`CollectorProtocol`) and `CollectorRuns`: `Spec` implies `Metrics`'s
  `Spec`. `Metrics` assumes a caller and the server replaces it, so each of the
  handler's steps must be one that caller could take, the arguments of `Finish`
  and the bound on events included. `CollectorShows` is what follows, every
  theorem of `MetricsProofs` on what the page shows.
* `RecordCorrect` (`RecordFaithful`), from `Joint`, which is inductive with everything
  before it: `MarksInv` (the Recorder agrees with what the gate decided, step by step),
  `WriterInv` (the writer's status is the first code written) and `LedgerInv` (the
  entry of a finished request is its Recorder's last word, and no two share one).
* `TypeCorrect` (`TypeOK`), the parts' by the same road, the writer's (`WriterTyped`) here.
* `NamedCorrect` (`ServesWhatIsNamed`): `ParsedAsMeant` for the target, and `AimedInv` for the
  traffic: an exchange that has begun was sent to its request's target first, and the
  redirects it follows are put behind that. `ServesWhatIsNamed` is not inductive: it
  does not say that an idle exchange has sent nothing, nor that one under way has.
* `RelaysGitHubOnly`, which no run checks: the first request is by https to one of the
  hosts of `hostCandidates`, from `AimedInv` and `TargetsOnGitHub`. This is the code's own
  claim, "nothing else reaches the network" (ghurl.go:146-148); where redirects may
  lead from there is `RedirectsConfined`.

The assumptions are on constants. `ServerConstants` says that the hosts ghurl accepts
(`SupportedHosts`, ghurl.go:151-162) may be proxied, are what url.Parse makes of themselves
and begin no scheme; that default hosts are among them, which config.go:361 sees to; that
what passes the gate names a repository of the instance; that a `None` is no reason, no
kind and no authority; that a request's path decodes, each word to something and a plain
one (`blob`, the empty one) to itself (net/http answers others before the handler runs);
that a scheme alone has no host glued to it; and that no token is `https:`, which config.go:136
refuses as too short;
`PartsConstants` that the parts get constants they allow. TLC evaluates both on every
run of `Server`.

### The process and the page

`ProcessProofs`, for every set of environments and words, every width of the integers
and whatever gh does, from `SizesHaveUnits` (a size is unset, no size, or a number with
one of the four units of config.go:335-337), `Sizes` and `SourceConstants`:

* `ListensCorrect` (`ListensOnlyWhenSound`). `LoadSound` is the statement on `Load` alone;
  `ProcessInv` carries it from the configuration to the moment a listener is up, with
  the credential's part in it (`CredentialInv`).
* `LimitCorrect` (`LimitAsWritten`): the product is kept by `Wrap` exactly if it fits, and
  what is negative is refused before there is a product.
* `CutCorrect` (`CutOnlyByDeadlineOrFailure`), from `ShutdownInv`: what each phase of the
  shutdown knows of the signal, the deadline and the failures.
* `SourceRunsAsAlone`: `Spec` implies `GhCli`'s `Spec`, whose steps the process takes or
  leaves alone; `CredentialCorrect` is what follows, and `TypeCorrect` (`TypeOK`).

`StatusProofs`, for any number of polls and handlers:

* `SumCorrect` (`SumWithinOneMicroEach`): two divisions and a product, over whatever
  the collector has added up.
* `NothingOlderCorrect` (`NothingOlderThanKnown`), from `PageInv`: everything drawn or
  on its way is at most what the collector holds now, since no step of the collector
  takes anything back.
* `CollectorUndisturbed`: under its readers the collector runs as `Metrics` says. From it
  `StatusTypeCorrect` (`StatusTypeOK`), and `PageAddsUp`, which no run checks: what the
  page shows is of one moment, so its numbers add up, because `SnapshotAddsUp` held when
  the answer was given and nothing mixes two answers.

### What is only model-checked

* All liveness (`EveryRequestRecorded`, `AnswerComes`, `CatchesUp`, `StopsOnSignal`,
  `ExitsInTime`, `PageCatchesUp`, `BadgeTellsTheOutage`): fairness and ENABLED are
  beyond the provers.

## Findings

* `first_blob`: the first `/blob/` anywhere in the path is rewritten, of a `/raw/` URL as
  well (ghurl.go:142, 334-338), so that a file under a directory `blob`, or in a
  repository of that name, is fetched from elsewhere, where the comment promises "the
  file" (ghurl.go:140-141).
* `proxy_exhausted`: a redirect handed back after an exhausted chain "so the client
  can continue it" (redirect.go:64-65) may lead to a storage host that ghurl does
  not accept, and so to a 404.
* `server_status_code`: the counting writer keeps the first code it sees, so that an
  informational answer of GitHub hides the status "that reached the client"
  (server.go:241).
* `gh_timeout`: the timeout that "caps a single gh invocation" (ghcli.go:52) does not
  end one whose gh leaves a child with its output open (ghcli.go:192-195).

Met on the way and not findings, because no text of the repository says otherwise: a
body without Content-Length passes the size limit (proxy.go:205), which
`DeclaredOversizeNotStreamed` therefore does not speak of; a limit whose product
exceeds 64 bits wraps (config.go:351); a URL with an encoded scheme is decoded as a
whole and once, so that one that was only half encoded loses an encoding of its own;
on an anonymous instance with raw or gist among the default hosts a path segment that
is no token, or a stale one, is an owner; `/%62lob/` is matched as blob and not
rewritten.

## Plan

1. Done: `Metrics`, `Proxy`, `Gate`, `Server` and `GhCli`.
2. Done: `GhUrl` in place of a table of targets, `Config`, `Process`, `Status`.
3. Done: the abstract `Exchange`, and the proof that `Proxy` implements it.
4. Done: safety theorems on every specification, and that the parts run inside
   `Server`, `Process` and `Status` as they are specified alone.
5. Done: what a recursive definition computes, for every input, where a property needs
   it (`FromHostsFile`, `Decoded`).
6. Done: `Meaning` in place of a table of targets, and that `ParseWithDefaults` names what
   is meant, for every URL.
7. Left: requests on idle keep-alive connections in `Process`; the page's
   check for a newer build.

## Not modelled

* Of the page: the check of GitHub for a newer build, drawing, sorting, the cut to
  ten rows. Of the status handler: the Prometheus text and its labels.
* Of the process: the health check subcommand, the logger, the admin routes, build
  metadata; a signal before `NotifyContext`, which kills the process; a request that
  begins on an idle connection during `Shutdown`. gh's world stands still in it: its
  changes are `gh_source`'s.
* Of the configuration: variables that reach no model (addresses, log level, most
  timeouts, CORS) and which of several errors is reported. `MaxRedirects`, `SizeLimit`
  and `RedirectHosts` are constants of `Proxy`, independent of `Load`'s.
* Of URLs: the query, which is carried through, letter case where the code folds it,
  spaces. Of headers: their values beyond who they came from.
* Logging, HTML, the Docker and Makefile plumbing; TLS, connection pooling and HTTP
  framing below `http.RoundTripper`. CORS headers. A server without a collector.
