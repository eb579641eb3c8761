------------------------------- MODULE Metrics -------------------------------
(***************************************************************************)
(* The in-memory collector behind the status page: internal/metrics.       *)
(*                                                                         *)
(* One mutex guards every field of the collector, so each critical section *)
(* is one action.  What lies outside the lock is kept apart from it:       *)
(* Finish reads the clocks first and takes the lock later (ReadClock, then *)
(* Finish), so other requests finish and the minute turns in between.      *)
(*                                                                         *)
(* A Recorder belongs to one handler goroutine.  A slot r of Requests is   *)
(* such a goroutine; it serves one request after another.                  *)
(***************************************************************************)
EXTENDS Integers, Sequences, FiniteSets

CONSTANTS
    Requests,        \* handler goroutines that may run at once
    Methods,         \* request methods, "OPTIONS" among them
    Kinds,           \* ghurl kinds: blob, release, ...
    Repos,           \* "owner/repo" names, or the owner of a gist
    Reasons,         \* deny reasons
    StatusCodes,     \* status codes a handler may finish with
    ByteCounts,      \* body bytes a handler may finish with
    Durations,       \* what time.Since(start) may read
    None,            \* Go's "": no kind, no repo, no reason
    RecentCap,       \* recentCap, 25 in the code
    ReposCap,        \* reposCap, 1000 in the code
    HistoryMinutes,  \* historyMinutes, 60 in the code
    FirstMinute,     \* the wall-clock minute the process starts in
    MaxMinute,       \* bound: the wall clock stops here
    MaxEvents        \* bound: requests served in a behaviour

\* Names are not the empty string, and there is at least one ring slot.
ASSUME MetricsConstants ==
    /\ None \notin Kinds \cup Repos \cup Reasons
    /\ StatusCodes \subseteq Nat
    /\ ByteCounts \subseteq Int
    /\ Durations \subseteq Nat
    /\ RecentCap \in Nat \ {0}
    /\ ReposCap \in Nat \ {0}
    /\ HistoryMinutes \in Nat \ {0}
    /\ FirstMinute \in Nat /\ MaxMinute \in Nat /\ MaxEvents \in Nat
    /\ IsFiniteSet(Requests)
    /\ IsFiniteSet(Repos)

\* The process starts long after the first hour of 1970, so no minute shown on
\* the chart is negative and the zero value of a bucket is never a real minute.
ASSUME StartsAfterTheEpoch == FirstMinute >= HistoryMinutes

VARIABLES
    inFlight, total, proxied, denied, preflight, bytes, durSum, durMax,
    status, reasons, kinds, repos,   \* the maps; a missing key is a count of 0
    recent, recentN,                 \* the ring, indexed from 0 as in the code
    history,                         \* the per-minute slots, indexed from 0
    rec,                             \* rec[r]: the Recorder held by handler r
    clock,                           \* the wall-clock minute
    log                              \* auxiliary: every finished Event, in lock order

counters == <<inFlight, total, proxied, denied, preflight, bytes, durSum, durMax>>
tables == <<status, reasons, kinds, repos, recent, recentN, history>>
collector == <<counters, tables, log>>
vars == <<collector, rec, clock>>

------------------------------------------------------------------------------
StatusClasses == {"1xx", "2xx", "3xx", "4xx", "5xx", "other"}

StatusClass(code) ==
    CASE code \div 100 = 1 -> "1xx"
      [] code \div 100 = 2 -> "2xx"
      [] code \div 100 = 3 -> "3xx"
      [] code \div 100 = 4 -> "4xx"
      [] code \div 100 = 5 -> "5xx"
      [] OTHER -> "other"

\* The branch of Finish's switch that a recording takes: a reason wins.
OutcomeIgnoringOptions(reason, options) ==   \* seeded fault: no case r.options
    IF reason # None THEN "denied" ELSE "proxied"

Outcome(reason, options) ==
    IF reason # None THEN "denied" ELSE IF options THEN "preflight" ELSE "proxied"

\* What the ring and the ledger hold.  options is not part of the code's Event:
\* it keeps r.options for the properties, which the code forgets at Finish.
Event == [at: Nat, method: Methods \cup {None}, kind: Kinds \cup {None},
          repo: Repos \cup {None}, status: StatusCodes \cup {0}, bytes: Nat, d: Nat,
          reason: Reasons \cup {None}, options: BOOLEAN]

ZeroEvent == [at |-> 0, method |-> None, kind |-> None, repo |-> None, status |-> 0,
              bytes |-> 0, d |-> 0, reason |-> None, options |-> FALSE]

Bucket == [minute: Nat, requests: Nat, bytes: Nat]

\* fin holds Finish's arguments and its two readings while it waits for the lock.
Ending == [status: StatusCodes \cup {0}, bytes: Nat, d: Nat, now: Nat]
NotEnding == [status |-> 0, bytes |-> 0, d |-> 0, now |-> 0]

Recorder == [pc: {"idle", "open", "ending"}, method: Methods \cup {None},
             kind: Kinds \cup {None}, repo: Repos \cup {None},
             reason: Reasons \cup {None}, options: BOOLEAN, fin: Ending]

IdleRecorder == [pc |-> "idle", method |-> None, kind |-> None, repo |-> None,
                 reason |-> None, options |-> FALSE, fin |-> NotEnding]

EmptyBucket(minute) == [minute |-> minute, requests |-> 0, bytes |-> 0]

Add(f, k, n) == [f EXCEPT ![k] = @ + n]

Open == {r \in Requests : rec[r].pc # "idle"}

------------------------------------------------------------------------------
Init ==
    /\ inFlight = 0 /\ total = 0 /\ proxied = 0 /\ denied = 0 /\ preflight = 0
    /\ bytes = 0 /\ durSum = 0 /\ durMax = 0
    /\ status = [c \in StatusClasses |-> 0]
    /\ reasons = [x \in Reasons |-> 0]
    /\ kinds = [k \in Kinds |-> 0]
    /\ repos = [p \in Repos |-> 0]
    /\ recent = [i \in 0 .. RecentCap - 1 |-> ZeroEvent]
    /\ recentN = 0
    /\ history = [i \in 0 .. HistoryMinutes - 1 |-> EmptyBucket(0)]
    /\ rec = [r \in Requests |-> IdleRecorder]
    /\ clock = FirstMinute
    /\ log = <<>>

\* Metrics.Start: the gauge goes up under the lock, the Recorder is handed out.
Start(r, method) ==
    /\ rec[r].pc = "idle"
    /\ inFlight' = inFlight + 1
    /\ rec' = [rec EXCEPT ![r] = [IdleRecorder EXCEPT !.pc = "open", !.method = method]]
    /\ UNCHANGED <<total, proxied, denied, preflight, bytes, durSum, durMax, tables, clock, log>>

\* The three marks only touch the handler's own Recorder; no lock is taken.
Deny(r, reason) ==
    /\ rec[r].pc = "open"
    /\ rec' = [rec EXCEPT ![r].reason = reason]
    /\ UNCHANGED <<collector, clock>>

Target(r, kind, repo) ==
    /\ rec[r].pc = "open"
    /\ rec' = [rec EXCEPT ![r].kind = kind, ![r].repo = repo]
    /\ UNCHANGED <<collector, clock>>

Preflight(r) ==
    /\ rec[r].pc = "open"
    /\ rec' = [rec EXCEPT ![r].options = TRUE]
    /\ UNCHANGED <<collector, clock>>

\* The head of Finish: time.Since(r.start) and time.Now() are read before the
\* lock.  code, n are the caller's arguments; a negative n counts as 0.
ReadClock(r, code, n, d) ==
    /\ rec[r].pc = "open"
    /\ rec' = [rec EXCEPT ![r].pc = "ending",
                          ![r].fin = [status |-> code, bytes |-> IF n < 0 THEN 0 ELSE n,
                                      d |-> d, now |-> clock]]
    /\ UNCHANGED <<collector, clock>>

FinishedEvent(q) ==
    [at |-> q.fin.now, method |-> q.method, kind |-> q.kind, repo |-> q.repo,
     status |-> q.fin.status, bytes |-> q.fin.bytes, d |-> q.fin.d, reason |-> q.reason,
     options |-> q.options]

\* len(m.repos): the keys present, those counted at least once.
Rows == {p \in Repos : repos[p] > 0}
TableSize == Cardinality(Rows)

AdmitsOneTooMany(p) == repos[p] > 0 \/ TableSize <= ReposCap   \* seeded fault
Admits(p) == repos[p] > 0 \/ TableSize < ReposCap

RecordRepo(p) ==
    repos' = IF p # None /\ Admits(p) THEN Add(repos, p, 1) ELSE repos

\* The outcome counters; durations are only kept for proxied requests.
RecordOutcome(e) ==
    LET o == Outcome(e.reason, e.options) IN
    /\ denied' = IF o = "denied" THEN denied + 1 ELSE denied
    /\ reasons' = IF o = "denied" THEN Add(reasons, e.reason, 1) ELSE reasons
    /\ preflight' = IF o = "preflight" THEN preflight + 1 ELSE preflight
    /\ proxied' = IF o = "proxied" THEN proxied + 1 ELSE proxied
    /\ durSum' = IF o = "proxied" THEN durSum + e.d ELSE durSum
    /\ durMax' = IF o = "proxied" /\ e.d > durMax THEN e.d ELSE durMax

RecordRecent(e) ==
    /\ recent' = [recent EXCEPT ![recentN % RecentCap] = e]
    /\ recentN' = recentN + 1

\* The slot of e's minute, cleared first if it still holds an older minute.
BucketKeepingStale(slot, minute) == [slot EXCEPT !.minute = minute]   \* seeded fault
BucketFor(slot, minute) == IF slot.minute # minute THEN EmptyBucket(minute) ELSE slot

RecordHistory(e) ==
    LET i == e.at % HistoryMinutes
        b == BucketFor(history[i], e.at)
    IN  history' = [history EXCEPT ![i] =
                       [minute |-> b.minute, requests |-> b.requests + 1, bytes |-> b.bytes + e.bytes]]

\* Seeded faults: Finish run twice for the gauge, or not at all.
RecordTotalsTwice(e) ==
    /\ inFlight' = inFlight - 2
    /\ total' = total + 1
    /\ bytes' = bytes + e.bytes
    /\ status' = Add(status, StatusClass(e.status), 1)

RecordTotalsLeakingGauge(e) ==
    /\ inFlight' = IF e.reason # None THEN inFlight ELSE inFlight - 1
    /\ total' = total + 1
    /\ bytes' = bytes + e.bytes
    /\ status' = Add(status, StatusClass(e.status), 1)

\* The gauge, the totals and the status class of Finish.
RecordTotals(e) ==
    /\ inFlight' = inFlight - 1
    /\ total' = total + 1
    /\ bytes' = bytes + e.bytes
    /\ status' = Add(status, StatusClass(e.status), 1)

\* The locked part of Finish, one critical section; the goroutine is then free.
Finish(r) ==
    LET e == FinishedEvent(rec[r]) IN
    /\ rec[r].pc = "ending"
    /\ RecordTotals(e)
    /\ RecordOutcome(e)
    /\ kinds' = IF e.kind # None THEN Add(kinds, e.kind, 1) ELSE kinds
    /\ RecordRepo(e.repo)
    /\ RecordRecent(e)
    /\ RecordHistory(e)
    /\ log' = Append(log, e)
    /\ rec' = [rec EXCEPT ![r] = IdleRecorder]
    /\ UNCHANGED clock

\* The minute turns.  A goroutine waits less than HistoryMinutes for the mutex,
\* an hour in the code, so no reading of the clock is that old when it is used.
Tick ==
    /\ clock < MaxMinute
    /\ \A r \in Requests :
          rec[r].pc = "ending" => clock + 1 - rec[r].fin.now < HistoryMinutes
    /\ clock' = clock + 1
    /\ UNCHANGED <<collector, rec>>

------------------------------------------------------------------------------
(***************************************************************************)
(* The caller: Server.ServeHTTP and serve.  A request is denied or it has  *)
(* a target; an OPTIONS request with a target is a preflight; Finish runs  *)
(* last, deferred.                                                         *)
(***************************************************************************)
Settled(q) ==
    \/ q.reason # None
    \/ q.kind # None /\ (q.method = "OPTIONS" => q.options)

Arrive(r) ==
    /\ Len(log) + Cardinality(Open) < MaxEvents
    /\ \E method \in Methods : Start(r, method)

RefuseAtAnyPoint(r) ==   \* seeded fault: the access lists after rec.Target
    /\ rec[r].reason = None
    /\ \E reason \in Reasons : Deny(r, reason)

Refuse(r) ==
    /\ rec[r].kind = None /\ rec[r].reason = None
    /\ \E reason \in Reasons : Deny(r, reason)

Resolve(r) ==
    /\ rec[r].kind = None /\ rec[r].reason = None
    /\ \E kind \in Kinds, repo \in Repos : Target(r, kind, repo)

AnswerPreflight(r) ==
    /\ rec[r].kind # None /\ rec[r].method = "OPTIONS" /\ ~rec[r].options
    /\ Preflight(r)

Close(r) ==
    /\ Settled(rec[r])
    /\ \E code \in StatusCodes, n \in ByteCounts, d \in Durations : ReadClock(r, code, n, d)

\* Nothing more happens once the bounds are used up.
Exhausted ==
    /\ Len(log) = MaxEvents /\ clock = MaxMinute
    /\ UNCHANGED vars

Next ==
    \/ \E r \in Requests :
          Arrive(r) \/ Refuse(r) \/ Resolve(r) \/ AnswerPreflight(r) \/ Close(r) \/ Finish(r)
    \/ Tick
    \/ Exhausted

Spec == Init /\ [][Next]_vars

------------------------------------------------------------------------------
(***************************************************************************)
(* Snapshot.  It reads the clock, takes the lock and copies, so the copy   *)
(* is a function of one state and of a reading now that may be older.      *)
(***************************************************************************)
RecentEventsFromNext(n) == [i \in 1 .. n |-> recent[(recentN - i + 1) % RecentCap]]   \* seeded fault
RecentNewestFirst(n) == [i \in 1 .. n |-> recent[(recentN - i) % RecentCap]]

\* recentEvents: the ring unrolled, newest first.
RecentEvents ==
    RecentNewestFirst(IF recentN > RecentCap THEN RecentCap ELSE recentN)

\* historyFrom: the window ending with now, oldest first; a slot of another
\* minute is shown as zero.
HistoryFrom(now) ==
    [i \in 1 .. HistoryMinutes |->
        LET minute == now - HistoryMinutes + i
        IN  BucketFor(history[minute % HistoryMinutes], minute)]

------------------------------------------------------------------------------
(***************************************************************************)
(* Properties.  The ledger is the requirement: whatever order handlers     *)
(* finish in, every number shown is the one a reader of the ledger counts. *)
(***************************************************************************)
\* A sum of naturals as the number of its units <<x, 1>>, ..., <<x, f[x]>>: the
\* library's folds say the same, but nothing can be proved of a fold here.
Units(f) == UNION {{x} \X (1 .. f[x]) : x \in DOMAIN f}
SumOf(f) == Cardinality(Units(f))

Count(Test(_)) == Cardinality({i \in DOMAIN log : Test(log[i])})
Total(Test(_), Val(_)) == SumOf([i \in {j \in DOMAIN log : Test(log[j])} |-> Val(log[i])])

EventProxied(e) == e.reason = None /\ e.method # "OPTIONS"

\* Type invariant of the collector, the recorders and the ledger.
TypeOK ==
    /\ inFlight \in Nat /\ total \in Nat /\ proxied \in Nat /\ denied \in Nat
    /\ preflight \in Nat /\ bytes \in Nat /\ durSum \in Nat /\ durMax \in Nat
    /\ status \in [StatusClasses -> Nat]
    /\ reasons \in [Reasons -> Nat]
    /\ kinds \in [Kinds -> Nat]
    /\ repos \in [Repos -> Nat]
    /\ recent \in [0 .. RecentCap - 1 -> Event]
    /\ recentN \in Nat
    /\ history \in [0 .. HistoryMinutes - 1 -> Bucket]
    /\ rec \in [Requests -> Recorder]
    /\ clock \in Nat
    /\ log \in Seq(Event)

\* The in-flight gauge counts exactly the recordings that are open, those
\* waiting for the lock in Finish included (metrics.go:87-97, 141).
GaugeExact == inFlight = Cardinality(Open)

\* Every counter, and every entry of the unbounded tables, is what the ledger
\* says: a preflight is neither proxied nor denied, only proxied requests feed
\* the durations, and each event is in one status class (metrics.go:141-162).
CountersMatchLedger ==
    /\ total = Len(log) /\ recentN = Len(log)
    /\ denied = Count(LAMBDA e : e.reason # None)
    /\ proxied = Count(EventProxied)
    /\ preflight = Count(LAMBDA e : e.reason = None /\ e.method = "OPTIONS")
    /\ bytes = Total(LAMBDA e : TRUE, LAMBDA e : e.bytes)
    /\ durSum = Total(EventProxied, LAMBDA e : e.d)
    /\ \A c \in StatusClasses : status[c] = Count(LAMBDA e : StatusClass(e.status) = c)
    /\ \A x \in Reasons : reasons[x] = Count(LAMBDA e : e.reason = x)
    /\ \A k \in Kinds : kinds[k] = Count(LAMBDA e : e.kind = k)

OutcomesAddUp ==
    /\ total = proxied + denied + preflight
    /\ durSum <= proxied * durMax

TablesAddUp ==
    /\ SumOf(status) = total
    /\ SumOf(reasons) = denied
    /\ SumOf(kinds) = proxied + preflight

\* The numbers of one snapshot agree with each other, as the comment on the
\* mutex promises (metrics.go:28-30): outcomes add up to the total, so do the
\* status classes, reasons add up to denied, kinds to what was not denied, and
\* the average duration is at most the maximum.
SnapshotAddsUp == OutcomesAddUp /\ TablesAddUp

\* The recent list is the tail of the ledger, newest first, however often the
\* ring has wrapped (metrics.go:169-179, 285-295).
RecentIsLedgerTail ==
    LET n == IF Len(log) > RecentCap THEN RecentCap ELSE Len(log)
    IN  RecentEvents = [i \in 1 .. n |-> log[Len(log) + 1 - i]]

RepoEvents(p) == {i \in DOMAIN log : log[i].repo = p}

\* The repository table never exceeds its cap, and the cap never costs a row
\* its accuracy: a row is exact, and a repository without one was only ever
\* seen with the table full (metrics.go:18-21, 163-167).
RepoTableExact ==
    /\ TableSize <= ReposCap
    /\ \A p \in Repos :
          /\ repos[p] \in {0, Cardinality(RepoEvents(p))}
          /\ repos[p] # Cardinality(RepoEvents(p)) => TableSize = ReposCap

\* The chart.  Read with a fresh clock, every minute of the window is exact,
\* although requests that read the clock earlier are recorded later; read with
\* a clock that went stale while Snapshot waited for the lock, a minute may
\* have been given up to a newer one, but is never shown with other traffic
\* (metrics.go:53-55, 181-187, 297-312).
HistoryExact ==
    \A now \in FirstMinute .. clock, i \in 1 .. HistoryMinutes :
        LET shown == HistoryFrom(now)[i]
            truth == [minute |-> shown.minute,
                      requests |-> Count(LAMBDA e : e.at = shown.minute),
                      bytes |-> Total(LAMBDA e : e.at = shown.minute, LAMBDA e : e.bytes)]
        IN  /\ shown.minute = now - HistoryMinutes + i
            /\ shown = truth \/ (now < clock /\ shown = EmptyBucket(shown.minute))
==============================================================================
