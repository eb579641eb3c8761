-------------------------------- MODULE Status --------------------------------
(***************************************************************************)
(* The readers of the collector: the status handler, internal/status, and  *)
(* the script of its page, which polls /json in one browser tab.           *)
(*                                                                         *)
(* Polls are not serialised: the timer starts one whether or not the last  *)
(* is back, so answers are drawn in the order they arrive.  A slot s of    *)
(* Polls is a call of tick() that is under way.  The collector is Metrics; *)
(* the chart's minutes are its HistoryExact.                               *)
(***************************************************************************)
EXTENDS Metrics

CONSTANTS
    Polls,      \* bound: polls under way at once
    Micro       \* 1000 in the code: units of a duration in a microsecond

ASSUME MicroPositive == Micro \in Nat \ {0}

VARIABLES
    poll,       \* poll[s]: where a call of tick() is, what it was answered
    shown,      \* what the page shows: last, None before anything is drawn
    failures, live,   \* the script's counter, capped at 2, and its badge
    visible,    \* ~document.hidden
    up          \* whether the handler can be reached from the tab

page == <<poll, shown, failures, live>>
statusVars == <<vars, page, visible, up>>

-----------------------------------------------------------------------------
(* Snapshot and writeProm. *)

\* AvgMillis, in whole microseconds.
AverageOfAll == IF total = 0 THEN 0 ELSE (durSum \div total) \div Micro   \* seeded fault
Average == IF proxied = 0 THEN 0 ELSE (durSum \div proxied) \div Micro

\* ghproxy_request_duration_seconds_sum, rebuilt from the average.
PromSum == Average * proxied

\* Before the cut to the ten rows that count most.
Snapshot ==
    [inFlight |-> inFlight, total |-> total, proxied |-> proxied, denied |-> denied,
     preflight |-> preflight, bytes |-> bytes, average |-> Average, max |-> durMax \div Micro,
     status |-> status, reasons |-> reasons, kinds |-> kinds,
     repos |-> [p \in Rows |-> repos[p]], recent |-> RecentEvents]

-----------------------------------------------------------------------------
(* tick(). *)

Idle == [pc |-> "idle", data |-> None, known |-> None]

StatusInit ==
    /\ Init
    /\ poll = [s \in Polls |-> Idle] /\ shown = None
    /\ failures = 0 /\ live = "connecting" /\ visible \in BOOLEAN /\ up \in BOOLEAN

\* The page is loaded or the rate is changed, visible or not, the timer fires in
\* a visible tab, or the tab is shown again.
BeginWhileLive(s) ==   \* seeded fault: the timer is cleared with the badge
    /\ live # "unreachable" /\ poll[s].pc = "idle"
    /\ poll' = [poll EXCEPT ![s] = [pc |-> "asked", data |-> None, known |-> shown]]
    /\ UNCHANGED <<vars, shown, failures, live, visible, up>>
BeginAnew(s) ==   \* seeded fault: failures is a variable of tick's own
    /\ poll[s].pc = "idle"
    /\ poll' = [poll EXCEPT ![s] = [pc |-> "asked", data |-> None, known |-> shown]]
    /\ failures' = 0
    /\ UNCHANGED <<vars, shown, live, visible, up>>
Begin(s) ==
    /\ poll[s].pc = "idle"
    /\ poll' = [poll EXCEPT ![s] = [pc |-> "asked", data |-> None, known |-> shown]]
    /\ UNCHANGED <<vars, shown, failures, live, visible, up>>

\* writeJSON answers, with a snapshot of this moment.
AnswerFromCache(s) ==   \* seeded fault: without no-store, an answer already drawn is given again
    /\ up /\ poll[s].pc = "asked"
    /\ LET drawn == {poll[t].known : t \in Polls} \ {None} IN
           poll' = [poll EXCEPT ![s].pc = "answered",
                                ![s].data = IF drawn = {} THEN Snapshot ELSE CHOOSE d \in drawn : TRUE]
    /\ UNCHANGED <<vars, shown, failures, live, visible, up>>
Answer(s) ==
    /\ up /\ poll[s].pc = "asked"
    /\ poll' = [poll EXCEPT ![s] = [pc |-> "answered", data |-> Snapshot, known |-> @.known]]
    /\ UNCHANGED <<vars, shown, failures, live, visible, up>>

\* The answer is here and is rendered, whatever was drawn since the poll began.
Draw(s) ==
    /\ poll[s].pc = "answered"
    /\ shown' = poll[s].data /\ failures' = 0 /\ live' = "live"
    /\ poll' = [poll EXCEPT ![s] = Idle]
    /\ UNCHANGED <<vars, visible, up>>

\* No answer, half of one, or one of a proxy in front: from the second on, the
\* badge changes.
Fail(s) ==
    /\ ~up /\ poll[s].pc # "idle"
    /\ failures' = IF failures < 2 THEN failures + 1 ELSE failures
    /\ live' = IF failures + 1 > 1 THEN "unreachable" ELSE live
    /\ poll' = [poll EXCEPT ![s] = Idle]
    /\ UNCHANGED <<vars, shown, visible, up>>

\* The viewer and the network.
Hide == visible' = ~visible /\ UNCHANGED <<vars, page, up>>
Break == up' = ~up /\ UNCHANGED <<vars, page, visible>>

StatusNext ==
    \/ Next /\ UNCHANGED <<page, visible, up>>
    \/ \E s \in Polls : Begin(s) \/ Answer(s) \/ Draw(s) \/ Fail(s)
    \/ Hide \/ Break

\* The timer of a visible tab, the handler and the browser: a fetch is answered
\* or fails.  Nothing is assumed of the traffic, the viewer or the network.
StatusFairness ==
    /\ WF_statusVars(visible /\ \E s \in Polls : Begin(s))
    /\ \A s \in Polls : WF_statusVars(Answer(s)) /\ WF_statusVars(Draw(s)) /\ WF_statusVars(Fail(s))

StatusSpec == StatusInit /\ [][StatusNext]_statusVars /\ StatusFairness

-----------------------------------------------------------------------------
(* Properties. *)

SnapshotsOver(rows) ==
    [inFlight: Nat, total: Nat, proxied: Nat, denied: Nat, preflight: Nat, bytes: Nat,
     average: Nat, max: Nat, status: [StatusClasses -> Nat], reasons: [Reasons -> Nat],
     kinds: [Kinds -> Nat], repos: [rows -> Nat], recent: Seq(Event)]

IsSnapshot(d) == \E rows \in SUBSET Repos : d \in SnapshotsOver(rows)

\* Type invariant of the page, with the collector's: what is drawn is a snapshot
\* that was given, and the badge is the counter's.
StatusTypeOK ==
    /\ TypeOK
    /\ shown = None \/ IsSnapshot(shown)
    /\ poll = [s \in Polls |-> [pc |-> poll[s].pc, data |-> poll[s].data, known |-> poll[s].known]]
    /\ \A s \in Polls :
           /\ poll[s].pc \in {"idle", "asked", "answered"}
           /\ IF poll[s].pc = "answered" THEN IsSnapshot(poll[s].data) ELSE poll[s].data = None
           /\ poll[s].known = None \/ IsSnapshot(poll[s].known)
    /\ failures \in 0 .. 2 /\ live \in {"connecting", "live", "unreachable"}
    /\ visible \in BOOLEAN /\ up \in BOOLEAN
    /\ live = "unreachable" <=> failures = 2

AtLeast(new, old) ==
    old # None =>
        /\ new.total >= old.total /\ new.proxied >= old.proxied /\ new.denied >= old.denied
        /\ new.preflight >= old.preflight /\ new.bytes >= old.bytes /\ new.max >= old.max
        /\ \A c \in StatusClasses : new.status[c] >= old.status[c]
        /\ \A k \in Kinds : new.kinds[k] >= old.kinds[k]
        /\ \A p \in DOMAIN old.repos \cap DOMAIN new.repos : new.repos[p] >= old.repos[p]

\* The numbers on the page run backwards only where two polls overlapped: what a
\* poll brings is never older than what the page showed when the poll began, in
\* any counter or table (page.html:517-527, status.go:84).
NothingOlderThanKnown ==
    \A s \in Polls : poll[s].pc = "answered" => AtLeast(poll[s].data, poll[s].known)

\* The sum Prometheus reads is off by less than one microsecond for each request
\* it counts, and never too large: it may step back between two scrapes, but
\* by less than the count that goes with it (metrics.go:268, status.go:148).
SumWithinOneMicroEach ==
    /\ PromSum * Micro <= durSum
    /\ proxied > 0 => durSum < (PromSum + proxied) * Micro

\* In a tab that stays visible and can reach the handler, the page ends up with
\* what the collector holds and says so, whatever failed and whatever was drawn
\* out of order before (page.html:517-527, 552-575).
PageCatchesUp ==
    <>[](visible /\ up) => <>[](shown = Snapshot /\ live = "live")

\* In a tab that stays visible and cannot, the badge comes to say so and stays
\* (page.html:510-515, 525-527).
BadgeTellsTheOutage ==
    <>[](visible /\ ~up) => <>[](live = "unreachable")
=============================================================================
