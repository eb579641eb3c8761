---------------------------- MODULE MetricsProofs ----------------------------
(***************************************************************************)
(* Theorems about the collector, for every set of handlers and every value *)
(* of the caps.  The inductive invariants, each built on the ones before:  *)
(*   MetricsInv    the types, with GaugeExact: that the gauge is never     *)
(*                 negative is a fact about the recordings that are open   *)
(*   RingInv       where the ring holds each of the last events            *)
(*   RecorderInv   what the caller makes of a recording before it ends     *)
(*   LedgerCounts  the counters as cardinalities over the ledger           *)
(*   TablesInv     the tables as sums                                      *)
(*   ClockInv, HistoryInv   the readings of the clock, and the chart       *)
(***************************************************************************)
EXTENDS Metrics, FiniteSetTheorems, TLAPS

-----------------------------------------------------------------------------
(* Helpers: counting into a table keeps its type. *)

LEMMA AddType ==
    ASSUME NEW S, NEW f \in [S -> Nat], NEW k, NEW n \in Nat
    PROVE  Add(f, k, n) \in [S -> Nat]
<1>1. Add(f, k, n) = [x \in S |-> IF x = k THEN f[x] + n ELSE f[x]]
    BY DEF Add
<1>2. \A x \in S : f[x] + n \in Nat /\ f[x] \in Nat
    OBVIOUS
<1>. QED BY <1>1, <1>2

\* The ring and chart slots that Finish writes exist.
LEMMA SlotInRange ==
    ASSUME NEW n \in Nat, NEW size \in Nat \ {0}
    PROVE  n % size \in 0 .. size - 1
OBVIOUS

(* Arithmetic the provers need in small steps. *)

LEMMA ProductGrows ==
    ASSUME NEW k \in Nat, NEW a \in Nat, NEW b \in Nat, b >= a
    PROVE  k * b >= k * a
OBVIOUS

LEMMA ProductIsNat ==
    ASSUME NEW k \in Nat, NEW a \in Nat
    PROVE  k * a \in Nat
OBVIOUS

LEMMA Division ==
    ASSUME NEW c \in Nat \ {0}, NEW a \in Nat
    PROVE  a = c * (a \div c) + (a % c) /\ a \div c \in Nat /\ a % c \in Nat
OBVIOUS

LEMMA MultipleAtLeast ==
    ASSUME NEW c \in Nat \ {0}, NEW k \in Int, k >= 1
    PROVE  c * k >= c
OBVIOUS

LEMMA MultipleAtMost ==
    ASSUME NEW c \in Nat \ {0}, NEW k \in Int, k <= 0
    PROVE  c * k <= 0
OBVIOUS

\* Two positions less than c apart fall into different slots of a ring of c.
LEMMA SlotsDistinct ==
    ASSUME NEW c \in Nat \ {0}, NEW a \in Nat, NEW b \in Nat, a < b, b < a + c
    PROVE  a % c # b % c
<1> SUFFICES ASSUME a % c = b % c PROVE FALSE
    OBVIOUS
<1> DEFINE p == a \div c
           q == b \div c
<1>1. /\ a = c * p + (a % c) /\ b = c * q + (b % c)
      /\ p \in Nat /\ q \in Nat /\ a % c \in Nat
    BY Division
<1> HIDE DEF p, q
<1>2. c * (q - p) = b - a
    BY <1>1
<1>3. CASE q - p >= 1
    BY <1>1, <1>2, <1>3, MultipleAtLeast
<1>4. CASE q - p <= 0
    BY <1>1, <1>2, <1>4, MultipleAtMost
<1>. QED BY <1>1, <1>3, <1>4

\* A slot cleared for a minute, or kept, is a bucket of that minute.
LEMMA BucketForType ==
    ASSUME NEW slot \in Bucket, NEW minute \in Nat
    PROVE  /\ BucketFor(slot, minute) \in Bucket
           /\ BucketFor(slot, minute).minute = minute
BY DEF BucketFor, Bucket, EmptyBucket

\* A recording of a well-typed Recorder is a well-typed event.
LEMMA FinishedEventType ==
    ASSUME NEW q \in Recorder
    PROVE  FinishedEvent(q) \in Event
<1>1. q.fin \in Ending
    BY DEF Recorder
<1>. QED BY <1>1 DEF FinishedEvent, Recorder, Ending, Event

LEMMA IdleRecorderType == IdleRecorder \in Recorder
BY DEF IdleRecorder, Recorder, NotEnding, Ending

LEMMA ZeroEventType == ZeroEvent \in Event
BY DEF ZeroEvent, Event

-----------------------------------------------------------------------------
(* The gauge. *)

\* Opening an idle slot adds one to the open recordings.
LEMMA OpeningAddsOne ==
    ASSUME NEW r \in Requests, rec[r].pc = "idle",
           Open' = Open \cup {r}, NEW g \in Nat, g = Cardinality(Open)
    PROVE  Cardinality(Open') = g + 1
<1>1. IsFiniteSet(Open)
    BY MetricsConstants, FS_Subset DEF Open
<1>2. r \notin Open
    BY DEF Open
<1>. QED BY <1>1, <1>2, FS_AddElement

\* Closing an open slot takes one away, and there was one to take.
LEMMA ClosingTakesOne ==
    ASSUME NEW r \in Requests, rec[r].pc # "idle", Open' = Open \ {r}
    PROVE  /\ Cardinality(Open) \in Nat \ {0}
           /\ Cardinality(Open') = Cardinality(Open) - 1
<1>1. IsFiniteSet(Open)
    BY MetricsConstants, FS_Subset DEF Open
<1>2. r \in Open
    BY DEF Open
<1>3. Cardinality(Open \ {r}) = Cardinality(Open) - 1
    BY <1>1, <1>2, FS_RemoveElement
<1>4. Cardinality(Open) \in Nat /\ Cardinality(Open) # 0
    BY <1>1, <1>2, FS_CardinalityType, FS_EmptySet
<1>. QED BY <1>3, <1>4

-----------------------------------------------------------------------------
(* The inductive invariant. *)

MetricsInv == TypeOK /\ GaugeExact

LEMMA MetricsInit == Init => MetricsInv
<1> SUFFICES ASSUME Init PROVE MetricsInv
    OBVIOUS
<1> USE DEF Init
<1>1. Open = {}
    BY IdleRecorderType DEF Open, IdleRecorder
<1>2. GaugeExact
    BY <1>1, FS_EmptySet DEF GaugeExact
<1>3. \A i \in 0 .. HistoryMinutes - 1 : history[i] \in Bucket
    BY DEF EmptyBucket, Bucket
<1>4. TypeOK
  <2>1. history \in [0 .. HistoryMinutes - 1 -> Bucket]
      BY <1>3
  <2>2. recent \in [0 .. RecentCap - 1 -> Event]
      BY ZeroEventType
  <2>3. rec \in [Requests -> Recorder]
      BY IdleRecorderType
  <2>4. clock \in Nat
      BY MetricsConstants
  <2>. QED BY <2>1, <2>2, <2>3, <2>4 DEF TypeOK
<1>. QED BY <1>2, <1>4 DEF MetricsInv

\* A step that writes only the handler's own Recorder, leaving it open,
\* disturbs neither the types nor the gauge.
LEMMA RecorderStep ==
    ASSUME MetricsInv, NEW r \in Requests, NEW q \in Recorder,
           rec[r].pc # "idle", q.pc # "idle",
           rec' = [rec EXCEPT ![r] = q], UNCHANGED <<collector, clock>>
    PROVE  MetricsInv'
<1> USE DEF MetricsInv, collector, counters, tables
<1>1. rec' \in [Requests -> Recorder]
    BY DEF TypeOK
<1>2. TypeOK'
    BY <1>1 DEF TypeOK
<1>3. Open' = Open
    BY DEF Open, TypeOK
<1>4. GaugeExact'
    BY <1>3 DEF GaugeExact
<1>. QED BY <1>2, <1>4

LEMMA StartStep ==
    ASSUME MetricsInv, NEW r \in Requests, NEW method \in Methods, Start(r, method)
    PROVE  MetricsInv'
<1> DEFINE q == [IdleRecorder EXCEPT !.pc = "open", !.method = method]
<1> USE DEF MetricsInv, Start
<1>1. q \in Recorder /\ q.pc # "idle"
    BY IdleRecorderType DEF Recorder
<1>2. rec' = [rec EXCEPT ![r] = q]
    OBVIOUS
<1> HIDE DEF q
<1>3. rec' \in [Requests -> Recorder]
    BY <1>1, <1>2 DEF TypeOK
<1>4. TypeOK'
    BY <1>3 DEF TypeOK, tables
<1>5. Open' = Open \cup {r}
    BY <1>1, <1>2 DEF Open, TypeOK
<1>6. GaugeExact'
    BY <1>5, OpeningAddsOne DEF GaugeExact, TypeOK
<1>. QED BY <1>4, <1>6

\* Finish, one conjunct of the critical section at a time.
LEMMA FinishStep ==
    ASSUME MetricsInv, NEW r \in Requests, Finish(r)
    PROVE  MetricsInv'
<1> DEFINE e == FinishedEvent(rec[r])
<1> USE DEF MetricsInv
<1>1. /\ RecordTotals(e) /\ RecordOutcome(e) /\ RecordRepo(e.repo)
      /\ RecordRecent(e) /\ RecordHistory(e)
      /\ kinds' = IF e.kind # None THEN Add(kinds, e.kind, 1) ELSE kinds
      /\ log' = Append(log, e)
      /\ rec[r].pc = "ending"
      /\ rec' = [rec EXCEPT ![r] = IdleRecorder]
      /\ clock' = clock
    BY DEF Finish
<1>2. e \in Event
    BY FinishedEventType DEF TypeOK
<1>3. e.at \in Nat /\ e.bytes \in Nat /\ e.d \in Nat
    BY <1>2 DEF Event
<1> HIDE DEF e
<1>4. Open' = Open \ {r}
    BY <1>1 DEF Open, IdleRecorder, TypeOK
<1>5. inFlight' = inFlight - 1
    BY <1>1 DEF RecordTotals
<1>6. inFlight' = Cardinality(Open') /\ inFlight' \in Nat
  <2>1. rec[r].pc # "idle"
      BY <1>1
  <2>2. Cardinality(Open) \in Nat \ {0} /\ Cardinality(Open') = Cardinality(Open) - 1
      BY <1>4, <2>1, ClosingTakesOne
  <2>3. inFlight = Cardinality(Open)
      BY DEF GaugeExact
  <2>. QED BY <1>5, <2>2, <2>3
<1>7. total' \in Nat /\ bytes' \in Nat /\ status' \in [StatusClasses -> Nat]
    BY <1>1, <1>3, AddType DEF RecordTotals, TypeOK
<1>8. /\ denied' \in Nat /\ preflight' \in Nat /\ proxied' \in Nat
      /\ durSum' \in Nat /\ durMax' \in Nat /\ reasons' \in [Reasons -> Nat]
    BY <1>1, <1>3, AddType DEF RecordOutcome, TypeOK
<1>9. kinds' \in [Kinds -> Nat] /\ repos' \in [Repos -> Nat]
    BY <1>1, AddType DEF RecordRepo, TypeOK
<1>10. recent' \in [0 .. RecentCap - 1 -> Event] /\ recentN' \in Nat
  <2>1. recent' = [recent EXCEPT ![recentN % RecentCap] = e] /\ recentN' = recentN + 1
      BY <1>1 DEF RecordRecent
  <2>2. recent \in [0 .. RecentCap - 1 -> Event] /\ recentN \in Nat
      BY DEF TypeOK
  <2>3. recentN' \in Nat
      BY <2>1, <2>2
  <2>4. recent' \in [0 .. RecentCap - 1 -> Event]
      BY <1>2, <2>1, <2>2
  <2>. QED BY <2>3, <2>4
<1>11. history' \in [0 .. HistoryMinutes - 1 -> Bucket]
  <2> DEFINE i == e.at % HistoryMinutes
             b == BucketFor(history[i], e.at)
             c == [minute |-> b.minute, requests |-> b.requests + 1, bytes |-> b.bytes + e.bytes]
  <2>1. i \in 0 .. HistoryMinutes - 1
      BY <1>3, MetricsConstants, SlotInRange
  <2>2. history[i] \in Bucket
      BY <2>1 DEF TypeOK
  <2>3. b \in Bucket
      BY <2>2, <1>3, BucketForType
  <2>4. c \in Bucket
    <3>1. b.minute \in Nat /\ b.requests + 1 \in Nat /\ b.bytes + e.bytes \in Nat
        BY <2>3, <1>3 DEF Bucket
    <3>. QED BY <3>1 DEF Bucket
  <2>5. history' = [history EXCEPT ![i] = c]
      BY <1>1 DEF RecordHistory
  <2>. QED BY <2>4, <2>5 DEF TypeOK
<1>12. rec' \in [Requests -> Recorder]
    BY <1>1, IdleRecorderType DEF TypeOK
<1>13. log' \in Seq(Event) /\ clock' \in Nat
    BY <1>1, <1>2 DEF TypeOK
<1>14. TypeOK'
    BY <1>6, <1>7, <1>8, <1>9, <1>10, <1>11, <1>12, <1>13 DEF TypeOK
<1>15. GaugeExact'
    BY <1>6 DEF GaugeExact
<1>. QED BY <1>14, <1>15

LEMMA MetricsStep == MetricsInv /\ [Next]_vars => MetricsInv'
<1> SUFFICES ASSUME MetricsInv, [Next]_vars PROVE MetricsInv'
    OBVIOUS
<1>1. ASSUME NEW r \in Requests, Arrive(r) PROVE MetricsInv'
    BY <1>1, StartStep DEF Arrive
<1>2. ASSUME NEW r \in Requests, NEW reason \in Reasons, Deny(r, reason) PROVE MetricsInv'
  <2> DEFINE q == [rec[r] EXCEPT !.reason = reason]
  <2>1. q \in Recorder /\ q.pc = "open"
      BY <1>2 DEF Deny, MetricsInv, TypeOK, Recorder
  <2>. QED BY <1>2, <2>1, RecorderStep DEF Deny
<1>3. ASSUME NEW r \in Requests, NEW kind \in Kinds, NEW repo \in Repos, Target(r, kind, repo)
      PROVE  MetricsInv'
  <2> DEFINE q == [rec[r] EXCEPT !.kind = kind, !.repo = repo]
  <2>1. q \in Recorder /\ q.pc = "open"
      BY <1>3 DEF Target, MetricsInv, TypeOK, Recorder
  <2>. QED BY <1>3, <2>1, RecorderStep DEF Target
<1>4. ASSUME NEW r \in Requests, Preflight(r) PROVE MetricsInv'
  <2> DEFINE q == [rec[r] EXCEPT !.options = TRUE]
  <2>1. q \in Recorder /\ q.pc = "open"
      BY <1>4 DEF Preflight, MetricsInv, TypeOK, Recorder
  <2>. QED BY <1>4, <2>1, RecorderStep DEF Preflight
<1>5. ASSUME NEW r \in Requests, NEW code \in StatusCodes, NEW n \in ByteCounts,
             NEW d \in Durations, ReadClock(r, code, n, d)
      PROVE  MetricsInv'
  <2> DEFINE b == IF n < 0 THEN 0 ELSE n
             f == [status |-> code, bytes |-> b, d |-> d, now |-> clock]
             q == [rec[r] EXCEPT !.pc = "ending", !.fin = f]
  <2>1. n \in Int /\ d \in Nat /\ clock \in Nat /\ rec[r] \in Recorder
      BY MetricsConstants DEF MetricsInv, TypeOK
  <2>2. b \in Nat
      BY <2>1
  <2>3. rec[r].pc = "open" /\ rec' = [rec EXCEPT ![r] = q] /\ UNCHANGED <<collector, clock>>
      BY <1>5 DEF ReadClock
  <2>4. f \in Ending
      BY <2>1, <2>2 DEF Ending
  <2>. HIDE DEF f
  <2>5. q \in Recorder /\ q.pc = "ending"
      BY <2>1, <2>4 DEF Recorder
  <2>. HIDE DEF q
  <2>. QED BY <2>3, <2>4, <2>5, RecorderStep
<1>6. ASSUME NEW r \in Requests, Finish(r) PROVE MetricsInv'
    BY <1>6, FinishStep
<1>7. CASE Tick
    BY <1>7 DEF Tick, MetricsInv, TypeOK, GaugeExact, Open, collector, counters, tables
<1>8. CASE UNCHANGED vars
    BY <1>8 DEF vars, MetricsInv, TypeOK, GaugeExact, Open, collector, counters, tables
<1>. QED BY <1>1, <1>2, <1>3, <1>4, <1>5, <1>6, <1>7, <1>8
         DEF Next, Refuse, Resolve, AnswerPreflight, Close, Exhausted

\* The collector's state stays well typed, the in-flight gauge never negative
\* (the fields of Metrics, metrics.go:31-60).
THEOREM TypeCorrect == Spec => []TypeOK
<1>1. MetricsInv => TypeOK
    BY DEF MetricsInv
<1>. QED BY <1>1, MetricsInit, MetricsStep, PTL DEF Spec

\* The in-flight gauge is the number of open recordings, whatever the number
\* of handlers and however their Start and Finish interleave (metrics.go:87-97).
THEOREM GaugeCorrect == Spec => []GaugeExact
<1>1. MetricsInv => GaugeExact
    BY DEF MetricsInv
<1>. QED BY <1>1, MetricsInit, MetricsStep, PTL DEF Spec

-----------------------------------------------------------------------------
(* The totals: nonlinear only where the maximum may grow. *)

\* Only Finish touches the counters, the tables and the ledger.
LEMMA QuietSteps ==
    ASSUME [Next]_vars, \A r \in Requests : ~Finish(r)
    PROVE  UNCHANGED <<total, proxied, denied, preflight, bytes, durSum, durMax,
                       status, reasons, kinds, repos, recent, recentN, history, log>>
<1> USE DEF collector, counters, tables
<1>1. ASSUME NEW r \in Requests, Arrive(r)
      PROVE  UNCHANGED <<total, proxied, denied, preflight, bytes, durSum, durMax, tables, log>>
    BY <1>1 DEF Arrive, Start
<1>2. ASSUME NEW r \in Requests,
             Refuse(r) \/ Resolve(r) \/ AnswerPreflight(r) \/ Close(r)
      PROVE  UNCHANGED collector
    BY <1>2 DEF Refuse, Resolve, AnswerPreflight, Close, Deny, Target, Preflight, ReadClock
<1>3. CASE Tick
    BY <1>3 DEF Tick
<1>4. CASE UNCHANGED vars
    BY <1>4 DEF vars
<1>. QED BY <1>1, <1>2, <1>3, <1>4 DEF Next, Exhausted

LEMMA OutcomesStep ==
    ASSUME TypeOK, OutcomesAddUp, [Next]_vars
    PROVE  OutcomesAddUp'
<1> USE DEF OutcomesAddUp
<1>1. ASSUME NEW r \in Requests, Finish(r) PROVE OutcomesAddUp'
  <2> DEFINE e == FinishedEvent(rec[r])
  <2>1. RecordTotals(e) /\ RecordOutcome(e)
      BY <1>1 DEF Finish
  <2>2. e.d \in Nat
      BY FinishedEventType DEF TypeOK, Event
  <2>3. total \in Nat /\ proxied \in Nat /\ denied \in Nat /\ preflight \in Nat
        /\ durSum \in Nat /\ durMax \in Nat
      BY DEF TypeOK
  <2> HIDE DEF e
  <2>4. total' = proxied' + denied' + preflight'
      BY <2>1, <2>3 DEF RecordTotals, RecordOutcome, Outcome
  <2>5. CASE Outcome(e.reason, e.options) # "proxied"
      BY <2>1, <2>4, <2>5 DEF RecordOutcome
  <2>6. CASE Outcome(e.reason, e.options) = "proxied"
    <3>1. proxied' = proxied + 1 /\ durSum' = durSum + e.d
          /\ durMax' = IF e.d > durMax THEN e.d ELSE durMax
        BY <2>1, <2>6 DEF RecordOutcome
    <3>2. durMax' \in Nat /\ durMax' >= durMax /\ durMax' >= e.d
        BY <3>1, <2>2, <2>3
    <3>3. proxied * durMax' >= proxied * durMax
        BY <3>2, <2>3, ProductGrows
    <3>4. (proxied + 1) * durMax' = proxied * durMax' + durMax'
        BY <3>2, <2>3
    <3>5. proxied * durMax \in Nat /\ proxied * durMax' \in Nat
        BY <3>2, <2>3, ProductIsNat
    <3>6. durSum' <= proxied' * durMax'
      <4>1. durSum + e.d <= proxied * durMax' + durMax'
          BY <3>2, <3>3, <3>5, <2>2, <2>3
      <4>. QED BY <4>1, <3>1, <3>4
    <3>. QED BY <3>6, <2>4
  <2>. QED BY <2>5, <2>6
<1>2. CASE \A r \in Requests : ~Finish(r)
    BY <1>2, QuietSteps
<1>. QED BY <1>1, <1>2

\* The outcomes partition the requests and the average duration never exceeds
\* the maximum, in every snapshot (metrics.go:28-30, 146-158, 269-271).
THEOREM OutcomesCorrect == Spec => []OutcomesAddUp
<1>1. Init => OutcomesAddUp
    BY DEF Init, OutcomesAddUp
<1>2. TypeOK /\ OutcomesAddUp /\ [Next]_vars => OutcomesAddUp'
    BY OutcomesStep
<1>. QED BY <1>1, <1>2, TypeCorrect, PTL DEF Spec

-----------------------------------------------------------------------------
(***************************************************************************)
(* The ring.  Slot (i - 1) % RecentCap holds event i of the ledger as long *)
(* as fewer than RecentCap events came after it.                           *)
(***************************************************************************)
RingInv ==
    /\ recentN = Len(log)
    /\ \A i \in 1 .. Len(log) :
          i > Len(log) - RecentCap => recent[(i - 1) % RecentCap] = log[i]

LEMMA RingStep ==
    ASSUME TypeOK, RingInv, [Next]_vars
    PROVE  RingInv'
<1> USE DEF RingInv
<1>1. ASSUME NEW r \in Requests, Finish(r) PROVE RingInv'
  <2> DEFINE e == FinishedEvent(rec[r])
             n == Len(log)
  <2>1. recent' = [recent EXCEPT ![n % RecentCap] = e] /\ recentN' = n + 1 /\ log' = Append(log, e)
      BY <1>1 DEF Finish, RecordRecent
  <2>2. e \in Event
      BY FinishedEventType DEF TypeOK
  <2> HIDE DEF e
  <2>3. log \in Seq(Event) /\ n \in Nat
      BY DEF TypeOK
  <2>4. Len(log') = n + 1 /\ log'[n + 1] = e /\ \A i \in 1 .. n : log'[i] = log[i]
      BY <2>1, <2>2, <2>3
  <2>5. ASSUME NEW i \in 1 .. n + 1, i > (n + 1) - RecentCap
        PROVE  recent'[(i - 1) % RecentCap] = log'[i]
    <3>1. CASE i = n + 1
      <4>1. n % RecentCap \in 0 .. RecentCap - 1
          BY <2>3, MetricsConstants, SlotInRange
      <4>2. recent'[n % RecentCap] = e
          BY <2>1, <4>1 DEF TypeOK
      <4>3. i - 1 = n
          BY <3>1, <2>3
      <4>. QED BY <3>1, <4>2, <4>3, <2>4
    <3>2. CASE i # n + 1
      <4>1. i \in 1 .. n /\ i > n - RecentCap
          BY <2>3, <2>5, <3>2, MetricsConstants
      <4>2. (i - 1) % RecentCap # n % RecentCap
        <5>1. i - 1 \in Nat /\ i - 1 < n /\ n < (i - 1) + RecentCap
            BY <2>3, <2>5, <4>1, MetricsConstants
        <5>. QED BY <5>1, <2>3, MetricsConstants, SlotsDistinct
      <4>3. recent'[(i - 1) % RecentCap] = recent[(i - 1) % RecentCap]
        <5>1. (i - 1) % RecentCap \in 0 .. RecentCap - 1
          <6>1. i - 1 \in Nat
              BY <4>1, <2>3
          <6>. QED BY <6>1, MetricsConstants, SlotInRange
        <5>. QED BY <2>1, <4>2, <5>1 DEF TypeOK
      <4>4. recent[(i - 1) % RecentCap] = log[i]
          BY <4>1
      <4>. QED BY <4>1, <4>3, <4>4, <2>4
    <3>. QED BY <3>1, <3>2
  <2>6. \A i \in 1 .. n + 1 : i > (n + 1) - RecentCap => recent'[(i - 1) % RecentCap] = log'[i]
      BY <2>5
  <2>7. recentN' = Len(log')
      BY <2>1, <2>4
  <2>8. \A i \in 1 .. Len(log') :
           i > Len(log') - RecentCap => recent'[(i - 1) % RecentCap] = log'[i]
    <3>. HIDE DEF n
    <3>. QED BY ONLY <2>4, <2>6, Zenon
  <2>. QED BY <2>7, <2>8, Zenon DEF RingInv
<1>2. CASE \A r \in Requests : ~Finish(r)
    BY <1>2, QuietSteps
<1>. QED BY <1>1, <1>2

LEMMA RingGivesTail ==
    ASSUME TypeOK, RingInv
    PROVE  RecentIsLedgerTail
<1> DEFINE n == IF Len(log) > RecentCap THEN RecentCap ELSE Len(log)
<1>1. Len(log) \in Nat /\ RecentCap \in Nat /\ recentN = Len(log)
    BY MetricsConstants DEF TypeOK, RingInv
<1>2. ASSUME NEW i \in 1 .. n
      PROVE  recent[(recentN - i) % RecentCap] = log[Len(log) + 1 - i]
  <2> DEFINE j == Len(log) + 1 - i
  <2>1. j \in 1 .. Len(log) /\ j > Len(log) - RecentCap /\ j - 1 = recentN - i
      BY <1>1, <1>2
  <2>. QED BY <2>1 DEF RingInv
<1>3. RecentEvents = [i \in 1 .. n |-> recent[(recentN - i) % RecentCap]]
    BY <1>1 DEF RecentEvents, RecentNewestFirst
<1>. QED BY <1>2, <1>3 DEF RecentIsLedgerTail

\* The recent list is the tail of the ledger, newest first, for every ring size
\* and any number of events (metrics.go:169-179, 285-295).
THEOREM RecentCorrect == Spec => []RecentIsLedgerTail
<1>1. Init => RingInv
    BY DEF Init, RingInv
<1>2. TypeOK /\ RingInv /\ [Next]_vars => RingInv'
    BY RingStep
<1>3. TypeOK /\ RingInv => RecentIsLedgerTail
    BY RingGivesTail
<1>. QED BY <1>1, <1>2, <1>3, TypeCorrect, PTL DEF Spec

-----------------------------------------------------------------------------
(***************************************************************************)
(* The repository table.  RepoTableExact is inductive given the types: a   *)
(* row that is admitted late would need an earlier event without a row,    *)
(* and that only happens when the table is full for good.                  *)
(***************************************************************************)

LEMMA FiniteTable ==
    ASSUME TypeOK
    PROVE  /\ IsFiniteSet(Rows) /\ TableSize \in Nat
           /\ \A p \in Repos : IsFiniteSet(RepoEvents(p)) /\ Cardinality(RepoEvents(p)) \in Nat
<1>1. IsFiniteSet(Rows)
    BY MetricsConstants, FS_Subset DEF Rows
<1>2. IsFiniteSet(DOMAIN log)
  <2>1. DOMAIN log = 1 .. Len(log) /\ Len(log) \in Nat
      BY DEF TypeOK
  <2>. QED BY <2>1, FS_Interval
<1>3. \A p \in Repos : IsFiniteSet(RepoEvents(p))
    BY <1>2, FS_Subset DEF RepoEvents
<1>. QED BY <1>1, <1>3, FS_CardinalityType DEF TableSize

\* Recording an event adds one to the events of its repository.
LEMMA RepoEventAdded ==
    ASSUME TypeOK, NEW e \in Event, log' = Append(log, e), NEW p \in Repos
    PROVE  Cardinality(RepoEvents(p)') =
              IF e.repo = p THEN Cardinality(RepoEvents(p)) + 1 ELSE Cardinality(RepoEvents(p))
<1> DEFINE n == Len(log)
<1>1. log \in Seq(Event) /\ n \in Nat /\ DOMAIN log = 1 .. n
    BY DEF TypeOK
<1>2. DOMAIN log' = (1 .. n) \cup {n + 1} /\ log'[n + 1] = e /\ \A i \in 1 .. n : log'[i] = log[i]
    BY <1>1
<1>3. RepoEvents(p)' = IF e.repo = p THEN RepoEvents(p) \cup {n + 1} ELSE RepoEvents(p)
    BY <1>1, <1>2 DEF RepoEvents
<1>4. n + 1 \notin RepoEvents(p)
    BY <1>1 DEF RepoEvents
<1>. QED BY <1>3, <1>4, FiniteTable, FS_AddElement

LEMMA RepoTableStep ==
    ASSUME TypeOK, RepoTableExact, [Next]_vars
    PROVE  RepoTableExact'
<1>1. ASSUME NEW r \in Requests, Finish(r) PROVE RepoTableExact'
  <2> DEFINE e == FinishedEvent(rec[r])
             seen(p) == Cardinality(RepoEvents(p))
  <2>1. e \in Event /\ log' = Append(log, e) /\ RecordRepo(e.repo)
      BY <1>1, FinishedEventType DEF Finish, TypeOK
  <2> HIDE DEF e
  <2>2. \A p \in Repos : seen(p)' = IF e.repo = p THEN seen(p) + 1 ELSE seen(p)
      BY <2>1, RepoEventAdded
  <2>3. \A p \in Repos : seen(p) \in Nat /\ repos[p] \in Nat
      BY FiniteTable DEF TypeOK
  <2>4. TableSize <= ReposCap /\ TableSize \in Nat /\ ReposCap \in Nat \ {0}
      BY FiniteTable, MetricsConstants DEF RepoTableExact
  <2>5. \A p \in Repos : /\ repos[p] = 0 \/ repos[p] = seen(p)
                         /\ repos[p] # seen(p) => TableSize = ReposCap
      BY DEF RepoTableExact
  <2>6. e.repo \in Repos \cup {None} /\ None \notin Repos
      BY <2>1, MetricsConstants DEF Event
  <2>7. CASE e.repo = None \/ ~Admits(e.repo)
    <3>1. repos' = repos
        BY <2>1, <2>7 DEF RecordRepo
    <3>2. TableSize' = TableSize
        BY <3>1 DEF TableSize, Rows
    <3>3. e.repo # None => repos[e.repo] = 0 /\ TableSize = ReposCap
        BY <2>3, <2>4, <2>6, <2>7 DEF Admits
    <3>4. \A p \in Repos : /\ repos'[p] = 0 \/ repos'[p] = seen(p)'
                           /\ repos'[p] # seen(p)' => TableSize' = ReposCap
        BY <2>2, <2>5, <2>6, <3>1, <3>2, <3>3
    <3>5. TableSize' <= ReposCap
        BY <3>2, <2>4
    <3>. QED BY <3>4, <3>5 DEF RepoTableExact
  <2>8. CASE e.repo # None /\ Admits(e.repo)
    <3> DEFINE q == e.repo
    <3>1. q \in Repos /\ repos' = [repos EXCEPT ![q] = @ + 1]
        BY <2>1, <2>6, <2>8 DEF RecordRepo, Add
    <3>2. repos'[q] = repos[q] + 1 /\ \A p \in Repos \ {q} : repos'[p] = repos[p]
        BY <3>1 DEF TypeOK
    <3>3. repos[q] = seen(q)
        BY <3>1, <2>3, <2>4, <2>5, <2>8 DEF Admits
    <3>4. Rows' = Rows \cup {q}
        BY <3>1, <3>2, <2>3 DEF Rows
    <3>5. CASE repos[q] > 0
      <4>1. TableSize' = TableSize
          BY <3>1, <3>4, <3>5 DEF TableSize, Rows
      <4>2. \A p \in Repos : /\ repos'[p] = 0 \/ repos'[p] = seen(p)'
                             /\ repos'[p] # seen(p)' => TableSize' = ReposCap
          BY <2>2, <2>5, <3>2, <3>3, <4>1
      <4>. QED BY <4>1, <4>2, <2>4 DEF RepoTableExact
    <3>6. CASE ~(repos[q] > 0)
      <4>1. TableSize < ReposCap
          BY <2>8, <3>6 DEF Admits
      <4>2. q \notin Rows
          BY <3>6 DEF Rows
      <4>3. TableSize' = TableSize + 1
          BY <3>4, <4>2, FiniteTable, FS_AddElement DEF TableSize
      <4>4. \A p \in Repos : repos[p] = seen(p)
          BY <2>4, <2>5, <4>1
      <4>5. \A p \in Repos : repos'[p] = seen(p)'
          BY <2>2, <3>2, <4>4
      <4>6. TableSize' <= ReposCap
          BY <4>1, <4>3, <2>4
      <4>. QED BY <4>5, <4>6 DEF RepoTableExact
    <3>. QED BY <3>5, <3>6
  <2>. QED BY <2>7, <2>8
<1>2. CASE \A r \in Requests : ~Finish(r)
    BY <1>2, QuietSteps DEF RepoTableExact, TableSize, Rows, RepoEvents
<1>. QED BY <1>1, <1>2

\* Every row of the repository table is exact and the table bounded by its cap,
\* for every cap and every order of requests (metrics.go:18-21, 163-167).
THEOREM RepoTableCorrect == Spec => []RepoTableExact
<1>1. Init => RepoTableExact
  <2> SUFFICES ASSUME Init PROVE RepoTableExact
      OBVIOUS
  <2>1. Rows = {} /\ \A p \in Repos : RepoEvents(p) = {}
      BY DEF Init, Rows, RepoEvents
  <2>2. TableSize = 0 /\ \A p \in Repos : Cardinality(RepoEvents(p)) = 0 /\ repos[p] = 0
      BY <2>1, FS_EmptySet DEF TableSize, Init
  <2>. QED BY <2>2, MetricsConstants DEF RepoTableExact
<1>2. TypeOK /\ RepoTableExact /\ [Next]_vars => RepoTableExact'
    BY RepoTableStep
<1>. QED BY <1>1, <1>2, TypeCorrect, PTL DEF Spec

-----------------------------------------------------------------------------
(***************************************************************************)
(* Sums.  Adding n to one entry adds n units to the sum; no induction over *)
(* the table is needed, only that its units are finitely many.             *)
(***************************************************************************)

\* The units a to b of x.
Block(x, a, b) == {x} \X (a .. b)

LEMMA BlockSize ==
    ASSUME NEW x, NEW a \in Int, NEW b \in Int, NEW n \in Nat, n = b - a + 1
    PROVE  IsFiniteSet(Block(x, a, b)) /\ Cardinality(Block(x, a, b)) = n
<1> DEFINE I == a .. b
<1>1. IsFiniteSet({x}) /\ Cardinality({x}) = 1
    BY FS_Singleton
<1>2. IsFiniteSet(I) /\ Cardinality(I) = n
    BY FS_Interval
<1> HIDE DEF I
<1>3. IsFiniteSet({x} \X I) /\ Cardinality({x} \X I) = Cardinality({x}) * Cardinality(I)
    BY <1>1, <1>2, FS_Product, Zenon
<1>4. Cardinality({x} \X I) = n
    BY ONLY <1>1, <1>2, <1>3, n \in Nat
<1>. QED BY <1>3, <1>4 DEF I, Block

\* A block of n units that are all new adds n.
LEMMA BlockAdded ==
    ASSUME NEW U, IsFiniteSet(U), NEW W, IsFiniteSet(W), U \cap W = {}
    PROVE  IsFiniteSet(U \cup W) /\ Cardinality(U \cup W) = Cardinality(U) + Cardinality(W)
<1>1. Cardinality(U) \in Nat /\ Cardinality(W) \in Nat
    BY FS_CardinalityType
<1>2. Cardinality(U \cap W) = 0
    BY FS_EmptySet
<1>3. /\ IsFiniteSet(U \cup W)
      /\ Cardinality(U \cup W) = Cardinality(U) + Cardinality(W) - Cardinality(U \cap W)
    BY FS_Union
<1>. QED BY <1>1, <1>2, <1>3

\* A unit of f, said without the union.
LEMMA UnitOf ==
    ASSUME NEW f, NEW u
    PROVE  u \in Units(f) <=> \E x \in DOMAIN f : \E k \in 1 .. f[x] : u = <<x, k>>
BY DEF Units

\* A table of zeroes, or an empty one, has no units.
LEMMA NoUnits ==
    ASSUME NEW f, \A x \in DOMAIN f : f[x] = 0
    PROVE  IsFiniteSet(Units(f)) /\ SumOf(f) = 0
<1>1. Units(f) = {}
    BY DEF Units
<1>. QED BY <1>1, FS_EmptySet DEF SumOf

\* Raising the entry of k by n raises the sum by n.
LEMMA SumPoint ==
    ASSUME NEW S, NEW f \in [S -> Nat], IsFiniteSet(Units(f)), NEW k \in S, NEW n \in Nat
    PROVE  IsFiniteSet(Units(Add(f, k, n))) /\ SumOf(Add(f, k, n)) = SumOf(f) + n
<1> DEFINE g == Add(f, k, n)
           m == f[k]
<1>1. m \in Nat /\ DOMAIN g = S /\ DOMAIN f = S /\ g[k] = m + n /\ \A x \in S \ {k} : g[x] = f[x]
    BY DEF Add
<1> HIDE DEF g, m
<1>2. 1 .. m + n = (1 .. m) \cup (m + 1 .. m + n)
    BY <1>1
<1>3. Units(g) \subseteq Units(f) \cup ({k} \X (m + 1 .. m + n))
  <2> SUFFICES ASSUME NEW x \in S, NEW j \in 1 .. g[x],
                      <<x, j>> \notin {k} \X (m + 1 .. m + n)
               PROVE  <<x, j>> \in Units(f)
      BY <1>1, UnitOf
  <2>1. j \in 1 .. f[x]
    <3>1. CASE x = k
        BY <3>1, <1>1, <1>2 DEF m
    <3>2. CASE x # k
        BY <3>2, <1>1
    <3>. QED BY <3>1, <3>2
  <2>. QED BY <2>1, <1>1, UnitOf
<1>4. Units(f) \cup ({k} \X (m + 1 .. m + n)) \subseteq Units(g)
  <2>1. ASSUME NEW x \in S, NEW j \in 1 .. f[x] PROVE <<x, j>> \in Units(g)
    <3>1. j \in 1 .. g[x]
      <4>1. CASE x = k
          BY <4>1, <1>1, <1>2 DEF m
      <4>2. CASE x # k
          BY <4>2, <1>1
      <4>. QED BY <4>1, <4>2
    <3>. QED BY <3>1, <1>1, UnitOf
  <2>2. ASSUME NEW j \in m + 1 .. m + n PROVE <<k, j>> \in Units(g)
      BY <1>1, <1>2, UnitOf
  <2>3. Units(f) \subseteq Units(g)
      BY <2>1, <1>1, UnitOf
  <2>. QED BY <2>2, <2>3
<1>5. Units(f) \cap ({k} \X (m + 1 .. m + n)) = {}
  <2> SUFFICES ASSUME NEW x \in S, NEW j \in 1 .. f[x], x = k, j \in m + 1 .. m + n
               PROVE  FALSE
      BY <1>1, UnitOf
  <2>. QED BY <1>1 DEF m
<1>6. Units(g) = Units(f) \cup ({k} \X (m + 1 .. m + n))
    BY <1>3, <1>4
<1> DEFINE W == Block(k, m + 1, m + n)
<1>7. IsFiniteSet(W) /\ Cardinality(W) = n
  <2>1. m + 1 \in Int /\ m + n \in Int /\ n \in Nat /\ n = (m + n) - (m + 1) + 1
      BY <1>1
  <2>. QED BY ONLY <2>1, BlockSize, Zenon
<1> HIDE DEF W
<1>8. IsFiniteSet(Units(f) \cup W) /\ Cardinality(Units(f) \cup W) = Cardinality(Units(f)) + n
  <2>1. Units(f) \cap W = {}
      BY <1>5 DEF W, Block
  <2>2. IsFiniteSet(Units(f))
      OBVIOUS
  <2>. QED BY ONLY <2>1, <2>2, <1>7, BlockAdded, Zenon
<1>. QED BY <1>6, <1>8 DEF SumOf, g, W, Block

\* A new entry of n raises the sum by n.
LEMMA SumExtend ==
    ASSUME NEW f, IsFiniteSet(Units(f)), NEW k, k \notin DOMAIN f, NEW n \in Nat,
           NEW g, DOMAIN g = DOMAIN f \cup {k}, g[k] = n, \A x \in DOMAIN f : g[x] = f[x]
    PROVE  IsFiniteSet(Units(g)) /\ SumOf(g) = SumOf(f) + n
<1>1. Units(g) = Units(f) \cup ({k} \X (1 .. n))
  <2>2. ASSUME NEW x \in DOMAIN g, NEW j \in 1 .. g[x], x # k PROVE <<x, j>> \in Units(f)
      BY <2>2, UnitOf
  <2>3. ASSUME NEW x \in DOMAIN f, NEW j \in 1 .. f[x] PROVE <<x, j>> \in Units(g)
      BY UnitOf
  <2>4. ASSUME NEW j \in 1 .. n PROVE <<k, j>> \in Units(g)
      BY UnitOf
  <2>5. ASSUME NEW u \in Units(g) PROVE u \in Units(f) \cup ({k} \X (1 .. n))
    <3>1. PICK x \in DOMAIN g : \E j \in 1 .. g[x] : u = <<x, j>>
        BY UnitOf
    <3>2. CASE x = k
        BY <3>1, <3>2
    <3>3. CASE x # k
        BY <3>1, <3>3, <2>2
    <3>. QED BY <3>2, <3>3
  <2>6. Units(f) \cup ({k} \X (1 .. n)) \subseteq Units(g)
      BY <2>3, <2>4, UnitOf
  <2>. QED BY <2>5, <2>6
<1>2. Units(f) \cap ({k} \X (1 .. n)) = {}
    BY UnitOf
<1> DEFINE W == Block(k, 1, n)
<1>3. IsFiniteSet(W) /\ Cardinality(W) = n
  <2>1. 1 \in Int /\ n \in Int /\ n \in Nat /\ n = n - 1 + 1
      OBVIOUS
  <2>. QED BY ONLY <2>1, BlockSize, Zenon
<1> HIDE DEF W
<1>4. IsFiniteSet(Units(f) \cup W) /\ Cardinality(Units(f) \cup W) = Cardinality(Units(f)) + n
  <2>1. Units(f) \cap W = {}
      BY <1>2 DEF W, Block
  <2>2. IsFiniteSet(Units(f))
      OBVIOUS
  <2>. QED BY ONLY <2>1, <2>2, <1>3, BlockAdded, Zenon
<1>. QED BY <1>1, <1>4 DEF SumOf, W, Block

-----------------------------------------------------------------------------
(***************************************************************************)
(* The ledger.  The events of a set E and the amounts V they carry: what   *)
(* one more event does to their number and to their total.                 *)
(***************************************************************************)
Among(E) == {i \in DOMAIN log : log[i] \in E}
Amounts(E, V) == [i \in Among(E) |-> V[log[i]]]

LEMMA LedgerGrows ==
    ASSUME log \in Seq(Event), NEW e \in Event, log' = Append(log, e)
    PROVE  /\ Len(log) \in Nat /\ Len(log') = Len(log) + 1 /\ log' \in Seq(Event)
           /\ DOMAIN log' = DOMAIN log \cup {Len(log) + 1}
           /\ Len(log) + 1 \notin DOMAIN log
           /\ log'[Len(log) + 1] = e
           /\ \A i \in DOMAIN log : log'[i] = log[i]
<1>1. Len(log) \in Nat /\ DOMAIN log = 1 .. Len(log)
    OBVIOUS
<1>2. Len(log') = Len(log) + 1 /\ log' \in Seq(Event) /\ log'[Len(log) + 1] = e
      /\ DOMAIN log' = 1 .. Len(log) + 1 /\ \A i \in 1 .. Len(log) : log'[i] = log[i]
    OBVIOUS
<1>. QED BY <1>1, <1>2

LEMMA AmongFinite ==
    ASSUME log \in Seq(Event), NEW E
    PROVE  IsFiniteSet(Among(E)) /\ Cardinality(Among(E)) \in Nat
<1>1. DOMAIN log = 1 .. Len(log) /\ Len(log) \in Nat
    OBVIOUS
<1>2. IsFiniteSet(DOMAIN log)
    BY <1>1, FS_Interval
<1>3. Among(E) \subseteq DOMAIN log
    BY DEF Among
<1>. QED BY <1>2, <1>3, FS_Subset, FS_CardinalityType

LEMMA AmongGrows ==
    ASSUME log \in Seq(Event), NEW e \in Event, log' = Append(log, e), NEW E
    PROVE  /\ Len(log) + 1 \notin Among(E)
           /\ Among(E)' = IF e \in E THEN Among(E) \cup {Len(log) + 1} ELSE Among(E)
           /\ Cardinality(Among(E)') = IF e \in E THEN Cardinality(Among(E)) + 1
                                       ELSE Cardinality(Among(E))
<1>1. Len(log) + 1 \notin Among(E)
    BY LedgerGrows DEF Among
<1>2. Among(E)' = IF e \in E THEN Among(E) \cup {Len(log) + 1} ELSE Among(E)
    BY LedgerGrows DEF Among
<1>3. Cardinality(Among(E) \cup {Len(log) + 1}) = Cardinality(Among(E)) + 1
  <2>1. IsFiniteSet(Among(E))
      BY AmongFinite
  <2>. QED BY ONLY <2>1, <1>1, FS_AddElement, Zenon
<1>. QED BY <1>1, <1>2, <1>3

LEMMA AmountsGrow ==
    ASSUME log \in Seq(Event), NEW e \in Event, log' = Append(log, e), NEW E,
           NEW V \in [Event -> Nat], IsFiniteSet(Units(Amounts(E, V)))
    PROVE  /\ IsFiniteSet(Units(Amounts(E, V)'))
           /\ SumOf(Amounts(E, V)') = IF e \in E THEN SumOf(Amounts(E, V)) + V[e]
                                      ELSE SumOf(Amounts(E, V))
<1> DEFINE f == Amounts(E, V)
           g == Amounts(E, V)'
           k == Len(log) + 1
<1>1. DOMAIN f = Among(E) /\ DOMAIN g = Among(E)'
    BY DEF Amounts
<1>2. \A i \in Among(E) : i \in DOMAIN log /\ f[i] = V[log[i]]
    BY DEF Amounts, Among
<1>3. \A i \in Among(E)' : g[i] = V[log'[i]]
    BY DEF Amounts
<1>4. CASE e \in E
  <2>1. Among(E)' = Among(E) \cup {k} /\ k \notin Among(E)
      BY <1>4, AmongGrows
  <2>2. g[k] = V[e] /\ V[e] \in Nat
      BY <2>1, <1>3, LedgerGrows
  <2>3. \A i \in Among(E) : g[i] = f[i]
      BY <2>1, <1>2, <1>3, LedgerGrows
  <2>4. IsFiniteSet(Units(f))
      OBVIOUS
  <2>5. DOMAIN g = DOMAIN f \cup {k} /\ k \notin DOMAIN f /\ \A i \in DOMAIN f : g[i] = f[i]
      BY <2>1, <2>3, <1>1
  <2> HIDE DEF f, g, k
  <2>6. IsFiniteSet(Units(g)) /\ SumOf(g) = SumOf(f) + V[e]
      BY ONLY <2>2, <2>4, <2>5, SumExtend, SMT
  <2>. QED BY <2>6, <1>4 DEF f, g
<1>5. CASE e \notin E
  <2>1. Among(E)' = Among(E)
      BY <1>5, AmongGrows
  <2>2. g = f
    <3>1. \A i \in Among(E) : V[log'[i]] = V[log[i]]
        BY <1>2, LedgerGrows
    <3>. QED BY <2>1, <3>1 DEF Amounts
  <2>. QED BY <2>2, <1>5
<1>. QED BY <1>4, <1>5

-----------------------------------------------------------------------------
(* The counters. *)
DeniedEvents == {x \in Event : x.reason # None}
ProxiedEvents == {x \in Event : EventProxied(x)}
PreflightEvents == {x \in Event : x.reason = None /\ x.method = "OPTIONS"}
ClassEvents(c) == {x \in Event : StatusClass(x.status) = c}
ReasonEvents(reason) == {x \in Event : x.reason = reason}
KindEvents(kind) == {x \in Event : x.kind = kind}
BytesOf == [x \in Event |-> x.bytes]
TimeOf == [x \in Event |-> x.d]

\* CountersMatchLedger over those sets; the two totals are of finitely many units.
LedgerCounts ==
    /\ total = Len(log) /\ recentN = Len(log)
    /\ denied = Cardinality(Among(DeniedEvents))
    /\ proxied = Cardinality(Among(ProxiedEvents))
    /\ preflight = Cardinality(Among(PreflightEvents))
    /\ IsFiniteSet(Units(Amounts(Event, BytesOf)))
    /\ bytes = SumOf(Amounts(Event, BytesOf))
    /\ IsFiniteSet(Units(Amounts(ProxiedEvents, TimeOf)))
    /\ durSum = SumOf(Amounts(ProxiedEvents, TimeOf))
    /\ \A c \in StatusClasses : status[c] = Cardinality(Among(ClassEvents(c)))
    /\ \A x \in Reasons : reasons[x] = Cardinality(Among(ReasonEvents(x)))
    /\ \A k \in Kinds : kinds[k] = Cardinality(Among(KindEvents(k)))

LEMMA CountsAreLedgers ==
    ASSUME TypeOK, LedgerCounts
    PROVE  CountersMatchLedger
<1>1. \A i \in DOMAIN log : log[i] \in Event
    BY DEF TypeOK
<1>2. /\ Among(DeniedEvents) = {i \in DOMAIN log : log[i].reason # None}
      /\ Among(ProxiedEvents) = {i \in DOMAIN log : EventProxied(log[i])}
      /\ Among(PreflightEvents) = {i \in DOMAIN log : log[i].reason = None /\ log[i].method = "OPTIONS"}
    BY <1>1 DEF Among, DeniedEvents, ProxiedEvents, PreflightEvents
<1>3. \A c \in StatusClasses : Among(ClassEvents(c)) = {i \in DOMAIN log : StatusClass(log[i].status) = c}
    BY <1>1 DEF Among, ClassEvents
<1>4. \A x \in Reasons : Among(ReasonEvents(x)) = {i \in DOMAIN log : log[i].reason = x}
    BY <1>1 DEF Among, ReasonEvents
<1>5. \A k \in Kinds : Among(KindEvents(k)) = {i \in DOMAIN log : log[i].kind = k}
    BY <1>1 DEF Among, KindEvents
<1>6. Amounts(Event, BytesOf) = [i \in {j \in DOMAIN log : TRUE} |-> log[i].bytes]
  <2>1. Among(Event) = {j \in DOMAIN log : TRUE}
      BY <1>1 DEF Among
  <2>2. \A i \in DOMAIN log : BytesOf[log[i]] = log[i].bytes
      BY <1>1 DEF BytesOf
  <2>. QED BY <2>1, <2>2 DEF Amounts
<1>7. Amounts(ProxiedEvents, TimeOf) = [i \in {j \in DOMAIN log : EventProxied(log[j])} |-> log[i].d]
  <2>1. \A i \in DOMAIN log : TimeOf[log[i]] = log[i].d
      BY <1>1 DEF TimeOf
  <2>. QED BY <2>1, <1>2 DEF Amounts
<1>. QED BY <1>2, <1>3, <1>4, <1>5, <1>6, <1>7
         DEF LedgerCounts, CountersMatchLedger, Count, Total

-----------------------------------------------------------------------------
(***************************************************************************)
(* The caller's discipline: a recording that was denied has no target, is  *)
(* a preflight only if its method is OPTIONS, and ends only once settled.  *)
(* Without it the outcome counters would still add up, but the kinds would *)
(* not, and an OPTIONS request could be counted as proxied.                *)
(***************************************************************************)
Disciplined(q) ==
    /\ q.reason # None => q.kind = None
    /\ q.options => q.method = "OPTIONS"
    /\ q.pc = "ending" => Settled(q)

RecorderInv == \A r \in Requests : Disciplined(rec[r])

LEMMA DisciplineKept ==
    ASSUME TypeOK, RecorderInv, NEW r \in Requests, NEW q, Disciplined(q),
           rec' = [rec EXCEPT ![r] = q]
    PROVE  RecorderInv'
BY DEF RecorderInv, TypeOK

LEMMA RecorderInvInit == Init => RecorderInv
BY DEF Init, RecorderInv, Disciplined, IdleRecorder

LEMMA RecorderInvStep ==
    ASSUME TypeOK, RecorderInv, [Next]_vars
    PROVE  RecorderInv'
<1>1. \A r \in Requests : Disciplined(rec[r]) /\ rec[r] \in Recorder
    BY DEF RecorderInv, TypeOK
<1>2. ASSUME NEW r \in Requests, Arrive(r) PROVE RecorderInv'
  <2>1. PICK method \in Methods :
           rec' = [rec EXCEPT ![r] = [IdleRecorder EXCEPT !.pc = "open", !.method = method]]
      BY <1>2 DEF Arrive, Start
  <2>2. Disciplined([IdleRecorder EXCEPT !.pc = "open", !.method = method])
      BY DEF Disciplined, IdleRecorder
  <2>. QED BY <2>1, <2>2, DisciplineKept
<1>3. ASSUME NEW r \in Requests, Refuse(r) PROVE RecorderInv'
  <2>1. PICK reason \in Reasons : Deny(r, reason)
      BY <1>3 DEF Refuse
  <2> DEFINE q == [rec[r] EXCEPT !.reason = reason]
  <2>2. Disciplined(q)
      BY <1>1, <1>3, <2>1 DEF Refuse, Deny, Disciplined, Recorder
  <2>. QED BY <2>1, <2>2, DisciplineKept DEF Deny
<1>4. ASSUME NEW r \in Requests, Resolve(r) PROVE RecorderInv'
  <2>1. PICK kind \in Kinds, repo \in Repos : Target(r, kind, repo)
      BY <1>4 DEF Resolve
  <2> DEFINE q == [rec[r] EXCEPT !.kind = kind, !.repo = repo]
  <2>2. Disciplined(q)
      BY <1>1, <1>4, <2>1 DEF Resolve, Target, Disciplined, Recorder
  <2>. QED BY <2>1, <2>2, DisciplineKept DEF Target
<1>5. ASSUME NEW r \in Requests, AnswerPreflight(r) PROVE RecorderInv'
  <2> DEFINE q == [rec[r] EXCEPT !.options = TRUE]
  <2>1. Disciplined(q)
      BY <1>1, <1>5 DEF AnswerPreflight, Preflight, Disciplined, Recorder
  <2>. QED BY <1>5, <2>1, DisciplineKept DEF AnswerPreflight, Preflight
<1>6. ASSUME NEW r \in Requests, Close(r) PROVE RecorderInv'
  <2>1. PICK f : rec' = [rec EXCEPT ![r] = [rec[r] EXCEPT !.pc = "ending", !.fin = f]]
      BY <1>6 DEF Close, ReadClock
  <2> DEFINE q == [rec[r] EXCEPT !.pc = "ending", !.fin = f]
  <2>2. Disciplined(q)
      BY <1>1, <1>6 DEF Close, Settled, Disciplined, Recorder
  <2>. QED BY <2>1, <2>2, DisciplineKept
<1>7. ASSUME NEW r \in Requests, Finish(r) PROVE RecorderInv'
  <2>1. Disciplined(IdleRecorder)
      BY DEF Disciplined, IdleRecorder
  <2>. QED BY <1>7, <2>1, DisciplineKept DEF Finish
<1>8. CASE UNCHANGED rec
    BY <1>8 DEF RecorderInv
<1>. QED BY <1>2, <1>3, <1>4, <1>5, <1>6, <1>7, <1>8 DEF Next, Tick, Exhausted, vars

\* What Finish records of a settled recording: the three outcomes are the three
\* kinds of event the ledger tells apart, and a kind is there unless denied.
LEMMA OutcomeOfEvent ==
    ASSUME TypeOK, RecorderInv, NEW r \in Requests, rec[r].pc = "ending",
           NEW e, e = FinishedEvent(rec[r])
    PROVE  /\ e \in Event
           /\ Outcome(e.reason, e.options) = "denied" <=> e \in DeniedEvents
           /\ Outcome(e.reason, e.options) = "proxied" <=> e \in ProxiedEvents
           /\ Outcome(e.reason, e.options) = "preflight" <=> e \in PreflightEvents
           /\ e.kind # None <=> e \notin DeniedEvents
<1>1. e \in Event /\ rec[r] \in Recorder /\ Disciplined(rec[r])
    BY FinishedEventType DEF TypeOK, RecorderInv
<1>2. /\ e.reason # None => e.kind = None
      /\ e.options => e.method = "OPTIONS"
      /\ e.reason # None \/ (e.kind # None /\ (e.method = "OPTIONS" => e.options))
      /\ e.options \in BOOLEAN
    BY <1>1 DEF FinishedEvent, Disciplined, Settled, Recorder
<1>. QED BY <1>1, <1>2
         DEF Outcome, DeniedEvents, ProxiedEvents, PreflightEvents, EventProxied

-----------------------------------------------------------------------------
(* Finish against the ledger, and against the other numbers of a snapshot. *)

LEMMA StatusClassIsOne == \A code : StatusClass(code) \in StatusClasses
BY DEF StatusClass, StatusClasses

LEMMA LedgerCountsStep ==
    ASSUME TypeOK, RecorderInv, LedgerCounts, [Next]_vars
    PROVE  LedgerCounts'
<1>1. ASSUME NEW r \in Requests, Finish(r) PROVE LedgerCounts'
  <2> DEFINE e == FinishedEvent(rec[r])
  <2>1. /\ RecordTotals(e) /\ RecordOutcome(e) /\ RecordRecent(e)
        /\ kinds' = IF e.kind # None THEN Add(kinds, e.kind, 1) ELSE kinds
        /\ log' = Append(log, e)
        /\ rec[r].pc = "ending"
      BY <1>1 DEF Finish
  <2>2. /\ e \in Event
        /\ Outcome(e.reason, e.options) = "denied" <=> e \in DeniedEvents
        /\ Outcome(e.reason, e.options) = "proxied" <=> e \in ProxiedEvents
        /\ Outcome(e.reason, e.options) = "preflight" <=> e \in PreflightEvents
      BY <2>1, OutcomeOfEvent
  <2> HIDE DEF e
  <2>3. log \in Seq(Event)
      BY DEF TypeOK
  <2>4. total' = Len(log') /\ recentN' = Len(log')
      BY <2>1, <2>2, <2>3, LedgerGrows DEF RecordTotals, RecordRecent, LedgerCounts
  <2>5. denied' = Cardinality(Among(DeniedEvents)')
    <3>1. denied' = IF e \in DeniedEvents THEN denied + 1 ELSE denied
        BY <2>1, <2>2 DEF RecordOutcome
    <3>. QED BY <3>1, <2>1, <2>2, <2>3, AmongGrows DEF LedgerCounts
  <2>6. proxied' = Cardinality(Among(ProxiedEvents)')
    <3>1. proxied' = IF e \in ProxiedEvents THEN proxied + 1 ELSE proxied
        BY <2>1, <2>2 DEF RecordOutcome
    <3>. QED BY <3>1, <2>1, <2>2, <2>3, AmongGrows DEF LedgerCounts
  <2>7. preflight' = Cardinality(Among(PreflightEvents)')
    <3>1. preflight' = IF e \in PreflightEvents THEN preflight + 1 ELSE preflight
        BY <2>1, <2>2 DEF RecordOutcome
    <3>. QED BY <3>1, <2>1, <2>2, <2>3, AmongGrows DEF LedgerCounts
  <2>8. /\ IsFiniteSet(Units(Amounts(Event, BytesOf)'))
        /\ bytes' = SumOf(Amounts(Event, BytesOf)')
    <3>1. bytes' = bytes + BytesOf[e] /\ BytesOf \in [Event -> Nat]
        BY <2>1, <2>2 DEF RecordTotals, BytesOf, Event
    <3>. QED BY <3>1, <2>1, <2>2, <2>3, AmountsGrow DEF LedgerCounts
  <2>9. /\ IsFiniteSet(Units(Amounts(ProxiedEvents, TimeOf)'))
        /\ durSum' = SumOf(Amounts(ProxiedEvents, TimeOf)')
    <3>1. /\ durSum' = IF e \in ProxiedEvents THEN durSum + TimeOf[e] ELSE durSum
          /\ TimeOf \in [Event -> Nat]
        BY <2>1, <2>2 DEF RecordOutcome, TimeOf, Event
    <3>. QED BY <3>1, <2>1, <2>2, <2>3, AmountsGrow DEF LedgerCounts
  <2>10. ASSUME NEW c \in StatusClasses PROVE status'[c] = Cardinality(Among(ClassEvents(c))')
    <3>1. status' = Add(status, StatusClass(e.status), 1) /\ status \in [StatusClasses -> Nat]
        BY <2>1 DEF RecordTotals, TypeOK
    <3>2. status'[c] = IF e \in ClassEvents(c) THEN status[c] + 1 ELSE status[c]
        BY <3>1, <2>2 DEF Add, ClassEvents
    <3>. QED BY <3>2, <2>1, <2>2, <2>3, AmongGrows DEF LedgerCounts
  <2>11. ASSUME NEW x \in Reasons PROVE reasons'[x] = Cardinality(Among(ReasonEvents(x))')
    <3>1. reasons' = IF e.reason # None THEN Add(reasons, e.reason, 1) ELSE reasons
        BY <2>1 DEF RecordOutcome, Outcome
    <3>2. reasons'[x] = IF e \in ReasonEvents(x) THEN reasons[x] + 1 ELSE reasons[x]
        BY <3>1, <2>2, MetricsConstants DEF Add, ReasonEvents, TypeOK
    <3>. QED BY <3>2, <2>1, <2>2, <2>3, AmongGrows DEF LedgerCounts
  <2>12. ASSUME NEW k \in Kinds PROVE kinds'[k] = Cardinality(Among(KindEvents(k))')
    <3>1. kinds'[k] = IF e \in KindEvents(k) THEN kinds[k] + 1 ELSE kinds[k]
        BY <2>1, <2>2, MetricsConstants DEF Add, KindEvents, TypeOK
    <3>. QED BY <3>1, <2>1, <2>2, <2>3, AmongGrows DEF LedgerCounts
  <2>. QED BY <2>4, <2>5, <2>6, <2>7, <2>8, <2>9, <2>10, <2>11, <2>12 DEF LedgerCounts
<1>2. CASE \A r \in Requests : ~Finish(r)
    BY <1>2, QuietSteps DEF LedgerCounts, Among, Amounts
<1>. QED BY <1>1, <1>2

\* The tables of one snapshot: each sums to the counters it refines.
TablesInv ==
    /\ IsFiniteSet(Units(status)) /\ SumOf(status) = total
    /\ IsFiniteSet(Units(reasons)) /\ SumOf(reasons) = denied
    /\ IsFiniteSet(Units(kinds)) /\ SumOf(kinds) = proxied + preflight

LEMMA TablesStep ==
    ASSUME TypeOK, RecorderInv, TablesInv, [Next]_vars
    PROVE  TablesInv'
<1>1. ASSUME NEW r \in Requests, Finish(r) PROVE TablesInv'
  <2> DEFINE e == FinishedEvent(rec[r])
  <2>1. /\ RecordTotals(e) /\ RecordOutcome(e) /\ rec[r].pc = "ending"
        /\ kinds' = IF e.kind # None THEN Add(kinds, e.kind, 1) ELSE kinds
      BY <1>1 DEF Finish
  <2>2. /\ e \in Event
        /\ Outcome(e.reason, e.options) = "denied" <=> e \in DeniedEvents
        /\ e.kind # None <=> e \notin DeniedEvents
      BY <2>1, OutcomeOfEvent
  <2>3. /\ e.kind \in Kinds \cup {None} /\ e.reason \in Reasons \cup {None}
      BY <2>2 DEF Event
  <2>4. /\ total \in Nat /\ denied \in Nat /\ proxied \in Nat /\ preflight \in Nat
        /\ status \in [StatusClasses -> Nat] /\ reasons \in [Reasons -> Nat]
        /\ kinds \in [Kinds -> Nat]
      BY DEF TypeOK
  <2> HIDE DEF e
  <2>5. IsFiniteSet(Units(status')) /\ SumOf(status') = total'
    <3>1. status' = Add(status, StatusClass(e.status), 1) /\ total' = total + 1
        BY <2>1 DEF RecordTotals
    <3>. QED BY <3>1, <2>4, StatusClassIsOne, SumPoint DEF TablesInv
  <2>6. IsFiniteSet(Units(reasons')) /\ SumOf(reasons') = denied'
    <3>1. CASE e.reason = None
      <4>1. reasons' = reasons /\ denied' = denied
          BY <2>1, <3>1 DEF RecordOutcome, Outcome
      <4>. QED BY <4>1 DEF TablesInv
    <3>2. CASE e.reason # None
      <4>1. reasons' = Add(reasons, e.reason, 1) /\ denied' = denied + 1 /\ e.reason \in Reasons
          BY <2>1, <2>3, <3>2 DEF RecordOutcome, Outcome
      <4>. QED BY <4>1, <2>4, SumPoint DEF TablesInv
    <3>. QED BY <3>1, <3>2
  <2>7. IsFiniteSet(Units(kinds')) /\ SumOf(kinds') = proxied' + preflight'
    <3>1. CASE e.kind = None
      <4>1. kinds' = kinds /\ proxied' = proxied /\ preflight' = preflight
          BY <2>1, <2>2, <3>1 DEF RecordOutcome, Outcome
      <4>. QED BY <4>1 DEF TablesInv
    <3>2. CASE e.kind # None
      <4>1. kinds' = Add(kinds, e.kind, 1) /\ e.kind \in Kinds
          BY <2>1, <2>3, <3>2
      <4>2. Outcome(e.reason, e.options) \in {"proxied", "preflight"}
          BY <2>2, <3>2 DEF Outcome
      <4>3. proxied' + preflight' = (proxied + preflight) + 1
          BY <2>1, <2>4, <4>2 DEF RecordOutcome
      <4>4. IsFiniteSet(Units(kinds')) /\ SumOf(kinds') = SumOf(kinds) + 1
          BY <4>1, <2>4, SumPoint DEF TablesInv
      <4>. QED BY <4>3, <4>4 DEF TablesInv
    <3>. QED BY <3>1, <3>2
  <2>. QED BY <2>5, <2>6, <2>7 DEF TablesInv
<1>2. CASE \A r \in Requests : ~Finish(r)
    BY <1>2, QuietSteps DEF TablesInv
<1>. QED BY <1>1, <1>2

LEMMA LedgerInit == Init => LedgerCounts /\ TablesInv
<1> SUFFICES ASSUME Init PROVE LedgerCounts /\ TablesInv
    OBVIOUS
<1>1. log = <<>> /\ Len(log) = 0
    BY DEF Init
<1>2. \A E : Among(E) = {}
    BY <1>1 DEF Among
<1>3. \A E : Cardinality(Among(E)) = 0
    BY <1>2, FS_EmptySet
<1>4. \A E, V : IsFiniteSet(Units(Amounts(E, V))) /\ SumOf(Amounts(E, V)) = 0
  <2> SUFFICES ASSUME NEW E, NEW V
               PROVE  IsFiniteSet(Units(Amounts(E, V))) /\ SumOf(Amounts(E, V)) = 0
      OBVIOUS
  <2>1. DOMAIN Amounts(E, V) = {}
      BY <1>2 DEF Amounts
  <2>. QED BY <2>1, NoUnits
<1>5. /\ IsFiniteSet(Units(status)) /\ SumOf(status) = 0
      /\ IsFiniteSet(Units(reasons)) /\ SumOf(reasons) = 0
      /\ IsFiniteSet(Units(kinds)) /\ SumOf(kinds) = 0
    BY NoUnits DEF Init
<1>6. LedgerCounts
    BY <1>1, <1>3, <1>4 DEF Init, LedgerCounts
<1>. QED BY <1>5, <1>6 DEF Init, TablesInv

\* Every counter and every entry of the unbounded tables is what a reader of the
\* ledger counts, for any number of handlers, kinds and reasons (metrics.go:141-162).
THEOREM CountersCorrect == Spec => []CountersMatchLedger
<1>1. TypeOK /\ RecorderInv /\ [Next]_vars => RecorderInv'
    BY RecorderInvStep
<1>2. TypeOK /\ RecorderInv /\ LedgerCounts /\ [Next]_vars => LedgerCounts'
    BY LedgerCountsStep
<1>3. TypeOK /\ LedgerCounts => CountersMatchLedger
    BY CountsAreLedgers
<1>. QED BY <1>1, <1>2, <1>3, RecorderInvInit, LedgerInit, TypeCorrect, PTL DEF Spec

\* The numbers of one snapshot agree with each other: the outcomes, the classes,
\* the reasons and the kinds all add up (metrics.go:28-30).
THEOREM SnapshotCorrect == Spec => []SnapshotAddsUp
<1>1. TypeOK /\ RecorderInv /\ [Next]_vars => RecorderInv'
    BY RecorderInvStep
<1>2. TypeOK /\ RecorderInv /\ TablesInv /\ [Next]_vars => TablesInv'
    BY TablesStep
<1>3. OutcomesAddUp /\ TablesInv => SnapshotAddsUp
    BY DEF TablesInv, SnapshotAddsUp, TablesAddUp
<1>. QED BY <1>1, <1>2, <1>3, RecorderInvInit, LedgerInit, TypeCorrect, OutcomesCorrect, PTL DEF Spec

-----------------------------------------------------------------------------
(***************************************************************************)
(* The chart.  A slot holds the newest minute any of its events has, and   *)
(* exactly that minute's events; the argument needs that no reading of the *)
(* clock is HistoryMinutes old when it is recorded, for then an event of   *)
(* the slot's past could clear a newer minute.                             *)
(***************************************************************************)
MinuteEvents(m) == {x \in Event : x.at = m}

\* Readings of the clock, taken and recorded.
ClockInv ==
    /\ clock >= FirstMinute
    /\ \A i \in DOMAIN log : log[i].at >= FirstMinute /\ log[i].at <= clock
    /\ \A r \in Requests : rec[r].pc = "ending" =>
          /\ rec[r].fin.now >= FirstMinute /\ rec[r].fin.now <= clock
          /\ clock - rec[r].fin.now < HistoryMinutes

\* Slot s of the chart holds the events of its minute, the newest of the slot.
SlotExact(s) ==
    LET m == history[s].minute IN
    /\ m = 0 \/ (m % HistoryMinutes = s /\ m <= clock)
    /\ history[s].requests = Cardinality(Among(MinuteEvents(m)))
    /\ IsFiniteSet(Units(Amounts(MinuteEvents(m), BytesOf)))
    /\ history[s].bytes = SumOf(Amounts(MinuteEvents(m), BytesOf))
    /\ \A i \in DOMAIN log : log[i].at % HistoryMinutes = s => log[i].at <= m

HistoryInv == \A s \in 0 .. HistoryMinutes - 1 : SlotExact(s)

LEMMA HistoryInit == Init => ClockInv /\ HistoryInv
<1> SUFFICES ASSUME Init PROVE ClockInv /\ HistoryInv
    OBVIOUS
<1>1. DOMAIN log = {} /\ \A E : Among(E) = {}
    BY DEF Init, Among
<1>2. ClockInv
    BY <1>1, MetricsConstants DEF Init, ClockInv, IdleRecorder
<1>3. Cardinality({}) = 0
    BY FS_EmptySet
<1>4. IsFiniteSet(Units(Amounts(MinuteEvents(0), BytesOf)))
      /\ SumOf(Amounts(MinuteEvents(0), BytesOf)) = 0
  <2>1. DOMAIN Amounts(MinuteEvents(0), BytesOf) = {}
      BY <1>1 DEF Amounts
  <2>. QED BY <2>1, NoUnits
<1>5. \A s \in 0 .. HistoryMinutes - 1 : history[s] = EmptyBucket(0)
    BY DEF Init
<1>6. ASSUME NEW s \in 0 .. HistoryMinutes - 1 PROVE SlotExact(s)
  <2>1. history[s].minute = 0 /\ history[s].requests = 0 /\ history[s].bytes = 0
      BY <1>5 DEF EmptyBucket
  <2>2. Cardinality(Among(MinuteEvents(0))) = 0
      BY <1>1, <1>3
  <2>. QED BY <2>1, <2>2, <1>1, <1>4 DEF SlotExact
<1>. QED BY <1>2, <1>6 DEF HistoryInv

LEMMA ClockStep ==
    ASSUME TypeOK, ClockInv, [Next]_vars
    PROVE  ClockInv'
<1>1. /\ clock \in Nat /\ FirstMinute \in Nat /\ HistoryMinutes \in Nat \ {0}
      /\ log \in Seq(Event) /\ rec \in [Requests -> Recorder]
    BY MetricsConstants DEF TypeOK
<1>2. ASSUME NEW r \in Requests, NEW q, rec' = [rec EXCEPT ![r] = q], q.pc # "ending",
             UNCHANGED <<log, clock>>
      PROVE  ClockInv'
    BY <1>1, <1>2 DEF ClockInv
<1>3. ASSUME NEW r \in Requests, Arrive(r) PROVE ClockInv'
  <2>1. PICK method \in Methods :
           rec' = [rec EXCEPT ![r] = [IdleRecorder EXCEPT !.pc = "open", !.method = method]]
      BY <1>3 DEF Arrive, Start
  <2>2. UNCHANGED <<log, clock>>
      BY <1>3 DEF Arrive, Start
  <2>3. [IdleRecorder EXCEPT !.pc = "open", !.method = method].pc # "ending"
      BY DEF IdleRecorder
  <2>. QED BY <2>1, <2>2, <2>3, <1>2
<1>4. ASSUME NEW r \in Requests, Refuse(r) \/ Resolve(r) \/ AnswerPreflight(r) PROVE ClockInv'
  <2>1. UNCHANGED <<log, clock>> /\ rec[r].pc = "open"
      BY <1>4 DEF Refuse, Resolve, AnswerPreflight, Deny, Target, Preflight, collector
  <2>2. rec[r] \in Recorder
      BY <1>1
  <2>3. CASE \E reason \in Reasons : Deny(r, reason)
    <3>1. PICK reason \in Reasons : Deny(r, reason)
        BY <2>3
    <3> DEFINE q == [rec[r] EXCEPT !.reason = reason]
    <3>2. q.pc # "ending" /\ rec' = [rec EXCEPT ![r] = q]
        BY <2>1, <2>2, <3>1 DEF Deny, Recorder
    <3>. QED BY <2>1, <3>2, <1>2
  <2>4. CASE \E kind \in Kinds, repo \in Repos : Target(r, kind, repo)
    <3>1. PICK kind \in Kinds, repo \in Repos : Target(r, kind, repo)
        BY <2>4
    <3> DEFINE q == [rec[r] EXCEPT !.kind = kind, !.repo = repo]
    <3>2. q.pc # "ending" /\ rec' = [rec EXCEPT ![r] = q]
        BY <2>1, <2>2, <3>1 DEF Target, Recorder
    <3>. QED BY <2>1, <3>2, <1>2
  <2>5. CASE Preflight(r)
    <3> DEFINE q == [rec[r] EXCEPT !.options = TRUE]
    <3>1. q.pc # "ending" /\ rec' = [rec EXCEPT ![r] = q]
        BY <2>1, <2>2, <2>5 DEF Preflight, Recorder
    <3>. QED BY <2>1, <3>1, <1>2
  <2>. QED BY <1>4, <2>3, <2>4, <2>5 DEF Refuse, Resolve, AnswerPreflight
<1>5. ASSUME NEW r \in Requests, Close(r) PROVE ClockInv'
  <2>0. PICK code \in StatusCodes, n \in ByteCounts, d \in Durations : ReadClock(r, code, n, d)
      BY <1>5 DEF Close
  <2> DEFINE f == [status |-> code, bytes |-> IF n < 0 THEN 0 ELSE n, d |-> d, now |-> clock]
  <2>1. f.now = clock /\ rec' = [rec EXCEPT ![r] = [rec[r] EXCEPT !.pc = "ending", !.fin = f]]
      BY <2>0 DEF ReadClock
  <2> HIDE DEF f
  <2>2. UNCHANGED <<log, clock>>
      BY <1>5 DEF Close, ReadClock, collector
  <2>3. clock - clock < HistoryMinutes
      BY <1>1
  <2>4. rec'[r].fin.now = clock /\ \A x \in Requests \ {r} : rec'[x] = rec[x]
      BY <2>1, <1>1 DEF Recorder
  <2>. QED BY <2>2, <2>3, <2>4, <1>1 DEF ClockInv
<1>6. ASSUME NEW r \in Requests, Finish(r) PROVE ClockInv'
  <2> DEFINE e == FinishedEvent(rec[r])
  <2>1. /\ log' = Append(log, e) /\ clock' = clock /\ rec[r].pc = "ending"
        /\ rec' = [rec EXCEPT ![r] = IdleRecorder]
      BY <1>6 DEF Finish
  <2>2. e \in Event /\ e.at = rec[r].fin.now
      BY <1>1, FinishedEventType DEF FinishedEvent
  <2>3. e.at >= FirstMinute /\ e.at <= clock
      BY <2>1, <2>2 DEF ClockInv
  <2> HIDE DEF e
  <2>4. \A i \in DOMAIN log' : log'[i].at >= FirstMinute /\ log'[i].at <= clock'
      BY <1>1, <2>1, <2>2, <2>3, LedgerGrows DEF ClockInv
  <2>5. \A x \in Requests : rec'[x].pc = "ending" => rec[x].pc = "ending" /\ rec'[x] = rec[x]
      BY <1>1, <2>1 DEF IdleRecorder
  <2>. QED BY <2>1, <2>4, <2>5 DEF ClockInv
<1>7. CASE Tick
  <2>1. clock' = clock + 1 /\ UNCHANGED <<log, rec>>
        /\ \A r \in Requests :
              rec[r].pc = "ending" => clock + 1 - rec[r].fin.now < HistoryMinutes
      BY <1>7 DEF Tick, collector
  <2>2. \A r \in Requests : rec[r].fin.now \in Nat
      BY <1>1 DEF Recorder, Ending
  <2>3. \A i \in DOMAIN log : log[i].at \in Nat
    <3>1. \A i \in DOMAIN log : log[i] \in Event
        BY <1>1
    <3>. QED BY <3>1 DEF Event
  <2>. QED BY <1>1, <2>1, <2>2, <2>3 DEF ClockInv
<1>8. CASE UNCHANGED vars
    BY <1>8 DEF vars, collector, ClockInv
<1>. QED BY <1>3, <1>4, <1>5, <1>6, <1>7, <1>8 DEF Next, Exhausted

\* The chart's minutes and the events' are of one clock.
LEMMA QuietHistory ==
    ASSUME TypeOK, HistoryInv, [Next]_vars, \A r \in Requests : ~Finish(r)
    PROVE  HistoryInv'
<1>1. UNCHANGED <<history, log>>
    BY QuietSteps
<1>2. clock' = clock \/ clock' = clock + 1
  <2>1. Tick => clock' = clock + 1
      BY DEF Tick
  <2>2. ASSUME NEW r \in Requests,
               Arrive(r) \/ Refuse(r) \/ Resolve(r) \/ AnswerPreflight(r) \/ Close(r)
        PROVE  clock' = clock
      BY <2>2 DEF Arrive, Refuse, Resolve, AnswerPreflight, Close, Start, Deny, Target,
                  Preflight, ReadClock
  <2>. QED BY <2>1, <2>2 DEF Next, Exhausted, vars
<1>3. clock \in Nat /\ \A s \in 0 .. HistoryMinutes - 1 : history[s].minute \in Nat
    BY DEF TypeOK, Bucket
<1>4. ASSUME NEW s \in 0 .. HistoryMinutes - 1, SlotExact(s) PROVE SlotExact(s)'
    BY <1>1, <1>2, <1>3, <1>4 DEF SlotExact, Among, Amounts
<1>. QED BY <1>4 DEF HistoryInv

LEMMA HistoryStep ==
    ASSUME TypeOK, ClockInv, HistoryInv, NEW r \in Requests, Finish(r)
    PROVE  HistoryInv'
<1>0. PICK e \in Event : e = FinishedEvent(rec[r])
    BY FinishedEventType DEF TypeOK
<1> DEFINE H == HistoryMinutes
           k == e.at % H
           b == BucketFor(history[k], e.at)
<1>1. /\ log' = Append(log, e) /\ clock' = clock /\ rec[r].pc = "ending"
      /\ history' = [history EXCEPT ![k] =
            [minute |-> b.minute, requests |-> b.requests + 1, bytes |-> b.bytes + e.bytes]]
    BY <1>0 DEF Finish, RecordHistory
<1>2. e \in Event /\ e.at = rec[r].fin.now
    BY <1>0 DEF FinishedEvent
<1>3. /\ clock \in Nat /\ FirstMinute \in Nat /\ H \in Nat \ {0} /\ FirstMinute >= H
      /\ log \in Seq(Event) /\ history \in [0 .. H - 1 -> Bucket]
      /\ e.at \in Nat /\ e.bytes \in Nat
    BY <1>2, MetricsConstants, StartsAfterTheEpoch DEF TypeOK, Event
<1>4. e.at >= FirstMinute /\ e.at <= clock /\ clock - e.at < H
    BY <1>1, <1>2 DEF ClockInv
<1> HIDE DEF H
<1>5. k \in 0 .. H - 1
    BY <1>3, SlotInRange
<1> HIDE DEF k
<1> DEFINE m == history[k].minute
<1>6. SlotExact(k) /\ history[k] \in Bucket /\ m \in Nat
    BY <1>3, <1>5 DEF HistoryInv, Bucket, H
<1>7. m <= e.at
  <2> SUFFICES ASSUME e.at < m PROVE FALSE
      BY <1>3, <1>6
  <2>1. m % H = k /\ m <= clock
      BY <1>3, <1>6 DEF SlotExact, H
  <2>2. m < e.at + H
      BY <2>1, <1>3, <1>4, <1>6
  <2>3. e.at % H # m % H
      BY ONLY <2>2, <1>3, <1>6, SlotsDistinct, e.at < m
  <2>. QED BY <2>1, <2>3 DEF k
<1>8. \* The bucket that e is added to holds the events of e's minute so far.
      /\ b \in Bucket /\ b.minute = e.at
      /\ b.requests = Cardinality(Among(MinuteEvents(e.at)))
      /\ IsFiniteSet(Units(Amounts(MinuteEvents(e.at), BytesOf)))
      /\ b.bytes = SumOf(Amounts(MinuteEvents(e.at), BytesOf))
  <2>1. CASE m = e.at
      BY <2>1, <1>6 DEF SlotExact, BucketFor
  <2>2. CASE m # e.at
    <3>1. b = EmptyBucket(e.at)
        BY <2>2 DEF BucketFor
    <3>2. ASSUME NEW i \in DOMAIN log, log[i].at = e.at PROVE FALSE
      <4>1. log[i].at % HistoryMinutes = k
          BY <3>2 DEF k, H
      <4>2. log[i].at <= m
          BY <4>1, <1>6 DEF SlotExact
      <4>. QED BY <4>2, <3>2, <2>2, <1>3, <1>6, <1>7
    <3>3. Among(MinuteEvents(e.at)) = {}
        BY <3>2 DEF Among, MinuteEvents
    <3>4. DOMAIN Amounts(MinuteEvents(e.at), BytesOf) = {}
        BY <3>3 DEF Amounts
    <3>5. IsFiniteSet(Units(Amounts(MinuteEvents(e.at), BytesOf)))
          /\ SumOf(Amounts(MinuteEvents(e.at), BytesOf)) = 0
        BY <3>4, NoUnits
    <3>. QED BY <3>1, <3>3, <3>5, <1>3, BucketForType, FS_EmptySet DEF EmptyBucket, Bucket
  <2>. QED BY <2>1, <2>2
<1> HIDE DEF b
<1>9. BytesOf \in [Event -> Nat] /\ BytesOf[e] = e.bytes
    BY <1>2 DEF BytesOf, Event
<1>10. history'[k] = [minute |-> e.at, requests |-> b.requests + 1, bytes |-> b.bytes + e.bytes]
    BY <1>1, <1>3, <1>5, <1>8
<1>11. SlotExact(k)'
  <2>1. e \in MinuteEvents(e.at)
      BY <1>2 DEF MinuteEvents
  <2>2. Cardinality(Among(MinuteEvents(e.at))') = b.requests + 1
      BY <2>1, <1>1, <1>2, <1>3, <1>8, AmongGrows
  <2>3. /\ IsFiniteSet(Units(Amounts(MinuteEvents(e.at), BytesOf)'))
        /\ SumOf(Amounts(MinuteEvents(e.at), BytesOf)') = b.bytes + e.bytes
      BY <2>1, <1>1, <1>2, <1>3, <1>8, <1>9, AmountsGrow
  <2>4. ASSUME NEW i \in DOMAIN log', log'[i].at % H = k PROVE log'[i].at <= e.at
    <3>1. CASE i \in DOMAIN log
      <4>1. log'[i] = log[i] /\ log[i] \in Event
          BY <3>1, <1>1, <1>2, <1>3, LedgerGrows
      <4>2. log[i].at <= m
          BY <4>1, <3>1, <2>4, <1>6 DEF SlotExact, H
      <4>3. log[i].at \in Nat
          BY <4>1 DEF Event
      <4>. QED BY <4>1, <4>2, <4>3, <1>3, <1>6, <1>7
    <3>2. CASE i \notin DOMAIN log
      <4>1. log'[i] = e
          BY <3>2, <1>1, <1>2, <1>3, LedgerGrows
      <4>. QED BY <4>1, <1>3
    <3>. QED BY <3>1, <3>2
  <2>5. history'[k].minute = e.at /\ history'[k].requests = b.requests + 1
        /\ history'[k].bytes = b.bytes + e.bytes
      BY <1>10
  <2>6. e.at % HistoryMinutes = k /\ e.at <= clock'
      BY <1>1, <1>4 DEF k, H
  <2>. QED BY <2>2, <2>3, <2>4, <2>5, <2>6 DEF SlotExact, H
<1>12. ASSUME NEW s \in 0 .. H - 1, s # k PROVE SlotExact(s)'
  <2>0. PICK n \in Nat : n = history[s].minute
      BY <1>3, <1>12 DEF Bucket
  <2>1. history'[s] = history[s] /\ history[s] \in Bucket
      BY <1>1, <1>3, <1>5, <1>12
  <2>2. SlotExact(s)
      BY <1>12 DEF HistoryInv, H
  <2>3. n # e.at
      BY <2>0, <2>2, <1>3, <1>4, <1>12 DEF SlotExact, k, H
  <2>4. e \notin MinuteEvents(n)
      BY <2>3 DEF MinuteEvents
  <2>5. /\ Cardinality(Among(MinuteEvents(n))') = Cardinality(Among(MinuteEvents(n)))
        /\ IsFiniteSet(Units(Amounts(MinuteEvents(n), BytesOf)'))
        /\ SumOf(Amounts(MinuteEvents(n), BytesOf)') = SumOf(Amounts(MinuteEvents(n), BytesOf))
    <3>1. IsFiniteSet(Units(Amounts(MinuteEvents(n), BytesOf)))
        BY <2>0, <2>2 DEF SlotExact
    <3>. QED BY <3>1, <2>4, <1>1, <1>2, <1>3, <1>9, AmongGrows, AmountsGrow
  <2>6. ASSUME NEW i \in DOMAIN log', log'[i].at % HistoryMinutes = s PROVE log'[i].at <= n
    <3>1. CASE i \in DOMAIN log
      <4>1. log'[i] = log[i]
          BY <3>1, <1>1, <1>2, <1>3, LedgerGrows
      <4>. QED BY <4>1, <3>1, <2>0, <2>2, <2>6 DEF SlotExact
    <3>2. CASE i \notin DOMAIN log
      <4>1. log'[i] = e
          BY <3>2, <1>1, <1>2, <1>3, LedgerGrows
      <4>. QED BY <4>1, <2>6, <1>12 DEF k, H
    <3>. QED BY <3>1, <3>2
  <2>. QED BY <2>0, <2>1, <2>2, <2>5, <2>6, <1>1 DEF SlotExact
<1>13. \A s \in 0 .. H - 1 : SlotExact(s)'
    BY <1>11, <1>12
<1>. QED BY <1>13 DEF HistoryInv, H

\* What the chart shows of a slot, read with a clock that may be behind: the
\* slot's minute exactly, an older minute of the slot as empty, and a minute the
\* slot has not reached as empty, which is then the truth.
LEMMA HistoryShows ==
    ASSUME TypeOK, ClockInv, HistoryInv
    PROVE  HistoryExact
<1> DEFINE H == HistoryMinutes
<1>1. /\ clock \in Nat /\ FirstMinute \in Nat /\ H \in Nat \ {0} /\ FirstMinute >= H
      /\ log \in Seq(Event) /\ history \in [0 .. H - 1 -> Bucket]
    BY MetricsConstants, StartsAfterTheEpoch DEF TypeOK
<1>2. \A i \in DOMAIN log : log[i] \in Event
    BY <1>1
<1>3. ASSUME NEW minute \in Nat
      PROVE  /\ Count(LAMBDA e : e.at = minute) = Cardinality(Among(MinuteEvents(minute)))
             /\ Total(LAMBDA e : e.at = minute, LAMBDA e : e.bytes)
                   = SumOf(Amounts(MinuteEvents(minute), BytesOf))
  <2>1. Among(MinuteEvents(minute)) = {i \in DOMAIN log : log[i].at = minute}
      BY <1>2 DEF Among, MinuteEvents
  <2>2. \A i \in DOMAIN log : BytesOf[log[i]] = log[i].bytes
      BY <1>2 DEF BytesOf
  <2>3. Amounts(MinuteEvents(minute), BytesOf)
           = [i \in {j \in DOMAIN log : log[j].at = minute} |-> log[i].bytes]
      BY <2>1, <2>2 DEF Amounts
  <2>. QED BY <2>1, <2>3 DEF Count, Total
<1>4. ASSUME NEW now \in FirstMinute .. clock, NEW i \in 1 .. HistoryMinutes
      PROVE  LET shown == HistoryFrom(now)[i]
                 truth == [minute |-> shown.minute,
                           requests |-> Count(LAMBDA e : e.at = shown.minute),
                           bytes |-> Total(LAMBDA e : e.at = shown.minute, LAMBDA e : e.bytes)]
             IN  /\ shown.minute = now - HistoryMinutes + i
                 /\ shown = truth \/ (now < clock /\ shown = EmptyBucket(shown.minute))
  <2> DEFINE minute == now - H + i
             s == minute % H
             m == history[s].minute
             shown == HistoryFrom(now)[i]
             seen == Cardinality(Among(MinuteEvents(minute)))
             sum == SumOf(Amounts(MinuteEvents(minute), BytesOf))
  <2>1. minute \in Nat /\ minute <= now /\ minute > 0 /\ now \in Nat /\ now <= clock
        /\ now < minute + H
      BY <1>1, <1>4
  <2>2. shown = BucketFor(history[s], minute)
      BY <1>4 DEF HistoryFrom
  <2> HIDE DEF minute, H
  <2>3. s \in 0 .. H - 1
      BY <2>1, <1>1, SlotInRange
  <2>4. SlotExact(s) /\ history[s] \in Bucket /\ m \in Nat
      BY <2>3, <1>1 DEF HistoryInv, Bucket, H
  <2> HIDE DEF s
  <2>5. shown.minute = minute
      BY <2>1, <2>2, <2>4, BucketForType
  <2>6. CASE m = minute
    <3>1. shown = history[s]
        BY <2>2, <2>6 DEF BucketFor
    <3>2. shown = [minute |-> minute, requests |-> seen, bytes |-> sum]
        BY <3>1, <2>4, <2>6 DEF SlotExact, Bucket
    <3>. QED BY <3>2, <2>1, <2>5, <1>3 DEF minute, H
  <2>7. CASE m # minute
    <3>1. shown = EmptyBucket(minute)
        BY <2>2, <2>7 DEF BucketFor
    <3>2. CASE now < clock
        BY <3>1, <3>2, <2>5 DEF minute, H
    <3>3. CASE ~(now < clock)
      <4>1. ASSUME NEW j \in DOMAIN log, log[j].at = minute PROVE FALSE
        <5>1. minute < m
          <6>1. minute <= m
              BY <4>1, <2>4 DEF SlotExact, s, H
          <6>. QED BY <6>1, <2>1, <2>4, <2>7
        <5>2. m % H = s /\ m <= clock
            BY <5>1, <2>1, <2>4 DEF SlotExact, H
        <5>3. m < minute + H
            BY <5>2, <3>3, <2>1, <2>4, <1>1
        <5>4. minute % H # m % H
            BY ONLY <5>1, <5>3, <2>1, <2>4, <1>1, SlotsDistinct
        <5>. QED BY <5>2, <5>4 DEF s
      <4>2. Among(MinuteEvents(minute)) = {}
          BY <4>1 DEF Among, MinuteEvents
      <4>3. DOMAIN Amounts(MinuteEvents(minute), BytesOf) = {}
          BY <4>2 DEF Amounts
      <4>4. seen = 0 /\ sum = 0
          BY <4>2, <4>3, NoUnits, FS_EmptySet
      <4>5. shown = [minute |-> minute, requests |-> seen, bytes |-> sum]
          BY <3>1, <4>4 DEF EmptyBucket
      <4>. QED BY <4>5, <2>1, <2>5, <1>3 DEF minute, H
    <3>. QED BY <3>2, <3>3
  <2>. QED BY <2>6, <2>7
<1>. QED BY <1>4 DEF HistoryExact

\* The chart is exact for a fresh clock and never shows a minute with other
\* traffic for a stale one, for every size of the window and every order in which
\* handlers read the clock and reach the lock (metrics.go:53-55, 181-187, 297-312).
THEOREM HistoryCorrect == Spec => []HistoryExact
<1>1. TypeOK /\ ClockInv /\ [Next]_vars => ClockInv'
    BY ClockStep
<1>2. TypeOK /\ ClockInv /\ HistoryInv /\ [Next]_vars => HistoryInv'
    BY HistoryStep, QuietHistory
<1>3. TypeOK /\ ClockInv /\ HistoryInv => HistoryExact
    BY HistoryShows
<1>. QED BY <1>1, <1>2, <1>3, HistoryInit, TypeCorrect, PTL DEF Spec

=============================================================================
