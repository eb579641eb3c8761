----------------------------- MODULE StatusProofs -----------------------------
(***************************************************************************)
(* Theorems on Status, for any traffic, any number of polls at once and    *)
(* any unit of durations.                                                  *)
(***************************************************************************)
EXTENDS Status, MetricsProofs

-----------------------------------------------------------------------------
(* The collector under the page is the collector. *)

LEMMA CollectorStep == [StatusNext]_statusVars => [Next]_vars
BY DEF StatusNext, statusVars, Begin, Answer, Draw, Fail, Hide, Break

LEMMA CollectorAlways == StatusSpec => []TypeOK
<1>1. StatusInit => MetricsInv
    BY MetricsInit DEF StatusInit
<1>2. MetricsInv /\ [StatusNext]_statusVars => MetricsInv'
    BY MetricsStep, CollectorStep
<1>3. MetricsInv => TypeOK
    BY DEF MetricsInv
<1>. QED BY <1>1, <1>2, <1>3, PTL DEF StatusSpec

-----------------------------------------------------------------------------
(* The sum Prometheus reads. *)

LEMMA Quotient ==
    ASSUME NEW n \in Nat, NEW d \in Nat \ {0}
    PROVE  n \div d \in Nat /\ (n \div d) * d <= n /\ n < (n \div d + 1) * d
BY Division

\* Dividing by the count and then by the unit loses less than a unit each.
LEMMA DividedTwice ==
    ASSUME NEW n \in Nat, NEW d \in Nat \ {0}, NEW m \in Nat \ {0}, NEW a, a = (n \div d) \div m
    PROVE  (a * d) * m <= n /\ n < (a * d + d) * m
<1> DEFINE q == n \div d
<1>1. q \in Nat /\ q * d <= n /\ n < (q + 1) * d
    BY Quotient
<1> HIDE DEF q
<1>2. a = q \div m
    BY DEF q
<1>3. a \in Nat /\ a * m <= q /\ q < (a + 1) * m
    BY <1>1, <1>2, Quotient
<1>4. q + 1 <= (a + 1) * m
    BY <1>1, <1>3
<1>5. d * (a * m) <= d * q /\ d * (q + 1) <= d * ((a + 1) * m)
    BY <1>1, <1>3, <1>4, ProductGrows, ProductIsNat
<1>6. (a * d) * m = d * (a * m) /\ (a * d + d) * m = d * ((a + 1) * m)
    BY <1>3
<1>7. q * d = d * q /\ (q + 1) * d = d * (q + 1)
    BY <1>1
<1>. QED BY <1>1, <1>3, <1>5, <1>6, <1>7

\* SumWithinOneMicroEach: for every unit and every traffic the sum is never too
\* large, and too small by less than a microsecond for each request.
THEOREM SumCorrect == StatusSpec => []SumWithinOneMicroEach
<1>1. TypeOK => SumWithinOneMicroEach
  <2> SUFFICES ASSUME TypeOK PROVE SumWithinOneMicroEach
      OBVIOUS
  <2>1. proxied \in Nat /\ durSum \in Nat /\ Micro \in Nat \ {0}
      BY MicroPositive DEF TypeOK
  <2>2. CASE proxied = 0
    <3>1. PromSum = 0
        BY <2>2 DEF PromSum, Average
    <3>. QED BY <2>1, <2>2, <3>1 DEF SumWithinOneMicroEach
  <2>3. CASE proxied # 0
    <3>1. Average = (durSum \div proxied) \div Micro
        BY <2>3 DEF Average
    <3>2. (Average * proxied) * Micro <= durSum /\ durSum < (Average * proxied + proxied) * Micro
        BY <2>1, <2>3, <3>1, DividedTwice
    <3>. QED BY <3>2 DEF SumWithinOneMicroEach, PromSum
  <2>. QED BY <2>2, <2>3
<1>. QED BY <1>1, CollectorAlways, PTL

-----------------------------------------------------------------------------
(* Answers grow with the collector: what AtLeast compares, without None. *)

Numbers(d) ==
    /\ d.total \in Nat /\ d.proxied \in Nat /\ d.denied \in Nat
    /\ d.preflight \in Nat /\ d.bytes \in Nat /\ d.max \in Nat
    /\ \A c \in StatusClasses : d.status[c] \in Nat
    /\ \A k \in Kinds : d.kinds[k] \in Nat
    /\ \A p \in DOMAIN d.repos : d.repos[p] \in Nat

Above(new, old) ==
    /\ new.total >= old.total /\ new.proxied >= old.proxied /\ new.denied >= old.denied
    /\ new.preflight >= old.preflight /\ new.bytes >= old.bytes /\ new.max >= old.max
    /\ \A c \in StatusClasses : new.status[c] >= old.status[c]
    /\ \A k \in Kinds : new.kinds[k] >= old.kinds[k]
    /\ \A p \in DOMAIN old.repos : p \in DOMAIN new.repos /\ new.repos[p] >= old.repos[p]

LEMMA AboveTransitive ==
    ASSUME NEW a, NEW b, NEW c, Numbers(a), Numbers(b), Numbers(c), Above(a, b), Above(b, c)
    PROVE  Above(a, c)
BY DEF Numbers, Above

LEMMA AboveReflexive ==
    ASSUME NEW a, Numbers(a)
    PROVE  Above(a, a)
BY DEF Numbers, Above

LEMMA QuotientGrows ==
    ASSUME NEW a \in Nat, NEW b \in Nat, NEW m \in Nat \ {0}, a <= b
    PROVE  a \div m <= b \div m
<1>1. a \div m \in Nat /\ b \div m \in Nat /\ (a \div m) * m <= a /\ b < (b \div m + 1) * m
    BY Quotient
<1>2. SUFFICES ASSUME b \div m + 1 <= a \div m PROVE FALSE
    BY <1>1
<1>3. m * (b \div m + 1) <= m * (a \div m)
    BY <1>1, <1>2, ProductGrows
<1>. QED BY <1>1, <1>3

LEMMA SnapshotNumbers == ASSUME TypeOK PROVE Numbers(Snapshot)
<1>1. durMax \div Micro \in Nat
    BY MicroPositive, Quotient DEF TypeOK
<1>. QED BY <1>1 DEF TypeOK, Snapshot, Numbers, Rows

LEMMA AddGrows ==
    ASSUME NEW S, NEW f \in [S -> Nat], NEW k
    PROVE  \A x \in S : Add(f, k, 1)[x] >= f[x]
<1>1. Add(f, k, 1) = [x \in S |-> IF x = k THEN f[x] + 1 ELSE f[x]]
    BY DEF Add
<1>. QED BY <1>1

LEMMA SameGrows ==
    ASSUME NEW S, NEW f \in [S -> Nat]
    PROVE  \A x \in S : f[x] >= f[x]
OBVIOUS

\* No step of the collector takes anything back.
LEMMA CollectorGrows ==
    ASSUME TypeOK, TypeOK', [Next]_vars
    PROVE  /\ total' >= total /\ proxied' >= proxied /\ denied' >= denied
           /\ preflight' >= preflight /\ bytes' >= bytes /\ durMax' >= durMax
           /\ \A c \in StatusClasses : status'[c] >= status[c]
           /\ \A k \in Kinds : kinds'[k] >= kinds[k]
           /\ \A p \in Repos : repos'[p] >= repos[p]
<1>1. CASE \A r \in Requests : ~Finish(r)
  <2>1. UNCHANGED <<total, proxied, denied, preflight, bytes, durMax, status, kinds, repos>>
      BY <1>1, QuietSteps
  <2>2. /\ total >= total /\ proxied >= proxied /\ denied >= denied
        /\ preflight >= preflight /\ bytes >= bytes /\ durMax >= durMax
      BY DEF TypeOK
  <2>3. /\ \A c \in StatusClasses : status[c] >= status[c]
        /\ \A k \in Kinds : kinds[k] >= kinds[k]
        /\ \A p \in Repos : repos[p] >= repos[p]
      BY SameGrows DEF TypeOK
  <2>. QED BY <2>1, <2>2, <2>3
<1>2. ASSUME NEW r \in Requests, Finish(r)
      PROVE  /\ total' >= total /\ proxied' >= proxied /\ denied' >= denied
             /\ preflight' >= preflight /\ bytes' >= bytes /\ durMax' >= durMax
             /\ \A c \in StatusClasses : status'[c] >= status[c]
             /\ \A k \in Kinds : kinds'[k] >= kinds[k]
             /\ \A p \in Repos : repos'[p] >= repos[p]
  <2> DEFINE e == FinishedEvent(rec[r])
  <2>1. /\ RecordTotals(e) /\ RecordOutcome(e) /\ RecordRepo(e.repo)
        /\ kinds' = IF e.kind # None THEN Add(kinds, e.kind, 1) ELSE kinds
      BY <1>2 DEF Finish
  <2>2. e.bytes \in Nat /\ e.d \in Nat
      BY FinishedEventType DEF TypeOK, Event
  <2> HIDE DEF e
  <2>3. total' >= total /\ bytes' >= bytes
    <3>1. total \in Nat /\ bytes \in Nat
        BY DEF TypeOK
    <3>2. total' = total + 1 /\ bytes' = bytes + e.bytes
        BY <2>1 DEF RecordTotals
    <3>. QED BY <2>2, <3>1, <3>2
  <2>4. proxied' >= proxied /\ denied' >= denied /\ preflight' >= preflight /\ durMax' >= durMax
    <3>1. proxied \in Nat /\ denied \in Nat /\ preflight \in Nat /\ durMax \in Nat
        BY DEF TypeOK
    <3>2. RecordOutcome(e)
        BY <2>1
    <3>. QED BY <2>2, <3>1, <3>2 DEF RecordOutcome
  <2>5. \A c \in StatusClasses : status'[c] >= status[c]
    <3>1. status' = Add(status, StatusClass(e.status), 1) /\ status \in [StatusClasses -> Nat]
        BY <2>1 DEF RecordTotals, TypeOK
    <3>. QED BY <3>1, AddGrows
  <2>6. \A k \in Kinds : kinds'[k] >= kinds[k]
    <3>1. kinds \in [Kinds -> Nat]
        BY DEF TypeOK
    <3>. QED BY <2>1, <3>1, AddGrows, SameGrows
  <2>7. \A p \in Repos : repos'[p] >= repos[p]
    <3>1. repos \in [Repos -> Nat]
        BY DEF TypeOK
    <3>2. repos' = repos \/ repos' = Add(repos, e.repo, 1)
        BY <2>1 DEF RecordRepo
    <3>. QED BY <3>1, <3>2, AddGrows, SameGrows
  <2>. QED BY <2>3, <2>4, <2>5, <2>6, <2>7
<1>. QED BY <1>1, <1>2

LEMMA SnapshotGrows ==
    ASSUME TypeOK, TypeOK', [Next]_vars
    PROVE  Above(Snapshot', Snapshot)
<1>1. durMax' \div Micro >= durMax \div Micro
    BY CollectorGrows, QuotientGrows, MicroPositive DEF TypeOK
<1>2. ASSUME NEW p \in Rows PROVE p \in Rows' /\ repos'[p] >= repos[p]
  <2>1. p \in Repos /\ repos[p] > 0 /\ repos[p] \in Nat /\ repos'[p] \in Nat
      BY DEF Rows, TypeOK
  <2>2. repos'[p] >= repos[p]
      BY <2>1, CollectorGrows
  <2>. QED BY <2>1, <2>2 DEF Rows
<1>. QED BY <1>1, <1>2, CollectorGrows DEF Snapshot, Above

-----------------------------------------------------------------------------
(* The invariant: what the page and its polls hold, the collector, of which  *)
(* n is a snapshot, has outgrown.                                            *)

Held(n, d) == d # None => Numbers(d) /\ Above(n, d)

\* One poll q.
PollInv(n, q) ==
    /\ Held(n, q.known)
    /\ q.pc = "answered" => Held(n, q.data)
    /\ q.pc = "answered" /\ q.known # None => Above(q.data, q.known)

PageInv ==
    /\ poll = [s \in Polls |-> poll[s]]
    /\ Held(Snapshot, shown)
    /\ \A s \in Polls : PollInv(Snapshot, poll[s])

LEMMA PageInit == StatusInit => PageInv
<1> SUFFICES ASSUME StatusInit PROVE PageInv
    OBVIOUS
<1>1. shown = None /\ poll = [s \in Polls |-> Idle]
    BY DEF StatusInit
<1>2. Held(Snapshot, None) /\ PollInv(Snapshot, Idle)
    BY DEF Held, PollInv, Idle
<1>. QED BY <1>1, <1>2 DEF PageInv

\* What was held is held after a step of the collector.
LEMMA HeldStays ==
    ASSUME NEW n, NEW m, Numbers(n), Numbers(m), Above(m, n)
    PROVE  /\ \A d : Held(n, d) => Held(m, d)
           /\ \A q : PollInv(n, q) => PollInv(m, q)
<1>1. ASSUME NEW d, Held(n, d) PROVE Held(m, d)
    BY <1>1, AboveTransitive DEF Held
<1>. QED BY <1>1 DEF PollInv

LEMMA CollectorKeepsPage ==
    ASSUME TypeOK, TypeOK', PageInv, [Next]_vars, UNCHANGED page
    PROVE  PageInv'
<1>1. Numbers(Snapshot)
    BY SnapshotNumbers
<1>2. Numbers(Snapshot')
  <2>1. durMax' \div Micro \in Nat
      BY MicroPositive, Quotient DEF TypeOK
  <2>. QED BY <2>1 DEF TypeOK, Snapshot, Numbers, Rows
<1>3. Held(Snapshot', shown) /\ \A s \in Polls : PollInv(Snapshot', poll[s])
    BY <1>1, <1>2, SnapshotGrows, HeldStays DEF PageInv
<1>. QED BY <1>3 DEF PageInv, page

\* A step that leaves the collector alone and gives one poll a new record.
LEMMA OnePoll ==
    ASSUME PageInv, UNCHANGED vars, NEW s \in Polls, NEW q, poll' = [poll EXCEPT ![s] = q],
           PollInv(Snapshot, q), Held(Snapshot, shown')
    PROVE  PageInv'
<1>1. Snapshot' = Snapshot
    BY DEF vars, collector, counters, tables, Snapshot, Average, Rows, RecentEvents, RecentNewestFirst
<1>2. poll' = [t \in Polls |-> IF t = s THEN q ELSE poll[t]]
    BY DEF PageInv
<1>3. \A t \in Polls : PollInv(Snapshot, poll'[t])
    BY <1>2 DEF PageInv
<1>4. poll' = [t \in Polls |-> poll'[t]]
    BY <1>2
<1>. QED BY <1>1, <1>3, <1>4 DEF PageInv

LEMMA PollStep ==
    ASSUME TypeOK, PageInv, NEW s \in Polls, Begin(s) \/ Answer(s) \/ Draw(s) \/ Fail(s)
    PROVE  PageInv'
<1> DEFINE q == poll[s]
<1>1. PollInv(Snapshot, q) /\ Held(Snapshot, shown)
    BY DEF PageInv
<1>2. Numbers(Snapshot) /\ Above(Snapshot, Snapshot)
    BY SnapshotNumbers, AboveReflexive
<1>3. PollInv(Snapshot, Idle)
    BY DEF PollInv, Held, Idle
<1>4. CASE Begin(s)
  <2> DEFINE b == [pc |-> "asked", data |-> None, known |-> shown]
  <2>1. poll' = [poll EXCEPT ![s] = b] /\ UNCHANGED vars /\ shown' = shown
      BY <1>4 DEF Begin
  <2>2. PollInv(Snapshot, b)
      BY <1>1 DEF PollInv
  <2>. HIDE DEF b
  <2>. QED BY <1>1, <2>1, <2>2, OnePoll
<1>5. CASE Answer(s)
  <2> DEFINE a == [pc |-> "answered", data |-> Snapshot, known |-> q.known]
  <2>1. UNCHANGED vars /\ shown' = shown
      BY <1>5 DEF Answer
  <2>2. poll' = [poll EXCEPT ![s] = a]
      BY <1>5 DEF Answer
  <2>3. PollInv(Snapshot, a)
    <3>1. Held(Snapshot, Snapshot) /\ Held(Snapshot, q.known)
        BY <1>1, <1>2 DEF PollInv, Held
    <3>2. q.known # None => Above(Snapshot, q.known)
        BY <3>1 DEF Held
    <3>. QED BY <3>1, <3>2 DEF PollInv
  <2>. HIDE DEF a
  <2>. QED BY <1>1, <2>1, <2>2, <2>3, OnePoll
<1>6. CASE Draw(s)
  <2>1. poll' = [poll EXCEPT ![s] = Idle] /\ UNCHANGED vars /\ Held(Snapshot, shown')
      BY <1>1, <1>6 DEF Draw, PollInv
  <2>. QED BY <1>3, <2>1, OnePoll
<1>7. CASE Fail(s)
  <2>1. poll' = [poll EXCEPT ![s] = Idle] /\ UNCHANGED vars /\ shown' = shown
      BY <1>7 DEF Fail
  <2>. QED BY <1>1, <1>3, <2>1, OnePoll
<1>. QED BY <1>4, <1>5, <1>6, <1>7

LEMMA PageStep ==
    ASSUME TypeOK, TypeOK', PageInv, [StatusNext]_statusVars
    PROVE  PageInv'
<1>1. CASE UNCHANGED page
    BY <1>1, CollectorStep, CollectorKeepsPage
<1>2. CASE \E s \in Polls : Begin(s) \/ Answer(s) \/ Draw(s) \/ Fail(s)
    BY <1>2, PollStep
<1>. QED BY <1>1, <1>2 DEF StatusNext, statusVars, Hide, Break

\* NothingOlderThanKnown: whatever polls overlap, an answer is at least as new as
\* what its poll knew, in every counter and table.
THEOREM NothingOlderCorrect == StatusSpec => []NothingOlderThanKnown
<1>1. PageInv => NothingOlderThanKnown
    BY DEF PageInv, PollInv, Held, NothingOlderThanKnown, AtLeast, Above
<1>2. TypeOK /\ TypeOK' /\ PageInv /\ [StatusNext]_statusVars => PageInv'
    BY PageStep
<1>. QED BY <1>1, <1>2, PageInit, CollectorAlways, PTL DEF StatusSpec

-----------------------------------------------------------------------------
(* Types, of the page and of what it is sent. *)

LEMMA RecentType == ASSUME TypeOK PROVE RecentEvents \in Seq(Event)
<1> DEFINE n == IF recentN > RecentCap THEN RecentCap ELSE recentN
<1>1. RecentCap \in Nat \ {0} /\ recentN \in Nat /\ recent \in [0 .. RecentCap - 1 -> Event]
    BY MetricsConstants DEF TypeOK
<1>2. n \in Nat /\ n <= recentN
    BY <1>1
<1>3. RecentEvents = [i \in 1 .. n |-> recent[(recentN - i) % RecentCap]]
    BY DEF RecentEvents, RecentNewestFirst
<1> HIDE DEF n
<1>4. ASSUME NEW i \in 1 .. n PROVE recent[(recentN - i) % RecentCap] \in Event
  <2>1. recentN - i \in Nat
      BY <1>1, <1>2
  <2>2. (recentN - i) % RecentCap \in 0 .. RecentCap - 1
      BY <1>1, <2>1
  <2>. QED BY <1>1, <2>2
<1>. QED BY <1>2, <1>3, <1>4

Snapshots == UNION {SnapshotsOver(rows) : rows \in SUBSET Repos}

LEMMA SnapshotType == ASSUME TypeOK PROVE Snapshot \in Snapshots
<1>1. durMax \div Micro \in Nat
    BY MicroPositive, Quotient DEF TypeOK
<1>2. Average \in Nat
  <2>1. CASE proxied = 0
      BY <2>1 DEF Average
  <2>2. CASE proxied # 0
    <3>1. durSum \div proxied \in Nat
        BY <2>2, Quotient DEF TypeOK
    <3>. QED BY <2>2, <3>1, MicroPositive, Quotient DEF Average
  <2>. QED BY <2>1, <2>2
<1>3. Rows \in SUBSET Repos /\ [p \in Rows |-> repos[p]] \in [Rows -> Nat]
    BY DEF Rows, TypeOK
<1>4. Snapshot \in SnapshotsOver(Rows)
    BY <1>1, <1>2, <1>3, RecentType DEF TypeOK, Snapshot, SnapshotsOver
<1>. QED BY <1>3, <1>4 DEF Snapshots

Poll == [pc: {"idle", "asked", "answered"}, data: Snapshots \cup {None}, known: Snapshots \cup {None}]

PageTypes ==
    /\ shown \in Snapshots \cup {None}
    /\ poll \in [Polls -> Poll]
    /\ \A s \in Polls : IF poll[s].pc = "answered" THEN poll[s].data \in Snapshots
                        ELSE poll[s].data = None
    /\ failures \in 0 .. 2 /\ live \in {"connecting", "live", "unreachable"}
    /\ visible \in BOOLEAN /\ up \in BOOLEAN
    /\ live = "unreachable" <=> failures = 2

LEMMA PageTyped ==
    ASSUME PageTypes, UNCHANGED <<visible, up>>, NEW s \in Polls, NEW q \in Poll,
           poll' = [poll EXCEPT ![s] = q],
           IF q.pc = "answered" THEN q.data \in Snapshots ELSE q.data = None,
           shown' \in Snapshots \cup {None}, failures' \in 0 .. 2,
           live' \in {"connecting", "live", "unreachable"}, live' = "unreachable" <=> failures' = 2
    PROVE  PageTypes'
<1>1. poll' \in [Polls -> Poll] /\ poll'[s] = q /\ \A t \in Polls \ {s} : poll'[t] = poll[t]
    BY DEF PageTypes
<1>. QED BY <1>1 DEF PageTypes

LEMMA PageTypesStep == TypeOK /\ PageTypes /\ [StatusNext]_statusVars => PageTypes'
<1> SUFFICES ASSUME TypeOK, PageTypes, [StatusNext]_statusVars PROVE PageTypes'
    OBVIOUS
<1>1. CASE UNCHANGED page
    BY <1>1 DEF StatusNext, statusVars, page, Hide, Break, Begin, Answer, Draw, Fail, PageTypes
<1>2. ASSUME NEW s \in Polls, Begin(s) \/ Answer(s) \/ Draw(s) \/ Fail(s) PROVE PageTypes'
  <2>1. poll[s] \in Poll /\ poll[s].known \in Snapshots \cup {None}
      BY DEF PageTypes, Poll
  <2>2. Idle \in Poll /\ Idle.pc = "idle" /\ Idle.data = None
      BY DEF Poll, Idle
  <2>3. IF Idle.pc = "answered" THEN Idle.data \in Snapshots ELSE Idle.data = None
      BY <2>2
  <2>4. CASE Begin(s)
    <3> DEFINE b == [pc |-> "asked", data |-> None, known |-> shown]
    <3>1. poll' = [poll EXCEPT ![s] = b] /\ UNCHANGED <<shown, failures, live, visible, up>>
        BY <2>4 DEF Begin
    <3>2. b \in Poll /\ b.pc = "asked" /\ b.data = None
        BY DEF Poll, PageTypes
    <3> HIDE DEF b
    <3>. QED BY <3>1, <3>2, PageTyped DEF PageTypes
  <2>5. CASE Answer(s)
    <3> DEFINE a == [pc |-> "answered", data |-> Snapshot, known |-> poll[s].known]
    <3>1. poll' = [poll EXCEPT ![s] = a] /\ UNCHANGED <<shown, failures, live, visible, up>>
        BY <2>5 DEF Answer
    <3>2. a \in Poll /\ a.pc = "answered" /\ a.data \in Snapshots
        BY <2>1, SnapshotType DEF Poll
    <3> HIDE DEF a
    <3>. QED BY <3>1, <3>2, PageTyped DEF PageTypes
  <2>6. CASE Draw(s)
    <3>1. /\ poll' = [poll EXCEPT ![s] = Idle] /\ UNCHANGED <<visible, up>>
          /\ shown' \in Snapshots /\ failures' = 0 /\ live' = "live"
        BY <2>6 DEF Draw, PageTypes
    <3>2. /\ failures' \in 0 .. 2 /\ live' \in {"connecting", "live", "unreachable"}
          /\ live' = "unreachable" <=> failures' = 2
        BY <3>1
    <3>3. shown' \in Snapshots \cup {None}
        BY <3>1
    <3>4. UNCHANGED <<visible, up>> /\ poll' = [poll EXCEPT ![s] = Idle]
        BY <3>1
    <3>. QED BY <2>2, <2>3, <3>2, <3>3, <3>4, PageTyped
  <2>7. CASE Fail(s)
    <3>1. /\ poll' = [poll EXCEPT ![s] = Idle] /\ UNCHANGED <<shown, visible, up>>
          /\ failures' = IF failures < 2 THEN failures + 1 ELSE failures
          /\ live' = IF failures + 1 > 1 THEN "unreachable" ELSE live
        BY <2>7 DEF Fail
    <3>2. /\ failures' \in 0 .. 2 /\ live' \in {"connecting", "live", "unreachable"}
          /\ live' = "unreachable" <=> failures' = 2
        BY <3>1 DEF PageTypes
    <3>3. shown' \in Snapshots \cup {None}
        BY <3>1 DEF PageTypes
    <3>4. UNCHANGED <<visible, up>> /\ poll' = [poll EXCEPT ![s] = Idle]
        BY <3>1
    <3>. QED BY <2>2, <2>3, <3>2, <3>3, <3>4, PageTyped
  <2>. QED BY <1>2, <2>4, <2>5, <2>6, <2>7
<1>. QED BY <1>1, <1>2 DEF StatusNext, statusVars, Hide, Break

\* StatusTypeOK: the page draws nothing but snapshots, and its badge follows its
\* counter of failures, for every traffic and any number of polls.
THEOREM StatusTypeCorrect == StatusSpec => []StatusTypeOK
<1>1. StatusInit => PageTypes
  <2> SUFFICES ASSUME StatusInit PROVE PageTypes
      OBVIOUS
  <2>1. Idle \in Poll /\ Idle.pc = "idle" /\ Idle.data = None
      BY DEF Poll, Idle
  <2>. QED BY <2>1 DEF StatusInit, PageTypes
<1>2. TypeOK /\ PageTypes => StatusTypeOK
  <2> SUFFICES ASSUME TypeOK, PageTypes PROVE StatusTypeOK
      OBVIOUS
  <2>1. \A d \in Snapshots : IsSnapshot(d)
      BY DEF Snapshots, IsSnapshot
  <2>2. poll \in [Polls -> Poll]
      BY DEF PageTypes
  <2>3. poll = [s \in Polls |-> poll[s]]
      BY <2>2
  <2>4. ASSUME NEW s \in Polls
        PROVE  poll[s] = [pc |-> poll[s].pc, data |-> poll[s].data, known |-> poll[s].known]
      BY <2>2 DEF Poll
  <2>5. poll = [s \in Polls |-> [pc |-> poll[s].pc, data |-> poll[s].data, known |-> poll[s].known]]
      BY <2>3, <2>4
  <2>6. ASSUME NEW s \in Polls
        PROVE  /\ poll[s].pc \in {"idle", "asked", "answered"}
               /\ poll[s].known \in Snapshots \cup {None}
      BY <2>2 DEF Poll
  <2>. QED BY <2>1, <2>5, <2>6 DEF PageTypes, StatusTypeOK
<1>. QED BY <1>1, <1>2, PageTypesStep, CollectorAlways, PTL DEF StatusSpec

-----------------------------------------------------------------------------
(* The collector, as the page reads it. *)

\* No reader disturbs the collector: it runs under the page as Metrics says.
THEOREM CollectorUndisturbed == StatusSpec => Spec
<1>1. StatusInit => Init
    BY DEF StatusInit
<1>. QED BY <1>1, CollectorStep, PTL DEF StatusSpec, Spec

\* The numbers of one answer belong together.
AddsUp(d) ==
    /\ d.total = d.proxied + d.denied + d.preflight
    /\ SumOf(d.status) = d.total /\ SumOf(d.reasons) = d.denied
    /\ SumOf(d.kinds) = d.proxied + d.preflight

PageSums ==
    /\ poll = [s \in Polls |-> poll[s]]
    /\ shown # None => AddsUp(shown)
    /\ \A s \in Polls : poll[s].data # None => AddsUp(poll[s].data)

\* However many requests finish while it polls and in whatever order its answers
\* come, the page never shows numbers of different moments beside each other
\* (metrics.go:28-30): outcomes, status classes, reasons and kinds add up.
THEOREM PageAddsUp == StatusSpec => [](shown # None => AddsUp(shown))
<1>1. StatusInit => PageSums
    BY DEF StatusInit, PageSums, Idle
<1>2. SnapshotAddsUp => AddsUp(Snapshot)
    BY DEF SnapshotAddsUp, OutcomesAddUp, TablesAddUp, AddsUp, Snapshot
<1>3. SnapshotAddsUp /\ PageSums /\ [StatusNext]_statusVars => PageSums'
  <2> SUFFICES ASSUME SnapshotAddsUp, PageSums, [StatusNext]_statusVars PROVE PageSums'
      OBVIOUS
  <2>1. CASE UNCHANGED page
      BY <2>1 DEF page, PageSums
  <2>2. ASSUME NEW s \in Polls, NEW q, poll' = [poll EXCEPT ![s] = q],
               q.data # None => AddsUp(q.data), shown' # None => AddsUp(shown')
        PROVE  PageSums'
    <3>1. poll' = [t \in Polls |-> IF t = s THEN q ELSE poll[t]]
        BY <2>2 DEF PageSums
    <3>2. \A t \in Polls : poll'[t].data # None => AddsUp(poll'[t].data)
        BY <2>2, <3>1 DEF PageSums
    <3>. QED BY <2>2, <3>1, <3>2 DEF PageSums
  <2>3. ASSUME NEW s \in Polls, Begin(s) \/ Draw(s) \/ Fail(s) PROVE PageSums'
    <3>1. /\ (shown' # None => AddsUp(shown'))
          /\ \E q : poll' = [poll EXCEPT ![s] = q] /\ q.data = None
        BY <2>3 DEF Begin, Draw, Fail, Idle, PageSums
    <3>. QED BY <2>2, <3>1
  <2>4. ASSUME NEW s \in Polls, Answer(s) PROVE PageSums'
    <3> DEFINE a == [pc |-> "answered", data |-> Snapshot, known |-> poll[s].known]
    <3>1. poll' = [poll EXCEPT ![s] = a] /\ shown' = shown
        BY <2>4 DEF Answer
    <3>2. AddsUp(a.data)
        BY <1>2
    <3> HIDE DEF a
    <3>. QED BY <2>2, <3>1, <3>2 DEF PageSums
  <2>. QED BY <2>1, <2>3, <2>4 DEF StatusNext, statusVars, Hide, Break
<1>4. PageSums => (shown # None => AddsUp(shown))
    BY DEF PageSums
<1>. QED BY <1>1, <1>3, <1>4, CollectorUndisturbed, SnapshotCorrect, PTL DEF StatusSpec
=============================================================================
