---------------------------- MODULE ServerProofs ----------------------------
(***************************************************************************)
(* Theorems on Server: what keeps a request away from GitHub, what the     *)
(* client was sent, what the status page takes, where a redirect leads and *)
(* what an embedded URL stands for, for every set of configurations and    *)
(* any number of requests at once.                                         *)
(***************************************************************************)
EXTENDS Server, Induction, SequenceTheorems

-----------------------------------------------------------------------------
(* The gate, for one configuration and one request. *)

\* The words that decode.
Encoded == DOMAIN Unescape

LEMMA WordDecoded == \A w \in Encoded : Unescape[w] \in Seq(STRING) /\ Unescape[w] # <<>>
BY ServerConstants DEF Encoded

LEMMA FirstWord ==
    ASSUME NEW c \in Configs, NEW a \in Asks, Len(AfterPrefix(c, a)) > 1
    PROVE  \E i \in DOMAIN a.raw : a.raw[i] = Head(AfterPrefix(c, a))
<1>1. PICK p \in Seq(STRING), raw \in Seq(STRING) : p = c.prefix /\ raw = a.raw
    BY ServerConstants
<1>2. PICK n \in Nat, m \in Nat : n = Len(p) /\ m = Len(raw)
    BY <1>1
<1>3. AfterPrefix(c, a) = SubSeq(raw, n + 1, m)
    BY <1>1, <1>2 DEF AfterPrefix
<1>4. n + 1 <= m /\ n + 1 \in 1 .. m /\ Head(SubSeq(raw, n + 1, m)) = raw[n + 1]
    BY <1>2, <1>3
<1>. QED BY <1>1, <1>2, <1>3, <1>4

\* Without the token a request is refused, and so it is on the status page.
LEMMA NoTokenNoEntry ==
    ASSUME NEW c \in Configs, NEW a \in Asks, ~c.anonymous, ~Mentions(a, c.token)
    PROVE  /\ Reason(c, a) # None
           /\ c.statusAuth # "none" => StatusReply(c, a) = Denial
<1>1. ~Equal(c, a.headers.proxy) /\ ~Equal(c, a.headers.user) /\ ~Equal(c, a.headers.pass) /\ ~Equal(c, a.query)
    BY DEF Equal, Mentions
<1>2. ~InHeaders(c, a.headers)
    BY <1>1 DEF InHeaders
<1>3. ~InPath(c, AfterPrefix(c, a))
  <2> DEFINE rest == AfterPrefix(c, a)
  <2>1. SUFFICES ASSUME Len(rest) > 1, NEW i \in DOMAIN a.raw, a.raw[i] = Head(rest)
                 PROVE  ~InPath(c, rest)
      BY FirstWord DEF InPath
  <2> HIDE DEF rest
  <2>2. Head(rest) # c.token
      BY <2>1 DEF Mentions
  <2>3. ASSUME Head(rest) \in DOMAIN Unescape, Len(Unescape[Head(rest)]) = 1
        PROVE  Unescape[Head(rest)][1] # c.token
    <3>1. 1 \in DOMAIN Unescape[Head(rest)]
        BY <2>3, WordDecoded DEF Encoded
    <3>. QED BY <2>1, <2>3, <3>1 DEF Mentions
  <2>. QED BY <2>2, <2>3 DEF InPath, Equal
<1>4. ~Passed(c, a).ok
    BY <1>2, <1>3 DEF Passed, Check
<1>5. Reason(c, a) # None
    BY <1>4, ServerConstants DEF Reason, Reasons
<1>6. ~InPath(c, <<"">>)
    BY DEF InPath
<1>7. ~Check(c, a.headers, <<"">>).ok
    BY <1>2, <1>6 DEF Check
<1>8. c.statusAuth # "none" => StatusReply(c, a) = Denial
    BY <1>1, <1>7 DEF StatusReply, StatusAllowed
<1>. QED BY <1>5, <1>8

\* What is not refused is a relayed method or OPTIONS, for what the lists admit.
LEMMA ServedIsAdmitted ==
    ASSUME NEW a \in Asks, cfg \in Configs, Reason(cfg, a) = None
    PROVE  a.method \in Served /\ NameOf(TargetOf(cfg, a)) \in Admitted
<1> DEFINE t == TargetOf(cfg, a)
<1>1. a.method \in Served /\ ListsAllow(cfg, t)
    BY ServerConstants DEF Reason, Reasons
<1>2. NameOf(t) \in Repositories /\ NameOf(t).owner = t.owner /\ NameOf(t).repo = t.repo
    BY ServerConstants DEF NameOf
<1> HIDE DEF t
<1>3. cfg.allow # {} => \E rule \in cfg.allow : rule.owner \in {"*", t.owner} /\ rule.repo \in {"", t.repo}
    BY <1>1 DEF ListsAllow, Matches, Covers
<1>4. ~ \E rule \in cfg.deny : rule.owner \in {"*", t.owner} /\ rule.repo \in {"", t.repo}
    BY <1>1 DEF ListsAllow, Matches, Covers
<1>5. NameOf(t) \in Admitted
    BY <1>2, <1>3, <1>4 DEF Admitted
<1>. QED BY <1>1, <1>5 DEF t

-----------------------------------------------------------------------------
(* The invariant: one slot, whose request is a and whose Recorder is q, with *)
(* what the handler replied, where the exchange is and what it sent.         *)

Refused(a) == ~OnStatusPath(cfg, a) /\ Reason(cfg, a) # None

Slot(a, q, answer, at, sent) ==
    /\ a \in Asks \cup {NoAsk}
    /\ a = NoAsk => answer = NoReply /\ at = "idle" /\ q.pc = "idle"
    /\ at = "idle" => sent = <<>>
    /\ at # "idle" => a # NoAsk /\ Reason(cfg, a) = None /\ a.method # "OPTIONS"
    /\ q.pc = "idle" => q.kind = None
    /\ q.kind # None => Reason(cfg, a) = None
    /\ a # NoAsk /\ OnStatusPath(cfg, a) => answer = StatusReply(cfg, a) /\ at = "idle" /\ q.pc = "idle"
    /\ a # NoAsk /\ Refused(a) => answer \in {NoReply, Denial} /\ (q.pc # "open" => answer = Denial)

SlotOf(r) == Slot(asked[r], rec[r], reply[r], pc[r], trail[r])

ServerInv ==
    /\ cfg \in Configs
    /\ asked = [r \in Requests |-> asked[r]] /\ reply = [r \in Requests |-> reply[r]]
    /\ rec = [r \in Requests |-> rec[r]] /\ pc = [r \in Requests |-> pc[r]]
    /\ trail = [r \in Requests |-> trail[r]]
    /\ \A r \in Requests : SlotOf(r)

LEMMA Initially == Init => ServerInv
<1> SUFFICES ASSUME Init PROVE ServerInv
    OBVIOUS
<1>1. /\ cfg \in Configs /\ asked = [r \in Requests |-> NoAsk] /\ reply = [r \in Requests |-> NoReply]
      /\ rec = [r \in Requests |-> M!IdleRecorder]
      /\ pc = [r \in Requests |-> "idle"] /\ trail = [r \in Requests |-> <<>>]
    BY DEF Init, M!Init, P!Init
<1>2. Slot(NoAsk, M!IdleRecorder, NoReply, "idle", <<>>)
    BY DEF Slot, M!IdleRecorder
<1>. QED BY <1>1, <1>2 DEF ServerInv, SlotOf

\* A step of slot r, which leaves the others alone.
Alone(r) ==
    /\ cfg' = cfg
    /\ asked' = [x \in Requests |-> asked'[x]] /\ reply' = [x \in Requests |-> reply'[x]]
    /\ rec' = [x \in Requests |-> rec'[x]] /\ pc' = [x \in Requests |-> pc'[x]]
    /\ trail' = [x \in Requests |-> trail'[x]]
    /\ \A x \in Requests \ {r} :
          /\ asked'[x] = asked[x] /\ rec'[x] = rec[x] /\ reply'[x] = reply[x]
          /\ pc'[x] = pc[x] /\ trail'[x] = trail[x]

LEMMA OneSlot ==
    ASSUME ServerInv, NEW r \in Requests, Alone(r),
           Slot(asked'[r], rec'[r], reply'[r], pc'[r], trail'[r])
    PROVE  ServerInv'
<1>1. ASSUME NEW x \in Requests PROVE SlotOf(x)'
  <2>1. CASE x = r
      BY <2>1 DEF SlotOf, Slot, Refused, Alone
  <2>2. CASE x # r
    <3>1. /\ asked'[x] = asked[x] /\ rec'[x] = rec[x] /\ reply'[x] = reply[x] /\ pc'[x] = pc[x]
          /\ trail'[x] = trail[x] /\ SlotOf(x) /\ cfg' = cfg
        BY <2>2 DEF ServerInv, Alone
    <3>. QED BY <3>1 DEF SlotOf, Slot, Refused
  <2>. QED BY <2>1, <2>2
<1>. QED BY <1>1 DEF ServerInv, Alone

-----------------------------------------------------------------------------
(* Steps of the handler. *)

LEMMA ArrivalStep ==
    ASSUME ServerInv, NEW r \in Requests, NEW a \in Asks, ServeStatus(r, a) \/ Arrive(r, a)
    PROVE  ServerInv'
<1>1. /\ asked[r] = NoAsk /\ asked' = [asked EXCEPT ![r] = a] /\ cfg' = cfg /\ pc' = pc /\ trail' = trail
      /\ a # NoAsk
    BY ServerConstants DEF ServeStatus, Arrive, Arriving, exchangeVars
<1>2. reply[r] = NoReply /\ pc[r] = "idle" /\ rec[r].pc = "idle" /\ trail[r] = <<>>
      /\ rec[r].kind = None
    BY <1>1 DEF ServerInv, SlotOf, Slot
<1>3. CASE ServeStatus(r, a)
  <2>1. OnStatusPath(cfg, a) /\ reply' = [reply EXCEPT ![r] = StatusReply(cfg, a)] /\ rec' = rec
      BY <1>3 DEF ServeStatus, collectorVars
  <2>2. Slot(a, rec[r], StatusReply(cfg, a), "idle", <<>>)
      BY <1>1, <1>2, <2>1 DEF Slot, Refused
  <2>3. Alone(r) /\ asked'[r] = a /\ reply'[r] = StatusReply(cfg, a)
      BY <1>1, <2>1 DEF Alone, ServerInv
  <2>. QED BY <1>1, <1>2, <2>1, <2>2, <2>3, OneSlot
<1>4. CASE Arrive(r, a)
  <2> DEFINE q == [M!IdleRecorder EXCEPT !.pc = "open", !.method = a.method]
  <2>1. ~OnStatusPath(cfg, a) /\ reply' = reply /\ rec' = [rec EXCEPT ![r] = q]
      BY <1>4 DEF Arrive, M!Start
  <2>2. q.pc = "open" /\ q.kind = None
      BY DEF M!IdleRecorder
  <2> HIDE DEF q
  <2>3. Slot(a, q, NoReply, "idle", <<>>)
      BY <1>1, <2>1, <2>2 DEF Slot, Refused
  <2>4. Alone(r) /\ asked'[r] = a /\ rec'[r] = q
      BY <1>1, <2>1 DEF Alone, ServerInv
  <2>. QED BY <1>1, <1>2, <2>1, <2>3, <2>4, OneSlot
<1>. QED BY <1>3, <1>4

\* What holds of a slot whose handler serves it.
LEMMA ServingSlot ==
    ASSUME ServerInv, NEW r \in Requests, Serving(r)
    PROVE  /\ SlotOf(r) /\ asked[r] \in Asks /\ asked[r] # NoAsk /\ ~OnStatusPath(cfg, asked[r])
           /\ pc[r] = "idle" /\ reply[r] = NoReply /\ rec[r].pc = "open"
<1>1. SlotOf(r) /\ pc[r] = "idle" /\ reply[r] = NoReply /\ rec[r].pc = "open"
    BY DEF Serving, ServerInv
<1>. QED BY <1>1 DEF SlotOf, Slot

LEMMA RefuseStep == ASSUME ServerInv, NEW r \in Requests, Refuse(r) PROVE ServerInv'
<1> DEFINE q == [rec[r] EXCEPT !.reason = Reason(cfg, asked[r])]
<1>1. Serving(r) /\ Reason(cfg, asked[r]) # None
    BY DEF Refuse
<1>2. /\ rec' = [rec EXCEPT ![r] = q] /\ reply' = [reply EXCEPT ![r] = Denial]
      /\ UNCHANGED <<cfg, asked, pc, trail>>
    BY DEF Refuse, Deny, M!Deny, exchangeVars
<1>3. q.pc = rec[r].pc /\ q.kind = rec[r].kind
    OBVIOUS
<1> HIDE DEF q
<1>4. Slot(asked[r], q, Denial, pc[r], trail[r])
    BY <1>1, <1>3, ServingSlot DEF SlotOf, Slot, Refused
<1>5. Alone(r) /\ rec'[r] = q /\ reply'[r] = Denial
    BY <1>2 DEF Alone, ServerInv
<1>. QED BY <1>2, <1>4, <1>5, OneSlot

LEMMA ResolveStep == ASSUME ServerInv, NEW r \in Requests, Resolve(r) PROVE ServerInv'
<1>1. Serving(r) /\ Reason(cfg, asked[r]) = None
    BY DEF Resolve
<1>2. PICK kind, repo : M!Target(r, kind, repo) /\ UNCHANGED <<cfg, asked, reply, pc, trail>>
    BY DEF Resolve, own, exchangeVars
<1> DEFINE q == [rec[r] EXCEPT !.kind = kind, !.repo = repo]
<1>3. rec' = [rec EXCEPT ![r] = q]
    BY <1>2 DEF M!Target
<1>4. q.pc = rec[r].pc
    OBVIOUS
<1> HIDE DEF q
<1>5. Slot(asked[r], q, reply[r], pc[r], trail[r])
    BY <1>1, <1>4, ServingSlot DEF SlotOf, Slot, Refused
<1>6. Alone(r) /\ rec'[r] = q
    BY <1>2, <1>3 DEF Alone, ServerInv
<1>. QED BY <1>2, <1>5, <1>6, OneSlot

LEMMA AnswerPreflightStep == ASSUME ServerInv, NEW r \in Requests, AnswerPreflight(r) PROVE ServerInv'
<1> DEFINE q == [rec[r] EXCEPT !.options = TRUE]
<1>1. Serving(r) /\ rec[r].kind # None
    BY DEF AnswerPreflight
<1>2. /\ rec' = [rec EXCEPT ![r] = q] /\ reply' = [reply EXCEPT ![r] = PreflightReply]
      /\ UNCHANGED <<cfg, asked, pc, trail>>
    BY DEF AnswerPreflight, M!Preflight, exchangeVars
<1>3. q.pc = rec[r].pc /\ q.kind = rec[r].kind
    OBVIOUS
<1> HIDE DEF q
<1>4. Slot(asked[r], q, PreflightReply, pc[r], trail[r])
    BY <1>1, <1>3, ServingSlot DEF SlotOf, Slot, Refused
<1>5. Alone(r) /\ rec'[r] = q /\ reply'[r] = PreflightReply
    BY <1>2 DEF Alone, ServerInv
<1>. QED BY <1>2, <1>4, <1>5, OneSlot

LEMMA ForwardStep == ASSUME ServerInv, NEW r \in Requests, Forward(r) PROVE ServerInv'
<1>1. Serving(r) /\ rec[r].kind # None /\ asked[r].method # "OPTIONS"
    BY DEF Forward
<1>2. PICK host, header : trail' = [trail EXCEPT ![r] = Append(@, [url |-> [scheme |-> "https", host |-> host], header |-> header])]
    BY DEF Forward, P!Begin, P!Send
<1> DEFINE sent == Append(trail[r], [url |-> [scheme |-> "https", host |-> host], header |-> header])
<1>3. /\ trail' = [trail EXCEPT ![r] = sent] /\ pc' = [pc EXCEPT ![r] = "sent"]
      /\ UNCHANGED <<cfg, asked, reply, rec>>
    BY <1>2 DEF Forward, P!Begin, P!Send, own, collectorVars
<1> HIDE DEF sent
<1>4. Slot(asked[r], rec[r], reply[r], "sent", sent)
    BY <1>1, ServingSlot DEF SlotOf, Slot, Refused
<1>5. Alone(r) /\ trail'[r] = sent /\ pc'[r] = "sent"
    BY <1>3 DEF Alone, ServerInv
<1>. QED BY <1>3, <1>4, <1>5, OneSlot

LEMMA CloseStep == ASSUME ServerInv, NEW r \in Requests, Close(r) PROVE ServerInv'
<1>1. /\ rec[r].pc = "open" /\ (reply[r] # NoReply \/ pc[r] = "done")
      /\ UNCHANGED <<cfg, asked, reply, pc, trail>>
    BY DEF Close, M!ReadClock, Returned, own, exchangeVars
<1> DEFINE q == [rec[r] EXCEPT !.pc = "ending",
                               !.fin = [status |-> cw[r].status,
                                        bytes |-> IF cw[r].written < 0 THEN 0 ELSE cw[r].written,
                                        d |-> 1, now |-> clock]]
<1>2. rec' = [rec EXCEPT ![r] = q]
    BY DEF Close, M!ReadClock
<1>3. q.kind = rec[r].kind /\ q.pc = "ending"
    BY <1>1
<1> HIDE DEF q
<1>4. Slot(asked[r], q, reply[r], pc[r], trail[r])
    BY <1>1, <1>3 DEF ServerInv, SlotOf, Slot, Refused
<1>5. Alone(r) /\ rec'[r] = q
    BY <1>1, <1>2 DEF Alone, ServerInv
<1>. QED BY <1>1, <1>4, <1>5, OneSlot

LEMMA RecordStep == ASSUME ServerInv, NEW r \in Requests, Record(r) PROVE ServerInv'
<1>1. rec[r].pc = "ending" /\ rec' = [rec EXCEPT ![r] = M!IdleRecorder]
      /\ UNCHANGED <<cfg, asked, reply, pc, trail>>
    BY DEF Record, M!Finish, exchangeVars
<1>2. M!IdleRecorder.pc = "idle" /\ M!IdleRecorder.kind = None
    BY DEF M!IdleRecorder
<1>3. Slot(asked[r], M!IdleRecorder, reply[r], pc[r], trail[r])
    BY <1>1, <1>2 DEF ServerInv, SlotOf, Slot, Refused
<1>4. Alone(r) /\ rec'[r] = M!IdleRecorder
    BY <1>1 DEF Alone, ServerInv
<1>. QED BY <1>1, <1>3, <1>4, OneSlot

-----------------------------------------------------------------------------
(* Steps of the exchange: they move pc and trail, never what was asked. *)

LEMMA Moved ==
    ASSUME ServerInv, NEW r \in Requests, pc[r] # "idle",
           UNCHANGED <<cfg, asked, reply, rec>>,
           NEW at, at # "idle", pc' = [pc EXCEPT ![r] = at],
           NEW sent, trail' = [trail EXCEPT ![r] = sent]
    PROVE  ServerInv'
<1>1. Slot(asked[r], rec[r], reply[r], at, sent)
    BY DEF ServerInv, SlotOf, Slot, Refused
<1>2. Alone(r) /\ trail'[r] = sent /\ pc'[r] = at
    BY DEF Alone, ServerInv
<1>. QED BY <1>1, <1>2, OneSlot

LEMMA Stayed ==
    ASSUME ServerInv, UNCHANGED <<cfg, asked, reply, rec, pc, trail>>
    PROVE  ServerInv'
BY DEF ServerInv, SlotOf, Slot, Refused

LEMMA RelayStep == ASSUME ServerInv, NEW r \in Requests, Relay(r) PROVE ServerInv'
<1>1. pc[r] # "idle" /\ UNCHANGED <<cfg, asked, reply, rec>>
    BY DEF Relay, Relayed, collectorVars
<1>2. trail = [trail EXCEPT ![r] = trail[r]]
    BY DEF ServerInv
<1>3. CASE P!Upload(r) \/ P!Informational(r) \/ P!CopyChunk(r) \/ P!Hangup(r)
    BY <1>1, <1>3, Stayed DEF P!Upload, P!Informational, P!CopyChunk, P!Hangup
<1>4. CASE P!Answered(r)
  <2>1. pc' = [pc EXCEPT ![r] = "received"] /\ trail' = trail
      BY <1>4 DEF P!Answered, P!Respond
  <2>. QED BY <1>1, <1>2, <2>1, Moved
<1>5. CASE P!TransportError(r) \/ P!HeaderTimeout(r) \/ P!Cancelled(r) \/ P!RefuseHop(r)
  <2>1. pc' = [pc EXCEPT ![r] = "failed"] /\ trail' = trail
      BY <1>5 DEF P!TransportError, P!HeaderTimeout, P!Cancelled, P!RefuseHop
  <2>. QED BY <1>1, <1>2, <2>1, Moved
<1>6. CASE P!ReturnResponse(r)
  <2>1. pc' = [pc EXCEPT ![r] = "returned"] /\ trail' = trail
      BY <1>6 DEF P!ReturnResponse
  <2>. QED BY <1>1, <1>2, <2>1, Moved
<1>7. CASE P!FollowHop(r)
  <2> DEFINE q == P!NextRequest(r)
             sent == Append(trail[r], [url |-> q.url, header |-> q.header])
  <2>1. pc' = [pc EXCEPT ![r] = "sent"]
      BY <1>7 DEF P!FollowHop, P!Send
  <2>2. P!Send(r, q)
      BY <1>7 DEF P!FollowHop
  <2> HIDE DEF q
  <2>3. trail' = [trail EXCEPT ![r] = sent]
      BY <2>2 DEF P!Send
  <2> HIDE DEF sent
  <2>. QED BY <1>1, <2>1, <2>3, Moved
<1>8. CASE P!Deliver(r) \/ P!DeliverOversized(r)
  <2>1. pc' = [pc EXCEPT ![r] = "streaming"] /\ trail' = trail
      BY <1>8 DEF P!Deliver, P!DeliverOversized
  <2>. QED BY <1>1, <1>2, <2>1, Moved
<1>9. CASE P!FinishCopy(r) \/ P!AbortCopy(r) \/ P!HandleError(r)
  <2>1. pc' = [pc EXCEPT ![r] = "done"] /\ trail' = trail
      BY <1>9 DEF P!FinishCopy, P!AbortCopy, P!End, P!HandleError
  <2>. QED BY <1>1, <1>2, <2>1, Moved
<1>10. \A method, host, names : ~P!Begin(r, method, host, names)
    BY <1>1 DEF P!Begin
<1>. QED BY <1>3, <1>4, <1>5, <1>6, <1>7, <1>8, <1>9, <1>10 DEF Relay, P!Step

-----------------------------------------------------------------------------
LEMMA NextStep == ServerInv /\ [Next]_vars => ServerInv'
<1> SUFFICES ASSUME ServerInv, [Next]_vars PROVE ServerInv'
    OBVIOUS
<1>1. CASE UNCHANGED vars
    BY <1>1, Stayed DEF vars, own, collectorVars, exchangeVars
<1>2. CASE AllOver
    BY <1>2, Stayed DEF AllOver, vars, own, collectorVars, exchangeVars
<1>3. ASSUME NEW r \in Requests, NEW a \in Asks, ServeStatus(r, a) \/ Arrive(r, a) PROVE ServerInv'
    BY <1>3, ArrivalStep
<1>4. ASSUME NEW r \in Requests, Handle(r) PROVE ServerInv'
    BY <1>4, RefuseStep, ResolveStep, AnswerPreflightStep, ForwardStep, CloseStep, RecordStep
       DEF Handle
<1>5. ASSUME NEW r \in Requests, Relay(r) PROVE ServerInv'
    BY <1>5, RelayStep
<1>. QED BY <1>1, <1>2, <1>3, <1>4, <1>5 DEF Next

THEOREM ServerInvariant == Spec => []ServerInv
BY Initially, NextStep, PTL DEF Spec

\* Whatever the configurations and the URLs, GitHub hears of a request only for a
\* repository the two lists admit and by a method that is relayed.
THEOREM TrafficCorrect == Spec => []TrafficIsAdmitted
<1>1. ServerInv => TrafficIsAdmitted
  <2> SUFFICES ASSUME ServerInv, NEW r \in Requests, trail[r] # <<>>
               PROVE  /\ asked[r].method \in {"GET", "HEAD", "POST"}
                      /\ NameOf(TargetOf(cfg, asked[r])) \in Admitted
      BY DEF TrafficIsAdmitted
  <2>1. /\ cfg \in Configs /\ asked[r] \in Asks /\ Reason(cfg, asked[r]) = None
        /\ asked[r].method # "OPTIONS"
      BY DEF ServerInv, SlotOf, Slot
  <2>. QED BY <2>1, ServedIsAdmitted DEF Served
<1>. QED BY <1>1, ServerInvariant, PTL

\* Whatever the token and whatever is asked, who does not know the token gets the
\* one answer, and GitHub hears nothing of it.
THEOREM ProbeCorrect == Spec => []ProbeSeesNothing
<1>1. ServerInv => ProbeSeesNothing
  <2> SUFFICES ASSUME ServerInv, NEW r \in Requests, asked[r] # NoAsk, ~cfg.anonymous,
                      ~Mentions(asked[r], cfg.token),
                      ~(OnStatusPath(cfg, asked[r]) /\ cfg.statusAuth = "none")
               PROVE  /\ reply[r] \in {NoReply, Denial}
                      /\ Over(r) => reply[r] = Denial
                      /\ trail[r] = <<>>
      BY DEF ProbeSeesNothing
  <2>1. SlotOf(r) /\ cfg \in Configs
      BY DEF ServerInv
  <2>2. asked[r] \in Asks
      BY <2>1 DEF SlotOf, Slot
  <2>3. /\ Reason(cfg, asked[r]) # None
        /\ cfg.statusAuth # "none" => StatusReply(cfg, asked[r]) = Denial
      BY <2>1, <2>2, NoTokenNoEntry
  <2>. QED BY <2>1, <2>3 DEF SlotOf, Slot, Refused, Over
<1>. QED BY <1>1, ServerInvariant, PTL

-----------------------------------------------------------------------------
(* The counting writer.  The invariant of a slot: a is what it was asked, at  *)
(* where its exchange is, p GitHub's answer, o what the client got of it, w   *)
(* the writer and answer what the handler replied by itself.                  *)

Written == Codes \cup {0, 103, 302, 502}
Answers == {NoReply, Denial, GoNotFound, Page, NoSuchPage, PreflightReply}

HasFields(o) == {"codes", "sent", "ended"} \subseteq DOMAIN o

Counts(o, w, answer) ==
    /\ w.wrote \in BOOLEAN
    /\ w.written = o.sent + answer.sent
    /\ w.wrote <=> o.codes # <<>> \/ answer # NoReply

Account(a, at, p, o, w, answer) ==
    /\ p.code \in Codes \cup {0}
    /\ o.codes \in Seq(Written) /\ o.sent \in Nat /\ answer \in Answers
    /\ HasFields(o)
    /\ a = NoAsk => at = "idle" /\ answer = NoReply
    /\ at = "idle" => o.codes = <<>> /\ o.loc.base # "self"
    /\ at \notin {"streaming", "done"} => o.sent = 0
    /\ at = "streaming" => o.codes # <<>>
    /\ at # "idle" => answer = NoReply
    /\ ~(a # NoAsk /\ OnStatusPath(cfg, a)) => Counts(o, w, answer)

AccountOf(r) == Account(asked[r], pc[r], resp[r], out[r], cw[r], reply[r])

AccountInv ==
    /\ asked = [r \in Requests |-> asked[r]] /\ reply = [r \in Requests |-> reply[r]]
    /\ pc = [r \in Requests |-> pc[r]] /\ resp = [r \in Requests |-> resp[r]]
    /\ out = [r \in Requests |-> out[r]] /\ cw = [r \in Requests |-> cw[r]]
    /\ \A r \in Requests : AccountOf(r)

LEMMA InitiallyCounted == Init => AccountInv
<1> SUFFICES ASSUME Init PROVE AccountInv
    OBVIOUS
<1>1. /\ asked = [r \in Requests |-> NoAsk] /\ reply = [r \in Requests |-> NoReply]
      /\ pc = [r \in Requests |-> "idle"] /\ resp = [r \in Requests |-> P!NoResponse]
      /\ out = [r \in Requests |-> P!NothingOut] /\ cw = [r \in Requests |-> NewWriter]
    BY DEF Init, P!Init
<1>2. Account(NoAsk, "idle", P!NoResponse, P!NothingOut, NewWriter, NoReply)
    BY DEF Account, Counts, P!NoResponse, P!NothingOut, NewWriter, NoReply, Answers, HasFields
<1>. QED BY <1>1, <1>2 DEF AccountInv, AccountOf

\* A step of slot r that leaves the other accounts alone.
Aside(r) ==
    /\ cfg' = cfg
    /\ asked' = [x \in Requests |-> asked'[x]] /\ reply' = [x \in Requests |-> reply'[x]]
    /\ pc' = [x \in Requests |-> pc'[x]] /\ resp' = [x \in Requests |-> resp'[x]]
    /\ out' = [x \in Requests |-> out'[x]] /\ cw' = [x \in Requests |-> cw'[x]]
    /\ \A x \in Requests \ {r} :
          /\ asked'[x] = asked[x] /\ reply'[x] = reply[x] /\ pc'[x] = pc[x]
          /\ resp'[x] = resp[x] /\ out'[x] = out[x] /\ cw'[x] = cw[x]

LEMMA OneAccount ==
    ASSUME AccountInv, NEW r \in Requests, Aside(r),
           Account(asked'[r], pc'[r], resp'[r], out'[r], cw'[r], reply'[r])
    PROVE  AccountInv'
<1>1. ASSUME NEW x \in Requests PROVE AccountOf(x)'
  <2>1. CASE x = r
      BY <2>1 DEF AccountOf, Account, Counts, Aside
  <2>2. CASE x # r
    <3>1. /\ asked'[x] = asked[x] /\ reply'[x] = reply[x] /\ pc'[x] = pc[x] /\ resp'[x] = resp[x]
          /\ out'[x] = out[x] /\ cw'[x] = cw[x] /\ AccountOf(x) /\ cfg' = cfg
        BY <2>2 DEF AccountInv, Aside
    <3>. QED BY <3>1 DEF AccountOf, Account, Counts
  <2>. QED BY <2>1, <2>2
<1>. QED BY <1>1 DEF AccountInv, Aside

LEMMA SameAccounts ==
    ASSUME AccountInv, UNCHANGED <<cfg, asked, reply, cw, pc, resp, out>>
    PROVE  AccountInv'
BY DEF AccountInv, AccountOf, Account, Counts

-----------------------------------------------------------------------------
(* Steps of the handler. *)

LEMMA ArrivalCounted ==
    ASSUME AccountInv, NEW r \in Requests, NEW a \in Asks, ServeStatus(r, a) \/ Arrive(r, a)
    PROVE  AccountInv'
<1>1. /\ asked[r] = NoAsk /\ asked' = [asked EXCEPT ![r] = a] /\ a # NoAsk
      /\ cfg' = cfg /\ pc' = pc /\ resp' = resp /\ out' = out /\ cw' = cw
    BY ServerConstants DEF ServeStatus, Arrive, Arriving, exchangeVars
<1>2. CASE ServeStatus(r, a)
  <2>1. OnStatusPath(cfg, a) /\ reply' = [reply EXCEPT ![r] = StatusReply(cfg, a)]
      BY <1>2 DEF ServeStatus
  <2>2. StatusReply(cfg, a) \in Answers
      BY DEF StatusReply, StatusPage, Answers
  <2>3. Account(a, pc[r], resp[r], out[r], cw[r], StatusReply(cfg, a))
      BY <1>1, <2>1, <2>2 DEF AccountInv, AccountOf, Account
  <2>4. Aside(r) /\ asked'[r] = a /\ reply'[r] = StatusReply(cfg, a)
      BY <1>1, <2>1 DEF Aside, AccountInv
  <2>. QED BY <1>1, <2>3, <2>4, OneAccount
<1>3. CASE Arrive(r, a)
  <2>1. ~OnStatusPath(cfg, a) /\ reply' = reply
      BY <1>3 DEF Arrive
  <2>2. Account(a, pc[r], resp[r], out[r], cw[r], reply[r])
      BY <1>1, <2>1 DEF AccountInv, AccountOf, Account
  <2>3. Aside(r) /\ asked'[r] = a
      BY <1>1, <2>1 DEF Aside, AccountInv
  <2>. QED BY <1>1, <2>1, <2>2, <2>3, OneAccount
<1>. QED BY <1>2, <1>3

\* The handler answers by itself: it is the first to write.
LEMMA ReplyCounted ==
    ASSUME AccountInv, NEW r \in Requests, Serving(r), asked[r] # NoAsk, NEW answer \in {Denial, PreflightReply},
           UNCHANGED <<cfg, asked, pc, resp, out>>, reply' = [reply EXCEPT ![r] = answer],
           NEW w, cw' = [cw EXCEPT ![r] = w], w.wrote = TRUE,
           w.written = cw[r].written + answer.sent
    PROVE  AccountInv'
<1>1. AccountOf(r) /\ pc[r] = "idle" /\ reply[r] = NoReply
    BY DEF AccountInv, Serving
<1>2. NoReply.sent = 0 /\ answer # NoReply /\ answer.sent \in {0, 1} /\ answer \in Answers
    BY DEF NoReply, Denial, PreflightReply, Answers
<1>3. Counts(out[r], cw[r], NoReply) => Counts(out[r], w, answer)
  <2>1. out[r].sent \in Nat
      BY <1>1 DEF AccountOf, Account
  <2>2. cw[r].written = out[r].sent + 0 => w.written = out[r].sent + answer.sent
      BY <1>2, <2>1
  <2>. QED BY <1>2, <2>2, Zenon DEF Counts
<1>5. Account(asked[r], pc[r], resp[r], out[r], w, answer)
    BY <1>1, <1>2, <1>3 DEF AccountOf, Account
<1>6. Aside(r) /\ reply'[r] = answer /\ cw'[r] = w
    BY DEF Aside, AccountInv
<1>. QED BY <1>5, <1>6, OneAccount

LEMMA HandlerCounted ==
    ASSUME ServerInv, AccountInv, NEW r \in Requests, Handle(r) PROVE AccountInv'
<1>1. CASE Refuse(r)
  <2> DEFINE h == WriteHeader(cw[r], Denial.code)
             w == Write(h, Denial.sent)
  <2>1. Serving(r) /\ asked[r] # NoAsk
      BY <1>1, ServingSlot DEF Refuse
  <2>2. /\ UNCHANGED <<cfg, asked, pc, resp, out>> /\ reply' = [reply EXCEPT ![r] = Denial]
        /\ cw' = [cw EXCEPT ![r] = w]
      BY <1>1 DEF Refuse, Deny, exchangeVars
  <2>3. cw[r].wrote \in BOOLEAN
      BY <2>1, ServingSlot DEF AccountInv, AccountOf, Account, Counts
  <2>4. h.wrote = TRUE /\ h.written = cw[r].written
      BY <2>3 DEF WriteHeader
  <2> HIDE DEF h
  <2>5. w.wrote = TRUE /\ w.written = cw[r].written + Denial.sent
      BY <2>4 DEF Write
  <2> HIDE DEF w
  <2>. QED BY <2>1, <2>2, <2>5, ReplyCounted
<1>2. CASE AnswerPreflight(r)
  <2> DEFINE w == WriteHeader(cw[r], PreflightReply.code)
  <2>1. Serving(r) /\ asked[r] # NoAsk
      BY <1>2, ServingSlot DEF AnswerPreflight
  <2>2. /\ UNCHANGED <<cfg, asked, pc, resp, out>> /\ reply' = [reply EXCEPT ![r] = PreflightReply]
        /\ cw' = [cw EXCEPT ![r] = w]
      BY <1>2 DEF AnswerPreflight, exchangeVars
  <2>3. cw[r].wrote \in BOOLEAN /\ cw[r].written \in Nat
    <3>1. Counts(out[r], cw[r], NoReply) /\ out[r].sent \in Nat
        BY <2>1, ServingSlot DEF AccountInv, AccountOf, Account, Serving
    <3>. QED BY <3>1 DEF Counts, NoReply
  <2>4. w.wrote = TRUE /\ w.written = cw[r].written
      BY <2>3 DEF WriteHeader
  <2> HIDE DEF w
  <2>5. w.written = cw[r].written + PreflightReply.sent
      BY <2>3, <2>4 DEF PreflightReply
  <2>. QED BY <2>1, <2>2, <2>4, <2>5, ReplyCounted
<1>3. CASE Forward(r)
  <2>1. Serving(r) /\ asked[r] # NoAsk
      BY <1>3, ServingSlot DEF Forward
  <2>2. UNCHANGED <<cfg, asked, reply, cw, resp, out>> /\ pc' = [pc EXCEPT ![r] = "sent"]
      BY <1>3 DEF Forward, P!Begin, P!Send, own
  <2>3. Account(asked[r], "sent", resp[r], out[r], cw[r], reply[r])
      BY <2>1 DEF AccountInv, AccountOf, Account, Serving
  <2>4. Aside(r) /\ pc'[r] = "sent"
      BY <2>2 DEF Aside, AccountInv
  <2>. QED BY <2>2, <2>3, <2>4, OneAccount
<1>4. CASE Resolve(r) \/ Close(r) \/ Record(r)
    BY <1>4, SameAccounts DEF Resolve, Close, Record, own, exchangeVars
<1>. QED BY <1>1, <1>2, <1>3, <1>4 DEF Handle

-----------------------------------------------------------------------------
(* Steps of the exchange. *)

\* The slot is p, o and at afterwards, and the writer has counted what is new.
LEMMA ExchangeCounted ==
    ASSUME AccountInv, NEW r \in Requests, UNCHANGED <<cfg, asked, reply>>, Counted(r), pc[r] # "idle",
           NEW at, at # "idle", pc' = [pc EXCEPT ![r] = at],
           NEW p, resp' = [resp EXCEPT ![r] = p], p.code \in Codes \cup {0},
           NEW o, out' = [out EXCEPT ![r] = o], o.codes \in Seq(Written), o.sent \in Nat,
           HasFields(o),
           at \notin {"streaming", "done"} => o.sent = 0,
           at = "streaming" => o.codes # <<>>,
           o.codes # out[r].codes => o.codes # <<>>,
           o.sent # out[r].sent => o.sent > out[r].sent /\ o.codes # <<>>
    PROVE  AccountInv'
<1>1. AccountOf(r) /\ out'[r] = o
    BY DEF AccountInv
<1>2. reply[r] = NoReply /\ NoReply.sent = 0 /\ asked[r] # NoAsk /\ out[r].sent \in Nat
    BY <1>1 DEF AccountOf, Account, NoReply
<1> DEFINE H(x) == IF x.codes # out[r].codes THEN WriteHeader(cw[r], Last(x.codes)) ELSE cw[r]
           N(x) == x.sent - out[r].sent
           W(x) == IF N(x) > 0 THEN Write(H(x), N(x)) ELSE H(x)
           h == H(o)
           n == N(o)
           w == W(o)
<1>3. cw' = [cw EXCEPT ![r] = w]
  <2>1. cw' = [cw EXCEPT ![r] = W(out'[r])]
      BY Zenon DEF Counted
  <2> HIDE DEF W
  <2>. QED BY <1>1, <2>1
<1>4. ASSUME Counts(out[r], cw[r], NoReply) PROVE Counts(o, w, NoReply)
  <2>1. cw[r].wrote \in BOOLEAN /\ cw[r].written = out[r].sent /\ (cw[r].wrote <=> out[r].codes # <<>>)
      BY <1>2, <1>4 DEF Counts
  <2>2. h.wrote \in BOOLEAN /\ h.written = out[r].sent /\ (h.wrote <=> o.codes # <<>>)
    <3>1. CASE o.codes # out[r].codes
      <4>1. h = WriteHeader(cw[r], Last(o.codes)) /\ o.codes # <<>>
          BY <3>1
      <4>2. h.wrote = TRUE /\ h.written = cw[r].written
          BY <2>1, <4>1 DEF WriteHeader
      <4>. QED BY <2>1, <4>1, <4>2
    <3>2. CASE o.codes = out[r].codes
        BY <2>1, <3>2
    <3>. QED BY <3>1, <3>2
  <2> HIDE DEF H
  <2>3. w.wrote \in BOOLEAN /\ w.written = o.sent /\ (w.wrote <=> o.codes # <<>>)
    <3>1. CASE n > 0
      <4>1. w = Write(h, n) /\ o.codes # <<>> /\ out[r].sent + n = o.sent
          BY <3>1, <1>2
      <4>2. w.wrote = TRUE /\ w.written = h.written + n
          BY <4>1 DEF Write
      <4>. QED BY <4>1, <4>2, <2>2
    <3>2. CASE ~(n > 0)
      <4>1. w = h /\ o.sent = out[r].sent
          BY <3>2, <1>2
      <4> HIDE DEF W
      <4>. QED BY <4>1, <2>2
    <3>. QED BY <3>1, <3>2
  <2> HIDE DEF W
  <2>. QED BY <2>3, <1>2 DEF Counts
<1> HIDE DEF W
<1>5. Account(asked[r], at, p, o, w, reply[r])
    BY <1>1, <1>2, <1>4 DEF AccountOf, Account
<1>6. Aside(r) /\ pc'[r] = at /\ resp'[r] = p /\ cw'[r] = w
    BY <1>3 DEF Aside, AccountInv
<1>. QED BY <1>1, <1>5, <1>6, OneAccount

\* Until there is an answer the client's side stays as it is.
LEMMA WaitingCounted ==
    ASSUME AccountInv, NEW r \in Requests, Relayed(r), UNCHANGED out, pc[r] \in {"sent", "received"},
           NEW at, at \notin {"idle", "streaming", "done"}, pc' = [pc EXCEPT ![r] = at],
           NEW p, resp' = [resp EXCEPT ![r] = p], p.code \in Codes \cup {0}
    PROVE  AccountInv'
<1> DEFINE o == out[r]
<1>1. AccountOf(r) /\ out' = [out EXCEPT ![r] = o]
    BY DEF AccountInv
<1>2. /\ o.codes \in Seq(Written) /\ o.sent \in Nat /\ HasFields(o)
      /\ o.sent = 0
    BY <1>1 DEF AccountOf, Account
<1>3. UNCHANGED <<cfg, asked, reply>> /\ Counted(r)
    BY DEF Relayed
<1> HIDE DEF o
<1>4. o.codes # out[r].codes => o.codes # <<>>
    BY DEF o
<1>5. o.sent # out[r].sent => o.sent > out[r].sent /\ o.codes # <<>>
    BY DEF o
<1>. QED BY <1>1, <1>2, <1>3, <1>4, <1>5, ExchangeCounted

LEMMA KeptCounted ==
    ASSUME AccountInv, NEW r \in Requests, Relayed(r), UNCHANGED <<resp, out>>, pc[r] \in {"sent", "received"},
           NEW at, at \notin {"idle", "streaming", "done"}, pc' = [pc EXCEPT ![r] = at]
    PROVE  AccountInv'
<1> DEFINE p == resp[r]
<1>1. resp' = [resp EXCEPT ![r] = p] /\ p.code \in Codes \cup {0}
    BY DEF AccountInv, AccountOf, Account
<1> HIDE DEF p
<1>. QED BY <1>1, WaitingCounted

\* What leaves the client's side alone altogether.
LEMMA NothingCounted ==
    ASSUME AccountInv, NEW r \in Requests, Relayed(r), UNCHANGED <<pc, resp, out>> PROVE AccountInv'
<1>1. out[r].sent \in Nat /\ cw = [cw EXCEPT ![r] = cw[r]]
    BY DEF AccountInv, AccountOf, Account
<1>2. Counted(r) /\ UNCHANGED <<cfg, asked, reply>>
    BY DEF Relayed
<1>3. out'[r].codes = out[r].codes /\ ~(out'[r].sent - out[r].sent > 0)
    BY <1>1
<1>4. cw' = [cw EXCEPT ![r] = cw[r]]
    BY <1>2, <1>3 DEF Counted
<1>. QED BY <1>1, <1>2, <1>4, SameAccounts

LEMMA GitHubCounted ==
    ASSUME AccountInv, NEW r \in Requests, Relayed(r),
           \/ P!Upload(r) \/ P!Hangup(r) \/ P!Answered(r)
           \/ P!TransportError(r) \/ P!HeaderTimeout(r) \/ P!Cancelled(r)
           \/ P!ReturnResponse(r) \/ P!RefuseHop(r) \/ P!FollowHop(r)
    PROVE  AccountInv'
<1>1. CASE P!Upload(r) \/ P!Hangup(r)
    BY <1>1, NothingCounted DEF P!Upload, P!Hangup
<1>2. CASE P!Answered(r)
  <2>1. PICK code \in Codes, loc \in P!Location, length \in Lengths, body \in 0 .. MaxBody :
            P!Respond(r, code, loc, length, body)
      BY <1>2 DEF P!Answered
  <2> DEFINE p == [code |-> code, loc |-> loc, length |-> length, declared |-> length,
                   body |-> body, read |-> 0]
  <2>2. /\ pc[r] = "sent" /\ UNCHANGED out /\ pc' = [pc EXCEPT ![r] = "received"]
        /\ resp' = [resp EXCEPT ![r] = p]
      BY <2>1 DEF P!Respond
  <2>3. p.code \in Codes \cup {0}
      OBVIOUS
  <2> HIDE DEF p
  <2>. QED BY <2>2, <2>3, WaitingCounted
<1>3. CASE P!TransportError(r) \/ P!HeaderTimeout(r) \/ P!Cancelled(r)
  <2>1. pc[r] = "sent" /\ UNCHANGED <<resp, out>> /\ pc' = [pc EXCEPT ![r] = "failed"]
      BY <1>3 DEF P!TransportError, P!HeaderTimeout, P!Cancelled
  <2>. QED BY <2>1, KeptCounted
<1>4. CASE P!ReturnResponse(r)
  <2>1. pc[r] = "received" /\ UNCHANGED <<resp, out>> /\ pc' = [pc EXCEPT ![r] = "returned"]
      BY <1>4 DEF P!ReturnResponse
  <2>. QED BY <2>1, KeptCounted
<1>5. CASE P!RefuseHop(r) \/ P!FollowHop(r)
  <2>1. /\ pc[r] = "received" /\ UNCHANGED out
        /\ pc' = [pc EXCEPT ![r] = "failed"] \/ pc' = [pc EXCEPT ![r] = "sent"]
        /\ resp' = [resp EXCEPT ![r] = P!NoResponse]
      BY <1>5 DEF P!RefuseHop, P!FollowHop, P!Send
  <2>2. P!NoResponse.code \in Codes \cup {0}
      BY DEF P!NoResponse
  <2>. QED BY <2>1, <2>2, WaitingCounted
<1>. QED BY <1>1, <1>2, <1>3, <1>4, <1>5

LEMMA HeaderCounted ==
    ASSUME AccountInv, NEW r \in Requests, Relayed(r), pc[r] = "returned",
           NEW at, at = "streaming", at # "idle", pc' = [pc EXCEPT ![r] = at],
           NEW p, resp' = [resp EXCEPT ![r] = p], p.code \in Codes \cup {0},
           NEW o, out' = [out EXCEPT ![r] = o], o.codes \in Seq(Written), o.codes # <<>>,
           o.sent = 0, o.sent \in Nat,
           HasFields(o)
    PROVE  AccountInv'
<1>1. UNCHANGED <<cfg, asked, reply>> /\ Counted(r)
    BY DEF Relayed
<1>2. out[r].sent = 0
    BY DEF AccountInv, AccountOf, Account
<1>3. o.sent # out[r].sent => o.sent > out[r].sent /\ o.codes # <<>>
    BY <1>2
<1>. QED BY <1>1, <1>3, ExchangeCounted

LEMMA AnswerCounted ==
    ASSUME AccountInv, NEW r \in Requests, Relayed(r), P!Deliver(r) \/ P!DeliverOversized(r)
    PROVE  AccountInv'
<1>1. /\ AccountOf(r) /\ pc[r] = "returned" /\ out[r].sent = 0 /\ out[r].codes \in Seq(Written)
      /\ resp[r].code \in Codes \cup {0}
    BY DEF AccountInv, AccountOf, Account, P!Deliver, P!DeliverOversized
<1>2. PICK p : resp' = [resp EXCEPT ![r] = p] /\ p.code \in Codes \cup {0}
  <2>1. CASE P!Deliver(r)
    <3>1. resp' = [resp EXCEPT ![r] = resp[r]]
        BY <2>1 DEF P!Deliver, AccountInv
    <3>. QED BY <1>1, <3>1
  <2>2. CASE P!DeliverOversized(r)
    <3> DEFINE p == [resp[r] EXCEPT !.length = 0, !.body = 0]
    <3>1. resp' = [resp EXCEPT ![r] = p]
        BY <2>2 DEF P!DeliverOversized
    <3>2. p.code \in Codes \cup {0}
        BY <1>1
    <3> HIDE DEF p
    <3>. QED BY <3>1, <3>2
  <2>. QED BY <2>1, <2>2
<1>3. PICK o : /\ out' = [out EXCEPT ![r] = o]
               /\ o.codes \in Seq(Written) /\ o.codes # <<>> /\ o.sent = 0 /\ o.sent \in Nat
               /\ HasFields(o)
  <2>1. PICK code, loc : code \in Codes \cup {0, 302} /\ P!Answer(r, code, loc, 0, "no")
      BY <1>1 DEF P!Deliver, P!DeliverOversized
  <2> DEFINE o == [codes |-> Append(out[r].codes, code), loc |-> loc, sent |-> 0, ended |-> "no"]
  <2>2. out' = [out EXCEPT ![r] = o]
      BY <2>1 DEF P!Answer
  <2>3. code \in Written
      BY <2>1 DEF Written
  <2>4. Append(out[r].codes, code) \in Seq(Written) /\ Append(out[r].codes, code) # <<>>
      BY <1>1, <2>3
  <2>5. /\ o.codes \in Seq(Written) /\ o.codes # <<>> /\ o.sent = 0 /\ o.sent \in Nat
        /\ HasFields(o)
      BY <2>4 DEF HasFields
  <2> HIDE DEF o
  <2>. QED BY <2>2, <2>5
<1>4. PICK at : at = "streaming" /\ at # "idle" /\ pc' = [pc EXCEPT ![r] = at]
    BY DEF P!Deliver, P!DeliverOversized
<1>5. pc[r] = "returned"
    BY <1>1
<1>. QED BY <1>2, <1>3, <1>4, <1>5, HeaderCounted

LEMMA StreamCounted ==
    ASSUME AccountInv, NEW r \in Requests, pc[r] # "idle", Relayed(r),
           \/ P!Informational(r) \/ P!CopyChunk(r)
           \/ P!FinishCopy(r) \/ P!AbortCopy(r) \/ P!HandleError(r)
    PROVE  AccountInv'
<1>1. /\ AccountOf(r) /\ out[r].codes \in Seq(Written) /\ out[r].sent \in Nat
      /\ HasFields(out[r]) /\ resp[r].code \in Codes \cup {0}
      /\ pc = [pc EXCEPT ![r] = pc[r]] /\ resp = [resp EXCEPT ![r] = resp[r]]
    BY DEF AccountInv, AccountOf, Account
<1>2. UNCHANGED <<cfg, asked, reply>> /\ Counted(r)
    BY DEF Relayed
<1>3. CASE P!Informational(r)
  <2> DEFINE o == [out[r] EXCEPT !.codes = Append(out[r].codes, 103)]
  <2>1. pc[r] = "sent" /\ UNCHANGED <<pc, resp>> /\ out' = [out EXCEPT ![r] = o]
      BY <1>3 DEF P!Informational
  <2>2. o.codes = Append(out[r].codes, 103) /\ o.sent = out[r].sent /\ HasFields(o)
      BY <1>1 DEF HasFields
  <2>3. o.codes \in Seq(Written) /\ o.codes # <<>>
      BY <1>1, <2>2 DEF Written
  <2>4. out[r].sent = 0
      BY <1>1, <2>1 DEF AccountOf, Account
  <2> HIDE DEF o
  <2>5. pc' = [pc EXCEPT ![r] = pc[r]] /\ resp' = [resp EXCEPT ![r] = resp[r]]
      BY <1>1, <2>1, Zenon
  <2>6. o.sent \in Nat /\ o.sent = 0 /\ pc[r] # "idle" /\ pc[r] # "streaming"
      BY <1>1, <2>1, <2>2, <2>4
  <2>. QED BY <1>1, <1>2, <2>1, <2>2, <2>3, <2>4, <2>5, <2>6, ExchangeCounted
<1>4. CASE P!CopyChunk(r)
  <2> DEFINE o == [out[r] EXCEPT !.sent = out[r].sent + 1]
             p == [resp[r] EXCEPT !.read = resp[r].read + 1]
  <2>1. pc[r] = "streaming" /\ UNCHANGED pc /\ out' = [out EXCEPT ![r] = o] /\ resp' = [resp EXCEPT ![r] = p]
      BY <1>4 DEF P!CopyChunk
  <2>2. /\ o.codes = out[r].codes /\ o.sent = out[r].sent + 1 /\ HasFields(o)
        /\ p.code = resp[r].code
      BY <1>1 DEF HasFields
  <2>3. out[r].codes # <<>>
      BY <1>1, <2>1 DEF AccountOf, Account
  <2> HIDE DEF o, p
  <2>4. o.sent \in Nat /\ o.sent > out[r].sent /\ o.codes \in Seq(Written) /\ o.codes # <<>> /\ p.code \in Codes \cup {0}
      BY <1>1, <2>2, <2>3
  <2>. QED BY <1>1, <1>2, <2>1, <2>2, <2>4, ExchangeCounted
<1>5. ASSUME NEW how, pc' = [pc EXCEPT ![r] = "done"], out' = [out EXCEPT ![r].ended = how], UNCHANGED resp
      PROVE  AccountInv'
  <2> DEFINE o == [out[r] EXCEPT !.ended = how]
             p == resp[r]
  <2>1. out' = [out EXCEPT ![r] = o] /\ resp' = [resp EXCEPT ![r] = p] /\ p.code \in Codes \cup {0}
      BY <1>1, <1>5
  <2>2. o.codes = out[r].codes /\ o.sent = out[r].sent /\ HasFields(o)
      BY <1>1 DEF HasFields
  <2> HIDE DEF o, p
  <2>3. o.codes \in Seq(Written) /\ o.sent \in Nat /\ (o.sent # out[r].sent => o.sent > out[r].sent /\ o.codes # <<>>)
      BY <1>1, <2>2
  <2>. QED BY <1>2, <1>5, <2>1, <2>2, <2>3, ExchangeCounted
<1>6. CASE P!FinishCopy(r) \/ P!AbortCopy(r)
    BY <1>5, <1>6 DEF P!FinishCopy, P!AbortCopy, P!End
<1>7. CASE P!HandleError(r)
  <2>1. CASE out' = [out EXCEPT ![r].ended = "silent"]
      BY <1>5, <1>7, <2>1 DEF P!HandleError
  <2>2. CASE P!Answer(r, 502, P!NothingOut.loc, 1, "complete")
    <3> DEFINE o == [codes |-> Append(out[r].codes, 502), loc |-> P!NothingOut.loc, sent |-> 1, ended |-> "complete"]
    <3>1. /\ pc[r] = "failed" /\ pc' = [pc EXCEPT ![r] = "done"] /\ UNCHANGED resp
          /\ out' = [out EXCEPT ![r] = o]
        BY <1>7, <2>2 DEF P!HandleError, P!Answer
    <3>2. out[r].sent = 0
        BY <1>1, <3>1 DEF AccountOf, Account
    <3>3. o.codes \in Seq(Written) /\ o.codes # <<>> /\ o.sent = 1 /\ HasFields(o)
        BY <1>1 DEF Written, HasFields
    <3> HIDE DEF o
    <3>4. o.sent \in Nat /\ o.sent > out[r].sent
        BY <3>2, <3>3
    <3>. QED BY <1>1, <1>2, <3>1, <3>3, <3>4, ExchangeCounted
  <2>. QED BY <1>7, <2>1, <2>2 DEF P!HandleError
<1>. QED BY <1>3, <1>4, <1>6, <1>7

-----------------------------------------------------------------------------
LEMMA NextCounted == ServerInv /\ AccountInv /\ [Next]_vars => AccountInv'
<1> SUFFICES ASSUME ServerInv, AccountInv, [Next]_vars PROVE AccountInv'
    OBVIOUS
<1>1. CASE UNCHANGED vars \/ AllOver
    BY <1>1, SameAccounts DEF AllOver, vars, own, exchangeVars
<1>2. ASSUME NEW r \in Requests, NEW a \in Asks, ServeStatus(r, a) \/ Arrive(r, a) PROVE AccountInv'
    BY <1>2, ArrivalCounted
<1>3. ASSUME NEW r \in Requests, Handle(r) PROVE AccountInv'
    BY <1>3, HandlerCounted
<1>4. ASSUME NEW r \in Requests, Relay(r) PROVE AccountInv'
  <2>1. pc[r] # "idle" /\ Relayed(r) /\ P!Step(r)
      BY <1>4 DEF Relay
  <2>2. \A method, host, names : ~P!Begin(r, method, host, names)
      BY <2>1 DEF P!Begin
  <2>. QED BY <2>1, <2>2, GitHubCounted, AnswerCounted, StreamCounted DEF P!Step
<1>. QED BY <1>1, <1>2, <1>3, <1>4 DEF Next

\* Whatever GitHub sends, in whatever pieces, and whenever the client hangs up, the
\* writer's count is what went out and wrote is set exactly when something did.
THEOREM CountCorrect == Spec => []CountsWhatWasSent
<1>1. ServerInv /\ AccountInv => CountsWhatWasSent
  <2> SUFFICES ASSUME ServerInv, AccountInv, NEW r \in Requests, rec[r].pc # "idle"
               PROVE  /\ cw[r].written = out[r].sent + reply[r].sent
                      /\ cw[r].wrote <=> out[r].codes # <<>> \/ reply[r] # NoReply
      BY DEF CountsWhatWasSent
  <2>1. ~(asked[r] # NoAsk /\ OnStatusPath(cfg, asked[r]))
      BY DEF ServerInv, SlotOf, Slot
  <2>2. Counts(out[r], cw[r], reply[r])
      BY <2>1 DEF AccountInv, AccountOf, Account
  <2>. QED BY <2>2 DEF Counts
<1>. QED BY <1>1, ServerInvariant, Initially, InitiallyCounted, NextCounted, PTL DEF Spec

-----------------------------------------------------------------------------
(* Prefixes. *)

Paths == Seq(STRING)

LEMMA PrefixIs ==
    ASSUME NEW s \in Paths, NEW t \in Paths
    PROVE  IsPrefix(s, t) <=> Len(s) <= Len(t) /\ \A i \in 1 .. Len(s) : s[i] = t[i]
<1>1. Len(s) \in Nat /\ Len(t) \in Nat
    BY DEF Paths
<1>2. SUFFICES ASSUME Len(s) <= Len(t)
               PROVE  SubSeq(s, 1, Len(s)) = SubSeq(t, 1, Len(s)) <=> \A i \in 1 .. Len(s) : s[i] = t[i]
    BY DEF IsPrefix
<1> DEFINE u == SubSeq(s, 1, Len(s))
           v == SubSeq(t, 1, Len(s))
<1>3. /\ u \in Paths /\ v \in Paths /\ Len(u) = Len(s) /\ Len(v) = Len(s)
      /\ \A i \in 1 .. Len(s) : u[i] = s[i] /\ v[i] = t[i]
    BY <1>1, <1>2 DEF Paths
<1>4. u = [i \in 1 .. Len(s) |-> u[i]] /\ v = [i \in 1 .. Len(s) |-> v[i]]
    BY <1>1, <1>3 DEF Paths
<1> HIDE DEF u, v
<1>5. u = v <=> \A i \in 1 .. Len(s) : u[i] = v[i]
    BY <1>4
<1>. QED BY <1>3, <1>5 DEF u, v

\* What is before a place of t \o u is before it in t, or t is before it whole.
LEMMA PrefixOfBoth ==
    ASSUME NEW s \in Paths, NEW t \in Paths, NEW u \in Paths, IsPrefix(s, t \o u)
    PROVE  \/ IsPrefix(s, t)
           \/ /\ IsPrefix(t, s) /\ Len(t) + 1 \in DOMAIN s /\ 1 \in DOMAIN u
              /\ s[Len(t) + 1] = u[1]
<1>1. /\ Len(s) \in Nat /\ Len(t) \in Nat /\ Len(u) \in Nat /\ t \o u \in Paths
      /\ Len(t \o u) = Len(t) + Len(u)
      /\ \A i \in 1 .. Len(t) : (t \o u)[i] = t[i]
      /\ DOMAIN s = 1 .. Len(s) /\ DOMAIN u = 1 .. Len(u)
    BY DEF Paths
<1>2. Len(u) >= 1 => (t \o u)[Len(t) + 1] = u[1]
    BY <1>1
<1>3. Len(s) <= Len(t) + Len(u) /\ \A i \in 1 .. Len(s) : s[i] = (t \o u)[i]
    BY <1>1, PrefixIs
<1>4. CASE Len(s) <= Len(t)
    BY <1>1, <1>3, <1>4, PrefixIs
<1>5. CASE Len(s) > Len(t)
  <2>1. \A i \in 1 .. Len(t) : i \in 1 .. Len(s) /\ s[i] = (t \o u)[i] /\ (t \o u)[i] = t[i]
      BY <1>1, <1>3, <1>5
  <2>2. IsPrefix(t, s)
    <3>1. Len(t) <= Len(s) /\ \A i \in 1 .. Len(t) : t[i] = s[i]
        BY <1>1, <1>5, <2>1
    <3>. QED BY <3>1, PrefixIs
  <2>3. Len(t) + 1 \in 1 .. Len(s) /\ Len(u) >= 1
      BY <1>1, <1>3, <1>5
  <2>. QED BY <1>1, <1>2, <1>3, <2>2, <2>3
<1>. QED BY <1>1, <1>4, <1>5

LEMMA PrefixOfLonger ==
    ASSUME NEW s \in Paths, NEW t \in Paths, NEW u \in Paths, IsPrefix(s, t)
    PROVE  IsPrefix(s, t \o u)
<1>1. /\ Len(s) \in Nat /\ Len(t) \in Nat /\ t \o u \in Paths /\ Len(t) <= Len(t \o u)
      /\ \A i \in 1 .. Len(t) : (t \o u)[i] = t[i]
    BY DEF Paths
<1>2. Len(s) <= Len(t) /\ \A i \in 1 .. Len(s) : s[i] = t[i]
    BY PrefixIs
<1>3. Len(s) <= Len(t \o u) /\ \A i \in 1 .. Len(s) : i \in 1 .. Len(t) /\ s[i] = (t \o u)[i]
    BY <1>1, <1>2
<1>. QED BY <1>1, <1>3, PrefixIs

-----------------------------------------------------------------------------
(* Decoding a path, word by word. *)

LEMMA WordsRegroup ==
    ASSUME NEW x \in Paths, NEW y \in Paths, NEW z \in Paths PROVE (x \o y) \o z = x \o (y \o z)
BY SMTT(30) DEF Paths

LEMMA EncodedRegroup ==
    ASSUME NEW x \in Seq(Encoded), NEW y \in Seq(Encoded), NEW z \in Seq(Encoded)
    PROVE  (x \o y) \o z = x \o (y \o z)
BY SMTT(30)

LEMMA DecodedEmpty == Decoded(<<>>) = <<>>
<1>1. [i \in DOMAIN <<>> |-> Unescape[<<>>[i]]] = <<>>
    OBVIOUS
<1>2. FlattenSeq(<<>>) = <<>>
    BY DEF FlattenSeq
<1>. QED BY <1>1, <1>2 DEF Decoded

LEMMA DecodedAppend ==
    ASSUME NEW p \in Seq(Encoded), NEW w \in Encoded
    PROVE  Decoded(Append(p, w)) = Decoded(p) \o Unescape[w]
<1> DEFINE q == Append(p, w)
           s == [i \in DOMAIN p |-> Unescape[p[i]]]
           t == [i \in DOMAIN q |-> Unescape[q[i]]]
           e == Unescape[w]
<1>1. /\ Len(p) \in Nat /\ DOMAIN p = 1 .. Len(p) /\ DOMAIN q = 1 .. Len(p) + 1
      /\ q[Len(p) + 1] = w /\ \A i \in 1 .. Len(p) : q[i] = p[i] /\ p[i] \in Encoded
    OBVIOUS
<1>2. \A i \in 1 .. Len(p) : Unescape[p[i]] \in Seq(STRING)
    BY <1>1, WordDecoded
<1>3. s \in Seq(Seq(STRING)) /\ Len(s) = Len(p)
    BY <1>1, <1>2
<1>4. e \in Seq(STRING)
    BY WordDecoded
<1>5. t = Append(s, e)
  <2>1. DOMAIN t = 1 .. Len(p) + 1 /\ t = [i \in 1 .. Len(p) + 1 |-> t[i]]
      BY <1>1
  <2>2. /\ Append(s, e) = [i \in 1 .. Len(p) + 1 |-> Append(s, e)[i]]
        /\ Append(s, e)[Len(p) + 1] = e /\ \A i \in 1 .. Len(p) : Append(s, e)[i] = s[i]
      BY <1>3, <1>4
  <2>3. \A i \in 1 .. Len(p) : t[i] = s[i]
      BY <1>1
  <2>4. t[Len(p) + 1] = e
      BY <1>1
  <2>5. \A i \in 1 .. Len(p) + 1 : i = Len(p) + 1 \/ i \in 1 .. Len(p)
      BY <1>1
  <2> HIDE DEF s, t, e
  <2>6. \A i \in 1 .. Len(p) + 1 : t[i] = Append(s, e)[i]
      BY <2>2, <2>3, <2>4, <2>5
  <2>. QED BY <2>1, <2>2, <2>6
<1>6. Decoded(q) = FlattenSeq(t) /\ Decoded(p) = FlattenSeq(s)
    BY DEF Decoded
<1> HIDE DEF q, s, t, e
<1>7. FlattenSeq(Append(s, e)) = FlattenSeq(s) \o e
    BY <1>3, <1>4, FlattenAppend
<1>. QED BY <1>5, <1>6, <1>7 DEF q, e

LEMMA LastOff ==
    ASSUME NEW q \in Seq(Encoded), NEW n \in Nat, Len(q) = n + 1
    PROVE  \E f \in Seq(Encoded), w \in Encoded : Len(f) = n /\ q = Append(f, w)
<1> DEFINE f == SubSeq(q, 1, n)
<1>1. f \in Seq(Encoded) /\ Len(f) = n /\ q[n + 1] \in Encoded
    OBVIOUS
<1>2. q = Append(f, q[n + 1])
    OBVIOUS
<1>. QED BY <1>1, <1>2

LEMMA DecodedType == \A p \in Seq(Encoded) : Decoded(p) \in Seq(STRING)
<1> DEFINE T == {n \in Nat : \A p \in Seq(Encoded) : Len(p) = n => Decoded(p) \in Seq(STRING)}
<1>1. 0 \in T
  <2>1. \A p \in Seq(Encoded) : Len(p) = 0 => p = <<>>
      OBVIOUS
  <2>2. <<>> \in Seq(STRING)
      OBVIOUS
  <2>. QED BY <2>1, <2>2, DecodedEmpty
<1>2. ASSUME NEW n \in T PROVE n + 1 \in T
  <2>1. SUFFICES ASSUME NEW p \in Seq(Encoded), Len(p) = n + 1 PROVE Decoded(p) \in Seq(STRING)
      OBVIOUS
  <2>2. PICK f \in Seq(Encoded), w \in Encoded : Len(f) = n /\ p = Append(f, w)
      BY <2>1, LastOff
  <2>3. Decoded(f) \in Seq(STRING) /\ Unescape[w] \in Seq(STRING)
      BY <2>2, WordDecoded
  <2>4. Decoded(p) = Decoded(f) \o Unescape[w]
      BY <2>2, DecodedAppend
  <2>. QED BY <2>3, <2>4
<1> HIDE DEF T
<1>3. T = Nat
  <2>1. T \in SUBSET Nat
      BY DEF T
  <2>. QED BY <1>1, <1>2, <2>1, InductionOnSets
<1>4. \A p \in Seq(Encoded) : Len(p) \in T
    BY <1>3
<1>. QED BY <1>4 DEF T

LEMMA DecodedBoth ==
    ASSUME NEW p \in Seq(Encoded)
    PROVE  \A q \in Seq(Encoded) : Decoded(p \o q) = Decoded(p) \o Decoded(q)
<1> DEFINE T == {n \in Nat : \A q \in Seq(Encoded) : Len(q) = n => Decoded(p \o q) = Decoded(p) \o Decoded(q)}
<1>1. 0 \in T
  <2>1. ASSUME NEW q \in Seq(Encoded), Len(q) = 0 PROVE Decoded(p \o q) = Decoded(p) \o Decoded(q)
    <3>1. q = <<>> /\ p \o q = p
        BY <2>1
    <3>2. Decoded(p) \in Seq(STRING)
        BY DecodedType
    <3>3. Decoded(p) \o <<>> = Decoded(p)
        BY <3>2
    <3>. QED BY <3>1, <3>3, DecodedEmpty
  <2>. QED BY <2>1
<1>2. ASSUME NEW n \in T PROVE n + 1 \in T
  <2>1. SUFFICES ASSUME NEW q \in Seq(Encoded), Len(q) = n + 1
                 PROVE  Decoded(p \o q) = Decoded(p) \o Decoded(q)
      OBVIOUS
  <2>2. PICK f \in Seq(Encoded), w \in Encoded : Len(f) = n /\ q = Append(f, w)
      BY <2>1, LastOff
  <2>3. p \o q = Append(p \o f, w) /\ p \o f \in Seq(Encoded)
      BY <2>2
  <2>4. Decoded(p \o f) = Decoded(p) \o Decoded(f)
      BY <2>2
  <2>5. Decoded(p) \in Seq(STRING) /\ Decoded(f) \in Seq(STRING) /\ Unescape[w] \in Seq(STRING)
      BY DecodedType, WordDecoded
  <2>6. Decoded(p \o q) = (Decoded(p) \o Decoded(f)) \o Unescape[w] /\ Decoded(q) = Decoded(f) \o Unescape[w]
      BY <2>2, <2>3, <2>4, DecodedAppend
  <2> DEFINE a == Decoded(p)
             b == Decoded(f)
             c == Unescape[w]
  <2> HIDE DEF a, b, c
  <2>7. (a \o b) \o c = a \o (b \o c)
    <3>1. a \in Seq(STRING) /\ b \in Seq(STRING) /\ c \in Seq(STRING)
        BY <2>5 DEF a, b, c
    <3>. QED BY <3>1, WordsRegroup, Zenon DEF Paths
  <2>. QED BY <2>6, <2>7 DEF a, b, c
<1> HIDE DEF T
<1>3. T = Nat
  <2>1. T \in SUBSET Nat
      BY DEF T
  <2>. QED BY <1>1, <1>2, <2>1, InductionOnSets
<1>4. \A q \in Seq(Encoded) : Len(q) \in T
    BY <1>3
<1>. QED BY <1>4 DEF T

-----------------------------------------------------------------------------
(* How a request's path is taken apart. *)

LEMMA AskedPath ==
    ASSUME NEW c \in Configs, NEW a \in Asks
    PROVE  /\ c.prefix \in Seq(STRING) /\ c.statusPath \in Seq(STRING)
           /\ a.raw \in Seq(STRING) /\ a.raw \in Seq(Encoded)
<1>1. a.raw \in Seq(STRING) /\ \A i \in DOMAIN a.raw : a.raw[i] \in Encoded
    BY ServerConstants DEF Decodable, Encoded
<1>2. a.raw \in Seq(Encoded)
  <2>1. a.raw = [i \in 1 .. Len(a.raw) |-> a.raw[i]] /\ Len(a.raw) \in Nat
      BY <1>1
  <2>. QED BY <1>1, <2>1
<1>. QED BY <1>1, <1>2, ServerConstants

LEMMA SplitAt ==
    ASSUME NEW s \in Seq(Encoded), NEW n \in Nat, n <= Len(s)
    PROVE  s = SubSeq(s, 1, n) \o SubSeq(s, n + 1, Len(s))
<1> DEFINE m == Len(s)
           x == SubSeq(s, 1, n)
           y == SubSeq(s, n + 1, m)
<1>1. m \in Nat /\ n <= m /\ s = [i \in 1 .. m |-> s[i]]
    OBVIOUS
<1> HIDE DEF m
<1>2. /\ x \in Seq(Encoded) /\ Len(x) = n /\ y \in Seq(Encoded) /\ Len(y) = m - n
    BY <1>1 DEF m
<1>3. /\ \A i \in 1 .. n : x[i] = s[i]
      /\ \A i \in 1 .. m - n : y[i] = s[n + i]
    BY <1>1 DEF m
<1> HIDE DEF x, y
<1> DEFINE z == x \o y
<1>4. z \in Seq(Encoded) /\ Len(z) = Len(x) + Len(y)
    BY <1>2
<1>5. Len(x) \in Nat /\ Len(y) \in Nat
    BY <1>2
<1>6. \A i \in 1 .. Len(x) : z[i] = x[i]
    BY <1>2, <1>5
<1>7. ASSUME NEW i \in 1 .. Len(y) PROVE z[Len(x) + i] = y[i]
    BY <1>2, <1>5
<1>8. /\ z \in Seq(Encoded) /\ Len(z) = Len(x) + Len(y)
      /\ \A i \in 1 .. Len(x) : z[i] = x[i]
      /\ \A i \in 1 .. Len(y) : z[Len(x) + i] = y[i]
    BY <1>4, <1>6, <1>7
<1> HIDE DEF z
<1>9. Len(z) = m /\ z = [i \in 1 .. m |-> z[i]]
    BY <1>1, <1>2, <1>8
<1>10. ASSUME NEW i \in 1 .. m PROVE z[i] = s[i]
  <2>1. CASE i <= n
    <3>1. i \in 1 .. n
        BY <1>1, <2>1
    <3>. QED BY <1>2, <1>3, <1>8, <3>1
  <2>2. CASE ~(i <= n)
    <3>1. i - n \in 1 .. m - n /\ n + (i - n) = i
        BY <1>1, <2>2
    <3>. QED BY <1>2, <1>3, <1>8, <3>1
  <2>. QED BY <2>1, <2>2
<1>11. z = s
    BY <1>1, <1>9, <1>10
<1>. QED BY <1>11 DEF x, y, z, m

\* Below the prefix there is something left.
LEMMA BelowPrefix ==
    ASSUME NEW c \in Configs, NEW a \in Asks, UnderPrefix(c, a)
    PROVE  /\ c.prefix \in Seq(Encoded) /\ AfterPrefix(c, a) \in Seq(Encoded)
           /\ a.raw = c.prefix \o AfterPrefix(c, a)
           /\ Len(AfterPrefix(c, a)) >= 1
<1>1. PICK p \in Seq(STRING), raw \in Seq(Encoded) : p = c.prefix /\ raw = a.raw
    BY AskedPath
<1>2. PICK n \in Nat, m \in Nat : n = Len(p) /\ m = Len(raw)
    BY <1>1
<1>3. n < m /\ SubSeq(p, 1, n) = SubSeq(raw, 1, n) /\ AfterPrefix(c, a) = SubSeq(raw, n + 1, m)
    BY <1>1, <1>2 DEF UnderPrefix, IsPrefix, AfterPrefix
<1>4. p = SubSeq(p, 1, n)
    BY <1>2
<1>5. SubSeq(raw, 1, n) \in Seq(Encoded) /\ SubSeq(raw, n + 1, m) \in Seq(Encoded) /\ Len(SubSeq(raw, n + 1, m)) = m - n
    BY <1>2, <1>3
<1>6. raw = SubSeq(raw, 1, n) \o SubSeq(raw, n + 1, m)
  <2>1. n <= Len(raw) /\ m = Len(raw)
      BY <1>2, <1>3
  <2>. QED BY <2>1, SplitAt
<1>7. m - n >= 1
    BY <1>3
<1>. QED BY <1>1, <1>3, <1>4, <1>5, <1>6, <1>7

\* The token's word in front of what is left of the path.
Spelled(c) == {w \in Encoded : w = c.token \/ Unescape[w] = <<c.token>>}

\* A request that passes is its own base followed by what is left to match.
LEMMA PassedPath ==
    ASSUME NEW c \in Configs, NEW a \in Asks, UnderPrefix(c, a), Passed(c, a).ok
    PROVE  LET base == SelfBase(c, a)
               rest == Passed(c, a).rest
           IN  /\ base \in Seq(Encoded) /\ rest \in Seq(Encoded) /\ Len(rest) >= 1
               /\ a.raw = base \o rest
               /\ \/ base = c.prefix /\ rest = AfterPrefix(c, a) /\ (c.anonymous \/ InHeaders(c, a.headers))
                  \/ \E w \in Spelled(c) :
                        /\ ~c.anonymous /\ InPath(c, AfterPrefix(c, a)) /\ w = Head(AfterPrefix(c, a))
                        /\ base = Append(c.prefix, w)
<1> DEFINE after == AfterPrefix(c, a)
           p == c.prefix
           base == SelfBase(c, a)
           rest == Passed(c, a).rest
<1>1. /\ p \in Seq(Encoded) /\ after \in Seq(Encoded) /\ a.raw = p \o after /\ Len(after) >= 1
    BY BelowPrefix
<1>2. base = SubSeq(p \o after, 1, Len(p \o after) - Len(rest))
    BY <1>1 DEF SelfBase
<1>3. Passed(c, a) = Check(c, a.headers, after)
    BY DEF Passed
<1> HIDE DEF after, p, base, rest
<1>4. CASE ~c.anonymous /\ InPath(c, after)
  <2>1. rest = Tail(after)
      BY <1>3, <1>4 DEF Check, rest
  <2>2. Len(after) > 1
      BY <1>4 DEF InPath
  <2>3. PICK w \in Encoded : w = Head(after)
      BY <1>1, <2>2
  <2>4. w \in Spelled(c)
    <3>1. Equal(c, w) \/ (Len(Unescape[w]) = 1 /\ Equal(c, Unescape[w][1]))
        BY <1>4, <2>3 DEF InPath
    <3>2. Unescape[w] \in Seq(STRING)
        BY WordDecoded
    <3>3. Len(Unescape[w]) = 1 => Unescape[w] = <<Unescape[w][1]>>
        BY <3>2
    <3>. QED BY <3>1, <3>3 DEF Equal, Spelled
  <2>5. /\ rest \in Seq(Encoded) /\ Len(rest) >= 1 /\ Len(rest) = Len(after) - 1
        /\ p \o after = Append(p, w) \o rest
    <3>1. rest \in Seq(Encoded) /\ Len(rest) = Len(after) - 1 /\ Len(rest) >= 1
        BY <1>1, <2>1, <2>2
    <3>2. after = <<w>> \o rest /\ Append(p, w) = p \o <<w>>
        BY <1>1, <2>1, <2>2, <2>3
    <3>3. p \o (<<w>> \o rest) = (p \o <<w>>) \o rest
      <4> DEFINE x == <<w>>
      <4>1. x \in Seq(Encoded)
          OBVIOUS
      <4> HIDE DEF x
      <4>2. p \o (x \o rest) = (p \o x) \o rest
        <5>1. p \in Seq(Encoded) /\ x \in Seq(Encoded) /\ rest \in Seq(Encoded)
            BY <1>1, <3>1, <4>1
        <5>. QED BY <5>1, EncodedRegroup, Zenon
      <4>. QED BY <4>2, Zenon DEF x
    <3>4. p \o after = Append(p, w) \o rest
        BY <3>2, <3>3, Zenon
    <3>. QED BY <3>1, <3>4
  <2>6. base = Append(p, w)
    <3>1. Len(p \o after) - Len(rest) = Len(p) + 1
      <4>1. Len(p \o after) = Len(p) + Len(after) /\ Len(p) \in Nat /\ Len(after) \in Nat
          BY <1>1
      <4>. QED BY <2>5, <4>1
    <3>2. SubSeq(p \o after, 1, Len(p) + 1) = Append(p, w)
        BY <1>1, <2>2, <2>3
    <3>. QED BY <1>2, <3>1, <3>2
  <2>7. Append(p, w) \in Seq(Encoded)
      BY <1>1
  <2>. QED BY <1>1, <1>4, <2>3, <2>4, <2>5, <2>6, <2>7 DEF after, p, base, rest
<1>5. CASE ~(~c.anonymous /\ InPath(c, after))
  <2>1. rest = after /\ (c.anonymous \/ InHeaders(c, a.headers))
    <3> DEFINE ok == c.anonymous \/ InHeaders(c, a.headers)
    <3>1. Passed(c, a) = [ok |-> ok, rest |-> after]
        BY <1>3, <1>5, Zenon DEF Check
    <3> HIDE DEF ok
    <3>2. Passed(c, a).rest = after /\ Passed(c, a).ok = ok
        BY <3>1
    <3>. QED BY <3>2, Zenon DEF rest, ok
  <2>2. base = p
    <3>1. Len(p \o after) - Len(after) = Len(p)
        BY <1>1
    <3>2. SubSeq(p \o after, 1, Len(p)) = p
        BY <1>1
    <3>. QED BY <1>2, <2>1, <3>1, <3>2
  <2>. QED BY <1>1, <2>1, <2>2 DEF after, p, base, rest
<1>. QED BY <1>4, <1>5

-----------------------------------------------------------------------------
(* What begins a URL. *)

FirstWords == {"https:", "http:"} \cup EncodedSchemes \cup DOMAIN Unglued
              \cup {w \in DOMAIN Authority : Authority[w] \in SupportedHosts}

LEMMA MatchHost == ASSUME NEW u, Match(u) # NoTarget PROVE Authority[u.authority] \in SupportedHosts
<1>1. KindOf(Authority[u.authority], Decoded(u.path)) # None
    BY DEF Match
<1>. QED BY <1>1 DEF KindOf, SupportedHosts

LEMMA TargetHead ==
    ASSUME NEW raw, ParseWithDefaults(raw, <<>>) # NoTarget
    PROVE  raw[1] \in FirstWords
<1>1. Fallback(Prepare(raw), <<>>) = NoTarget
    BY DEF Fallback
<1>2. Prepare(raw) # NoURL /\ Match(Prepare(raw)) # NoTarget
    BY <1>1 DEF ParseWithDefaults
<1>3. Authority[Prepare(raw).authority] \in SupportedHosts
    BY <1>2, MatchHost
<1>4. Prepare(raw).authority = RepairScheme(raw)[1] /\ RepairScheme(raw)[1] \in DOMAIN Authority
    BY <1>2 DEF Prepare
<1>5. CASE raw[1] \in {"https:", "http:"} \cup EncodedSchemes \cup DOMAIN Unglued
    BY <1>5 DEF FirstWords
<1>6. CASE raw[1] \notin {"https:", "http:"} \cup EncodedSchemes \cup DOMAIN Unglued
  <2>1. RepairScheme(raw) = raw
      BY <1>6 DEF RepairScheme, AfterScheme
  <2>. QED BY <1>3, <1>4, <2>1 DEF FirstWords
<1>. QED BY <1>5, <1>6

LEMMA DecodedHead ==
    ASSUME NEW rest \in Seq(Encoded), Len(rest) >= 1
    PROVE  rest[1] \in Encoded /\ Decoded(rest)[1] = Head(Unescape[rest[1]])
<1>1. PICK w \in Encoded, q \in Seq(Encoded) : w = rest[1] /\ rest = <<w>> \o q
  <2>1. rest[1] \in Encoded /\ Tail(rest) \in Seq(Encoded) /\ rest = <<rest[1]>> \o Tail(rest)
      OBVIOUS
  <2>. QED BY <2>1
<1>2. Decoded(<<w>>) = Unescape[w]
  <2>1. <<w>> = Append(<<>>, w) /\ <<>> \in Seq(Encoded)
      OBVIOUS
  <2>2. <<>> \o Unescape[w] = Unescape[w]
      BY WordDecoded
  <2>. QED BY <2>1, <2>2, DecodedAppend, DecodedEmpty
<1>3. Decoded(rest) = Unescape[w] \o Decoded(q)
  <2>1. <<w>> \in Seq(Encoded)
      OBVIOUS
  <2>. QED BY <1>1, <1>2, <2>1, DecodedBoth
<1>4. Unescape[w] \in Seq(STRING) /\ Unescape[w] # <<>> /\ Decoded(q) \in Seq(STRING)
    BY WordDecoded, DecodedType
<1>5. (Unescape[w] \o Decoded(q))[1] = Head(Unescape[w])
    BY <1>4
<1>. QED BY <1>1, <1>3, <1>5

\* The status path, where it takes what would be served.
LEMMA StatusPathLies ==
    ASSUME NEW c \in Configs, NEW a \in Asks, OnStatusPath(c, a), Reason(c, a) = None
    PROVE  \/ IsPrefix(c.statusPath, Decoded(c.prefix))
           \/ \E w \in Spelled(c) : IsPrefix(c.statusPath, Decoded(Append(c.prefix, w)))
           \/ /\ IsPrefix(Decoded(c.prefix), c.statusPath)
              /\ c.defaults # <<>> \/ \E i \in DOMAIN c.statusPath : c.statusPath[i] \in URLHeads
<1> DEFINE base == SelfBase(c, a)
           rest == Passed(c, a).rest
           sp == c.statusPath
           mount == Decoded(c.prefix)
<1>1. UnderPrefix(c, a) /\ Passed(c, a).ok /\ TargetOf(c, a) # NoTarget
    BY ServerConstants DEF Reason, Reasons
<1>2. /\ base \in Seq(Encoded) /\ rest \in Seq(Encoded) /\ Len(rest) >= 1 /\ a.raw = base \o rest
      /\ base = c.prefix \/ \E w \in Spelled(c) : base = Append(c.prefix, w)
    BY <1>1, PassedPath
<1>3. c.prefix \in Seq(Encoded)
    BY <1>1, BelowPrefix
<1>4. Decoded(base) \in Paths /\ Decoded(rest) \in Paths /\ mount \in Paths /\ sp \in Paths
    BY <1>2, <1>3, DecodedType, AskedPath DEF Paths
<1>5. IsPrefix(sp, Decoded(base) \o Decoded(rest))
    BY <1>2, DecodedBoth DEF OnStatusPath
<1>6. c.defaults = <<>> => rest[1] \in FirstWords
    BY <1>1, TargetHead DEF TargetOf
<1>7. Decoded(rest)[1] = Head(Unescape[rest[1]]) /\ rest[1] \in Encoded
    BY <1>2, DecodedHead
<1>8. IsPrefix(mount, Decoded(base))
  <2>1. mount \o <<>> = mount /\ IsPrefix(mount, mount)
      BY <1>4, PrefixIs DEF Paths
  <2>2. CASE base = c.prefix
      BY <2>1, <2>2
  <2>3. ASSUME NEW w \in Spelled(c), base = Append(c.prefix, w) PROVE IsPrefix(mount, Decoded(base))
    <3>1. w \in Encoded /\ Unescape[w] \in Paths
        BY WordDecoded DEF Spelled, Paths
    <3>2. Decoded(base) = mount \o Unescape[w]
        BY <1>3, <2>3, <3>1, DecodedAppend
    <3>. QED BY <1>4, <2>1, <3>1, <3>2, PrefixOfLonger
  <2>. QED BY <1>2, <2>2, <2>3
<1> HIDE DEF base, rest, sp, mount
<1>9. CASE IsPrefix(sp, Decoded(base))
    BY <1>2, <1>9 DEF sp, mount
<1>10. CASE ~IsPrefix(sp, Decoded(base))
  <2>1. /\ IsPrefix(Decoded(base), sp) /\ Len(Decoded(base)) + 1 \in DOMAIN sp
        /\ sp[Len(Decoded(base)) + 1] = Decoded(rest)[1]
      BY <1>4, <1>5, <1>10, PrefixOfBoth
  <2>2. IsPrefix(mount, sp)
    <3>1. /\ Len(mount) \in Nat /\ Len(Decoded(base)) \in Nat
          /\ Len(mount) <= Len(Decoded(base)) /\ \A i \in 1 .. Len(mount) : mount[i] = Decoded(base)[i]
        BY <1>4, <1>8, PrefixIs DEF Paths
    <3>2. /\ Len(sp) \in Nat
          /\ Len(Decoded(base)) <= Len(sp) /\ \A i \in 1 .. Len(Decoded(base)) : Decoded(base)[i] = sp[i]
        BY <1>4, <2>1, PrefixIs DEF Paths
    <3>3. Len(mount) <= Len(sp) /\ \A i \in 1 .. Len(mount) : i \in 1 .. Len(Decoded(base)) /\ mount[i] = sp[i]
        BY <3>1, <3>2
    <3>. QED BY <1>4, <3>3, PrefixIs
  <2>3. ASSUME c.defaults = <<>> PROVE Decoded(rest)[1] \in URLHeads
    <3>1. rest[1] \in FirstWords \cap Encoded
        BY <1>6, <1>7, <2>3
    <3>. QED BY <1>7, <3>1 DEF URLHeads, FirstWords, Encoded
  <2>. QED BY <2>1, <2>2, <2>3 DEF sp, mount
<1>. QED BY <1>9, <1>10

\* The status page stays on the path it was given, whatever that path, the prefix,
\* the token and the request are.
THEOREM StatusPathCorrect == Spec => []StatusTakesOnlyItsOwn
<1>1. ServerInv => StatusTakesOnlyItsOwn
  <2> SUFFICES ASSUME ServerInv, NEW r \in Requests, asked[r] # NoAsk, OnStatusPath(cfg, asked[r]),
                      Reason(cfg, asked[r]) = None
               PROVE  \/ IsPrefix(cfg.statusPath, Decoded(cfg.prefix))
                      \/ \E w \in Spelled(cfg) : IsPrefix(cfg.statusPath, Decoded(Append(cfg.prefix, w)))
                      \/ /\ IsPrefix(Decoded(cfg.prefix), cfg.statusPath)
                         /\ cfg.defaults # <<>> \/ \E i \in DOMAIN cfg.statusPath : cfg.statusPath[i] \in URLHeads
      BY DEF StatusTakesOnlyItsOwn, Spelled, Encoded
  <2>1. cfg \in Configs /\ asked[r] \in Asks
      BY DEF ServerInv, SlotOf, Slot
  <2>. QED BY <2>1, StatusPathLies
<1>. QED BY <1>1, ServerInvariant, PTL

-----------------------------------------------------------------------------
(* The client follows a redirect that was handed back. *)

LEMMA Rejoined ==
    ASSUME NEW c \in Configs, c.prefix \in Seq(Encoded), NEW q \in Seq(Encoded), Len(q) >= 1,
           NEW a, a.raw = c.prefix \o q
    PROVE  UnderPrefix(c, a) /\ AfterPrefix(c, a) = q
<1> DEFINE p == c.prefix
<1>1. p \in Seq(Encoded)
    OBVIOUS
<1> HIDE DEF p
<1>2. Len(p) \in Nat /\ Len(q) \in Nat /\ Len(p \o q) = Len(p) + Len(q)
    BY <1>1
<1>3. SubSeq(p \o q, 1, Len(p)) = p /\ SubSeq(p, 1, Len(p)) = p
    BY <1>1
<1>4. SubSeq(p \o q, Len(p) + 1, Len(p \o q)) = q
    BY <1>1
<1>5. IsPrefix(p, p \o q)
    BY <1>2, <1>3 DEF IsPrefix
<1>6. a.raw = p \o q /\ c.prefix = p
    BY DEF p
<1>7. Len(p) + Len(q) > Len(p)
    BY <1>2
<1>8. Len(a.raw) > Len(p)
    BY <1>2, <1>6, <1>7
<1>9. IsPrefix(p, a.raw) /\ SubSeq(a.raw, Len(p) + 1, Len(a.raw)) = q
    BY <1>4, <1>5, <1>6
<1>. QED BY <1>6, <1>8, <1>9, Zenon DEF UnderPrefix, AfterPrefix

LEMMA BackPasses ==
    ASSUME NEW c \in Configs, NEW a \in Asks, Reason(c, a) = None, ~OnStatusPath(c, a)
    PROVE  LET next == [a EXCEPT !.raw = SelfBase(c, a) \o URLBack]
           IN  /\ UnderPrefix(c, next)
               /\ Passed(c, next) = [ok |-> TRUE, rest |-> URLBack]
               /\ OnStatusPath(c, next) => \E i \in DOMAIN c.statusPath : c.statusPath[i] = "https:"
<1> DEFINE base == SelfBase(c, a)
           rest == Passed(c, a).rest
           sp == c.statusPath
           next == [a EXCEPT !.raw = base \o URLBack]
           after == AfterPrefix(c, next)
<1>1. UnderPrefix(c, a) /\ Passed(c, a).ok
    BY ServerConstants DEF Reason, Reasons
<1>2. /\ base \in Seq(Encoded) /\ rest \in Seq(Encoded) /\ Len(rest) >= 1 /\ a.raw = base \o rest
      /\ \/ base = c.prefix /\ rest = AfterPrefix(c, a) /\ (c.anonymous \/ InHeaders(c, a.headers))
         \/ \E w \in Spelled(c) :
               /\ ~c.anonymous /\ InPath(c, AfterPrefix(c, a)) /\ w = Head(AfterPrefix(c, a))
               /\ base = Append(c.prefix, w)
    BY <1>1, PassedPath
<1>3. c.prefix \in Seq(Encoded)
    BY <1>1, BelowPrefix
<1>4. /\ URLBack \in Seq(Encoded) /\ Len(URLBack) = 3 /\ URLBack[1] = "https:"
      /\ Unescape["https:"] = <<"https:">>
  <2>1. URLBack = <<"https:", "", "elsewhere">> /\ DOMAIN URLBack = 1 .. 3
      BY DEF URLBack
  <2>2. \A i \in 1 .. 3 : URLBack[i] \in Encoded /\ Unescape[URLBack[i]] = <<URLBack[i]>>
      BY <2>1, ServerConstants DEF Decodable, Encoded
  <2>3. URLBack[1] = "https:" /\ URLBack[2] = "" /\ URLBack[3] = "elsewhere"
      BY <2>1
  <2>4. 1 \in 1 .. 3 /\ 2 \in 1 .. 3 /\ 3 \in 1 .. 3
      OBVIOUS
  <2>5. "https:" \in Encoded /\ "" \in Encoded /\ "elsewhere" \in Encoded /\ Unescape["https:"] = <<"https:">>
      BY <2>2, <2>3, <2>4
  <2>6. ASSUME NEW x \in Encoded, NEW y \in Encoded, NEW z \in Encoded
        PROVE  <<x, y, z>> \in Seq(Encoded) /\ Len(<<x, y, z>>) = 3
      OBVIOUS
  <2>. QED BY <2>1, <2>3, <2>5, <2>6, Zenon
<1>5. next.raw = base \o URLBack /\ next.headers = a.headers
  <2>1. "raw" \in DOMAIN a
    <3>1. DOMAIN a = DOMAIN NoAsk
        BY ServerConstants
    <3>. QED BY <3>1 DEF NoAsk
  <2>. QED BY <2>1
<1> HIDE DEF base, rest, sp, next
<1>6. Passed(c, next) = Check(c, a.headers, AfterPrefix(c, next))
    BY <1>5 DEF Passed
<1>7. UnderPrefix(c, next) /\ Passed(c, next) = [ok |-> TRUE, rest |-> URLBack]
  <2>1. CASE base = c.prefix /\ (c.anonymous \/ InHeaders(c, a.headers))
    <3>1. UnderPrefix(c, next) /\ AfterPrefix(c, next) = URLBack
      <4>1. next.raw = c.prefix \o URLBack /\ Len(URLBack) >= 1
          BY <1>4, <1>5, <2>1
      <4>. QED BY <1>3, <1>4, <4>1, Rejoined
    <3>2. ~InPath(c, URLBack)
      <4>1. Head(URLBack) = "https:"
          BY <1>4
      <4>2. c.token # "https:"
          BY ServerConstants, Zenon
      <4>3. Unescape[Head(URLBack)][1] = "https:"
        <5>1. Unescape[Head(URLBack)] = <<"https:">>
            BY <1>4, <4>1
        <5>. QED BY <5>1
      <4>. QED BY <4>1, <4>2, <4>3, Zenon DEF InPath, Equal
    <3>3. Passed(c, next) = [ok |-> c.anonymous \/ InHeaders(c, a.headers), rest |-> URLBack]
        BY <1>6, <3>1, <3>2, Zenon DEF Check
    <3>4. (c.anonymous \/ InHeaders(c, a.headers)) = TRUE
        BY <2>1, Zenon
    <3>. QED BY <3>1, <3>3, <3>4, Zenon
  <2>2. ASSUME NEW w \in Spelled(c), ~c.anonymous, InPath(c, AfterPrefix(c, a)), w = Head(AfterPrefix(c, a)),
               base = Append(c.prefix, w)
        PROVE  UnderPrefix(c, next) /\ Passed(c, next) = [ok |-> TRUE, rest |-> URLBack]
    <3> DEFINE q == <<w>> \o URLBack
    <3>1. w \in Encoded
        BY DEF Spelled
    <3>2. /\ q \in Seq(Encoded) /\ Len(q) = 4 /\ Head(q) = w /\ Tail(q) = URLBack
          /\ Append(c.prefix, w) \o URLBack = c.prefix \o q
      <4>1. PICK u \in Seq(Encoded), p \in Seq(Encoded) : u = URLBack /\ p = c.prefix
          BY <1>3, <1>4
      <4> DEFINE x == <<w>>
      <4>2. x \in Seq(Encoded) /\ Append(p, w) = p \o x /\ Len(x) = 1 /\ x[1] = w
          BY <3>1
      <4>3. /\ x \o u \in Seq(Encoded) /\ Len(x \o u) = 1 + Len(u) /\ (x \o u)[1] = w
        <5> HIDE DEF x
        <5>. QED BY <4>2
      <4>4. Tail(x \o u) = u
          BY <3>1
      <4>5. (p \o x) \o u = p \o (x \o u)
        <5> HIDE DEF x
        <5>1. p \in Seq(Encoded) /\ x \in Seq(Encoded) /\ u \in Seq(Encoded)
            BY <4>2
        <5>. QED BY <5>1, EncodedRegroup, Zenon
      <4>6. Head(x \o u) = w
        <5> HIDE DEF x
        <5>. QED BY <4>3
      <4>7. q = x \o u
          BY <4>1
      <4> HIDE DEF x, q
      <4>8. q \in Seq(Encoded) /\ Len(q) = 4 /\ Head(q) = w
        <5>1. q \in Seq(Encoded) /\ Head(q) = w /\ Len(q) = 1 + Len(u)
            BY <4>3, <4>6, <4>7, Zenon
        <5>2. Len(u) = 3
            BY <1>4, <4>1, Zenon
        <5>. QED BY <5>1, <5>2
      <4>9. Tail(q) = URLBack
          BY <4>1, <4>4, <4>7, Zenon
      <4>10. Append(c.prefix, w) \o URLBack = c.prefix \o q
          BY <4>1, <4>2, <4>5, <4>7, Zenon
      <4>. QED BY <4>8, <4>9, <4>10
    <3>3. base \o URLBack = c.prefix \o q
        BY <2>2, <3>2
    <3> HIDE DEF q
    <3>4. UnderPrefix(c, next) /\ AfterPrefix(c, next) = q
      <4>1. next.raw = c.prefix \o q /\ Len(q) >= 1
          BY <1>5, <3>2, <3>3
      <4>. QED BY <1>3, <3>2, <4>1, Rejoined
    <3>5. InPath(c, q)
        BY <2>2, <3>2 DEF InPath
    <3>6. Check(c, a.headers, q) = [ok |-> TRUE, rest |-> URLBack]
        BY <2>2, <3>2, <3>5, Zenon DEF Check
    <3>. QED BY <1>6, <3>4, <3>6
  <2>. QED BY <1>2, <2>1, <2>2
<1>8. ASSUME OnStatusPath(c, next) PROVE \E i \in DOMAIN sp : sp[i] = "https:"
  <2>1. /\ Decoded(next.raw) = Decoded(base) \o Decoded(URLBack)
        /\ Decoded(a.raw) = Decoded(base) \o Decoded(rest)
      BY <1>2, <1>4, <1>5, DecodedBoth
  <2>2. /\ sp \in Paths /\ Decoded(base) \in Paths /\ Decoded(URLBack) \in Paths /\ Decoded(rest) \in Paths
      BY <1>2, <1>4, DecodedType, AskedPath DEF Paths, sp
  <2>3. ~IsPrefix(sp, Decoded(base))
    <3>1. ~IsPrefix(sp, Decoded(a.raw))
        BY <1>8 DEF OnStatusPath, sp
    <3>. QED BY <2>1, <2>2, <3>1, PrefixOfLonger
  <2>4. IsPrefix(sp, Decoded(next.raw))
      BY <1>8 DEF OnStatusPath, sp
  <2>5. Len(Decoded(base)) + 1 \in DOMAIN sp /\ sp[Len(Decoded(base)) + 1] = Decoded(URLBack)[1]
      BY <2>1, <2>2, <2>3, <2>4, PrefixOfBoth
  <2>6. Decoded(URLBack)[1] = "https:"
    <3>1. Decoded(URLBack)[1] = Head(Unescape[URLBack[1]])
        BY <1>4, DecodedHead
    <3>. QED BY <1>4, <3>1
  <2>. QED BY <2>5, <2>6
<1>. QED BY <1>7, <1>8 DEF base, sp, next

\* Whatever redirect GitHub sends, for every prefix, token and way to prove it: the
\* client's next request is let in, with the redirect's URL left to match.
THEOREM FollowUpCorrect == Spec => []FollowUpAccepted
<1>1. ServerInv /\ AccountInv => FollowUpAccepted
  <2> SUFFICES ASSUME ServerInv, AccountInv, NEW r \in Requests, out[r].loc.base = "self"
               PROVE  LET next == [asked[r] EXCEPT !.raw = SelfBase(cfg, asked[r]) \o URLBack]
                      IN  /\ UnderPrefix(cfg, next)
                          /\ Passed(cfg, next) = [ok |-> TRUE, rest |-> URLBack]
                          /\ OnStatusPath(cfg, next) => \E i \in DOMAIN cfg.statusPath : cfg.statusPath[i] = "https:"
      BY DEF FollowUpAccepted
  <2>1. pc[r] # "idle"
      BY DEF AccountInv, AccountOf, Account
  <2>2. /\ cfg \in Configs /\ asked[r] \in Asks /\ Reason(cfg, asked[r]) = None
        /\ ~OnStatusPath(cfg, asked[r])
      BY <2>1 DEF ServerInv, SlotOf, Slot
  <2>. QED BY <2>2, BackPasses
<1>. QED BY <1>1, ServerInvariant, Initially, InitiallyCounted, NextCounted, PTL DEF Spec

-----------------------------------------------------------------------------
(***************************************************************************)
(* What an embedded URL means, and what the code makes of it.  Meaning     *)
(* says how a URL may be spelled and what it stands for; ghurl repairs,    *)
(* prepares and matches.  Both name the same target: the spelling is       *)
(* undone, then path shape by path shape, then for the short form.         *)
(***************************************************************************)

LEMMA FirstOff ==
    ASSUME NEW u \in Paths, Len(u) >= 1
    PROVE  Tail(u) = SubSeq(u, 2, Len(u)) /\ u = <<u[1]>> \o SubSeq(u, 2, Len(u))
BY DEF Paths

LEMMA FromHere ==
    ASSUME NEW u \in Paths, NEW k \in 1 .. Len(u)
    PROVE  SubSeq(u, k, Len(u)) = <<u[k]>> \o SubSeq(u, k + 1, Len(u))
<1>1. Len(u) \in Nat /\ k \in Nat /\ k <= Len(u)
    BY DEF Paths
<1> DEFINE v == SubSeq(u, k, Len(u))
           w == SubSeq(u, k + 1, Len(u))
           x == <<u[k]>> \o w
<1>2. /\ v \in Paths /\ Len(v) = Len(u) - k + 1
      /\ \A i \in 1 .. Len(u) - k + 1 : v[i] = u[k + i - 1]
    BY <1>1 DEF Paths
<1>3. /\ w \in Paths /\ Len(w) = Len(u) - k
      /\ \A i \in 1 .. Len(u) - k : w[i] = u[k + i]
    BY <1>1 DEF Paths
<1>4. u[k] \in STRING
    BY <1>1 DEF Paths
<1> HIDE DEF w
<1>5. /\ x \in Paths /\ Len(x) = Len(u) - k + 1 /\ x[1] = u[k]
      /\ \A i \in 2 .. Len(u) - k + 1 : x[i] = w[i - 1]
  <2>1. <<u[k]>> \in Paths /\ Len(<<u[k]>>) = 1 /\ <<u[k]>>[1] = u[k]
      BY <1>4 DEF Paths
  <2> DEFINE e == <<u[k]>>
  <2> HIDE DEF e
  <2>2. e \in Seq(STRING) /\ Len(e) = 1 /\ e[1] = u[k] /\ w \in Seq(STRING) /\ Len(w) = Len(u) - k
      BY <1>3, <2>1, Zenon DEF e, Paths
  <2> DEFINE z == e \o w
  <2>8. e \in Seq(STRING) /\ w \in Seq(STRING)
      BY <2>2
  <2>9. Len(e) \in Nat /\ Len(w) \in Nat /\ Len(e) >= 1
      BY <2>2, <2>8
  <2>3. z \in Seq(STRING) /\ Len(z) = Len(e) + Len(w)
      BY <2>8
  <2>4. z[1] = e[1]
      BY <2>8, <2>9
  <2>5. ASSUME NEW i \in 1 .. Len(w) PROVE z[Len(e) + i] = w[i]
      BY <2>8, <2>9
  <2> HIDE DEF z
  <2>6. Len(z) = Len(u) - k + 1 /\ z[1] = u[k]
      BY <1>1, <2>2, <2>3, <2>4
  <2>7. ASSUME NEW i \in 2 .. Len(u) - k + 1 PROVE z[i] = w[i - 1]
    <3>1. i - 1 \in 1 .. Len(w) /\ Len(e) + (i - 1) = i
        BY <1>1, <2>2
    <3>2. z[Len(e) + (i - 1)] = w[i - 1]
        BY <2>5, <3>1
    <3>. QED BY <3>1, <3>2
  <2>. QED BY <2>3, <2>6, <2>7, Zenon DEF z, e, Paths
<1> HIDE DEF v, x
<1>6. ASSUME NEW i \in 1 .. Len(u) - k + 1 PROVE v[i] = x[i]
  <2>1. CASE i = 1
      BY <1>1, <1>2, <1>5, <2>1
  <2>2. CASE i # 1
    <3>1. i \in 2 .. Len(u) - k + 1 /\ i - 1 \in 1 .. Len(u) - k /\ k + (i - 1) = k + i - 1
        BY <1>1, <2>2
    <3>. QED BY <1>2, <1>3, <1>5, <3>1
  <2>. QED BY <2>1, <2>2
<1>7. v = [i \in 1 .. Len(u) - k + 1 |-> v[i]] /\ x = [i \in 1 .. Len(u) - k + 1 |-> x[i]]
    BY <1>1, <1>2, <1>5 DEF Paths
<1>8. v = x
    BY <1>6, <1>7
<1>. QED BY <1>8 DEF v, w, x

\* The first one, two or three words.
LEMMA BeginsWithOne ==
    ASSUME NEW u \in Paths, NEW n \in DOMAIN u, NEW a, SubSeq(u, 1, n) = <<a>>
    PROVE  n = 1 /\ u[1] = a
<1> DEFINE v == SubSeq(u, 1, n)
<1>1. n \in Nat /\ n >= 1 /\ v \in Paths /\ Len(v) = n /\ \A i \in 1 .. n : v[i] = u[i]
    BY DEF Paths
<1>2. v = <<a>>
    OBVIOUS
<1> HIDE DEF v
<1>3. Len(v) = 1 /\ v[1] = a
    BY <1>2
<1>. QED BY <1>1, <1>3

LEMMA BeginsWithTwo ==
    ASSUME NEW u \in Paths, NEW n \in DOMAIN u, NEW a, NEW b, SubSeq(u, 1, n) = <<a, b>>
    PROVE  n = 2 /\ 2 \in 1 .. Len(u) /\ Len(u) >= 2 /\ u[1] = a /\ u[2] = b
<1> DEFINE v == SubSeq(u, 1, n)
<1>1. n \in Nat /\ n >= 1 /\ n <= Len(u) /\ Len(u) \in Nat
      /\ v \in Paths /\ Len(v) = n /\ \A i \in 1 .. n : v[i] = u[i]
    BY DEF Paths
<1>2. v = <<a, b>>
    OBVIOUS
<1> HIDE DEF v
<1>3. Len(v) = 2 /\ v[1] = a /\ v[2] = b
    BY <1>2
<1>. QED BY <1>1, <1>3

LEMMA BeginsWithThree ==
    ASSUME NEW u \in Paths, NEW n \in DOMAIN u, NEW a, NEW b, NEW c, SubSeq(u, 1, n) = <<a, b, c>>
    PROVE  n = 3 /\ 3 \in 1 .. Len(u) /\ Len(u) >= 3 /\ u[1] = a /\ u[2] = b /\ u[3] = c
<1> DEFINE v == SubSeq(u, 1, n)
<1>1. n \in Nat /\ n >= 1 /\ n <= Len(u) /\ Len(u) \in Nat
      /\ v \in Paths /\ Len(v) = n /\ \A i \in 1 .. n : v[i] = u[i]
    BY DEF Paths
<1>2. v = <<a, b, c>>
    OBVIOUS
<1> HIDE DEF v
<1>3. Len(v) = 3 /\ v[1] = a /\ v[2] = b /\ v[3] = c
    BY <1>2
<1>. QED BY <1>1, <1>3

\* However an authority is spelled, it is what the scheme is taken off.
LEMMA AfterSpelling ==
    ASSUME NEW u \in Paths, NEW n \in DOMAIN u, NEW word, Spells(SubSeq(u, 1, n), word)
    PROVE  AfterScheme(u) = <<word>> \o SubSeq(u, n + 1, Len(u))
<1>1. Len(u) \in Nat /\ Len(u) >= 1 /\ n \in 1 .. Len(u)
    BY DEF Paths
<1>2. u = <<u[1]>> \o SubSeq(u, 2, Len(u)) /\ Tail(u) = SubSeq(u, 2, Len(u))
    BY <1>1, FirstOff
<1>3. Schemes \cap DOMAIN Unglued = {}
    BY ServerConstants
<1>4. CASE SubSeq(u, 1, n) = <<word>> /\ Bare(word)
  <2>1. n = 1 /\ u[1] = word
      BY <1>4, BeginsWithOne
  <2>2. AfterScheme(u) = u
      BY <1>4, <2>1 DEF AfterScheme, Bare, Schemes
  <2>. QED BY <1>2, <2>1, <2>2
<1>5. ASSUME NEW scheme \in Schemes, SubSeq(u, 1, n) = <<scheme, "", word>>
      PROVE  AfterScheme(u) = <<word>> \o SubSeq(u, n + 1, Len(u))
  <2>1. n = 3 /\ 3 \in 1 .. Len(u) /\ Len(u) >= 3 /\ u[1] = scheme /\ u[2] = "" /\ u[3] = word
    <3>1. ASSUME NEW b, SubSeq(u, 1, n) = <<scheme, b, word>>
          PROVE  n = 3 /\ 3 \in 1 .. Len(u) /\ Len(u) >= 3 /\ u[1] = scheme /\ u[2] = b /\ u[3] = word
        BY <3>1, BeginsWithThree
    <3>. QED BY <1>5, <3>1, Zenon
  <2>3. u[1] \in {"https:", "http:"}
      BY <2>1 DEF Schemes
  <2>4. AfterScheme(u) = SubSeq(u, 3, Len(u))
      BY <2>1, <2>3, Zenon DEF AfterScheme
  <2>5. SubSeq(u, 3, Len(u)) = <<u[3]>> \o SubSeq(u, 3 + 1, Len(u))
      BY <2>1, FromHere
  <2>6. SubSeq(u, 3 + 1, Len(u)) = SubSeq(u, n + 1, Len(u)) /\ u[3] = word
      BY <2>1, Zenon
  <2>. QED BY <2>4, <2>5, <2>6, Zenon
<1>6. ASSUME NEW scheme \in Schemes, SubSeq(u, 1, n) = <<scheme, word>>, word # ""
      PROVE  AfterScheme(u) = <<word>> \o SubSeq(u, n + 1, Len(u))
  <2>1. n = 2 /\ 2 \in 1 .. Len(u) /\ Len(u) >= 2 /\ u[1] = scheme /\ u[2] = word
      BY <1>6, BeginsWithTwo
  <2>3. u[1] \in {"https:", "http:"} /\ u[2] # ""
      BY <1>6, <2>1 DEF Schemes
  <2>4. AfterScheme(u) = Tail(u)
      BY <2>1, <2>3, Zenon DEF AfterScheme
  <2>5. SubSeq(u, 2, Len(u)) = <<u[2]>> \o SubSeq(u, 2 + 1, Len(u))
      BY <2>1, FromHere
  <2>6. SubSeq(u, 2 + 1, Len(u)) = SubSeq(u, n + 1, Len(u)) /\ u[2] = word
      BY <2>1, Zenon
  <2>. QED BY <1>2, <2>4, <2>5, <2>6, Zenon
<1>7. ASSUME NEW glued \in DOMAIN Unglued, SubSeq(u, 1, n) = <<glued>>, word = Unglued[glued]
      PROVE  AfterScheme(u) = <<word>> \o SubSeq(u, n + 1, Len(u))
  <2>1. n = 1 /\ u[1] = glued
      BY <1>7, BeginsWithOne
  <2>2. AfterScheme(u) = <<Unglued[u[1]]>> \o Tail(u)
      BY <1>3, <2>1 DEF AfterScheme, Schemes
  <2>. QED BY <1>2, <1>7, <2>1, <2>2
<1>. QED BY <1>4, <1>5, <1>6, <1>7 DEF Spells

LEMMA PartIs ==
    ASSUME NEW s \in Paths, NEW i \in Nat \ {0}, NEW j \in Nat, j <= Len(s), i <= j + 1
    PROVE  /\ SubSeq(s, i, j) \in Paths /\ Len(SubSeq(s, i, j)) = j - i + 1
           /\ \A k \in 1 .. j - i + 1 : SubSeq(s, i, j)[k] = s[i + k - 1]
<1>1. s \in Seq(STRING) /\ Len(s) \in Nat
    BY DEF Paths
<1>. QED BY <1>1 DEF Paths

LEMMA OneWord == ASSUME NEW S, NEW w \in S PROVE <<w>> \in Seq(S)
OBVIOUS

LEMMA WordBefore ==
    ASSUME NEW word \in STRING, NEW path \in Paths
    PROVE  LET s == <<word>> \o path
           IN  /\ s \in Paths /\ Len(s) = Len(path) + 1 /\ s[1] = word
               /\ \A i \in 1 .. Len(path) : s[i + 1] = path[i]
               /\ Tail(s) = path
<1> DEFINE e == <<word>>
<1>12. Len(e) = 1 /\ e[1] = word
    OBVIOUS
<1>13. e \in Seq(STRING)
    BY OneWord, Zenon
<1>1. e \in Seq(STRING) /\ Len(e) = 1 /\ e[1] = word
    BY <1>12, <1>13
<1> HIDE DEF e
<1> DEFINE s == e \o path
<1>2. e \in Seq(STRING) /\ path \in Seq(STRING)
    BY <1>1 DEF Paths
<1>3. Len(path) \in Nat /\ Len(e) \in Nat /\ Len(e) >= 1
    BY <1>1, <1>2
<1>4. s \in Seq(STRING) /\ Len(s) = Len(e) + Len(path)
    BY <1>2
<1>5. s[1] = e[1]
    BY <1>2, <1>3
<1>6. ASSUME NEW i \in 1 .. Len(path) PROVE s[Len(e) + i] = path[i]
    BY <1>2, <1>3
<1> HIDE DEF s
<1>7. ASSUME NEW i \in 1 .. Len(path) PROVE s[i + 1] = path[i]
    BY <1>1, <1>3, <1>6
<1> DEFINE t == Tail(s)
<1>8. Len(s) = Len(path) + 1 /\ s # <<>>
    BY <1>1, <1>3, <1>4
<1>9. t \in Seq(STRING) /\ Len(t) = Len(s) - 1 /\ \A i \in 1 .. Len(t) : t[i] = s[i + 1]
    BY <1>4, <1>8, HeadTailProperties
<1> HIDE DEF t
<1>10. Len(t) = Len(path) /\ \A i \in 1 .. Len(path) : t[i] = path[i]
    BY <1>3, <1>7, <1>8, <1>9
<1>11. t = path
    BY <1>2, <1>9, <1>10
<1>. QED BY <1>1, <1>4, <1>5, <1>7, <1>8, <1>11, Zenon DEF s, e, t, Paths

\* The URL that is prepared has the authority that was spelled and the path behind it.
LEMMA Prepared ==
    ASSUME NEW raw \in Paths, raw \in Seq(Encoded), Len(raw) >= 1, NEW u, u = Unwrapped(raw),
           NEW n \in DOMAIN u, NEW word \in DOMAIN Authority, Spells(SubSeq(u, 1, n), word),
           NEW path, path = SubSeq(u, n + 1, Len(u))
    PROVE  /\ path \in Paths
           /\ Prepare(raw) = IF Decodable(path) THEN [authority |-> word, path |-> path] ELSE NoURL
<1>1. u \in Paths
    BY DecodedType DEF Unwrapped, Paths
<1>2. Decodable(raw)
    BY DEF Decodable, Encoded
<1>3. RepairScheme(raw) = AfterScheme(u)
    BY <1>2, Zenon DEF RepairScheme, Unwrapped
<1>4. RepairScheme(raw) = <<word>> \o path
    BY <1>1, <1>3, AfterSpelling, Zenon
<1>5. path \in Paths
  <2>1. Len(u) \in Nat /\ n \in 1 .. Len(u)
      BY <1>1 DEF Paths
  <2>2. n + 1 \in Nat \ {0} /\ n + 1 <= Len(u) + 1 /\ Len(u) <= Len(u)
      BY <2>1
  <2>. QED BY <1>1, <2>1, <2>2, PartIs
<1>9. word \in STRING
    BY ServerConstants
<1> DEFINE s == <<word>> \o path
<1>6. s[1] = word /\ Tail(s) = path
    BY <1>5, <1>9, WordBefore, Zenon
<1> HIDE DEF s
<1>7. RepairScheme(raw) = s
    BY <1>4 DEF s
<1>8. Prepare(raw) = IF Decodable(path) THEN [authority |-> word, path |-> path] ELSE NoURL
    BY <1>6, <1>7 DEF Prepare
<1>. QED BY <1>5, <1>8

-----------------------------------------------------------------------------
(* The shapes, one by one. *)

Continues(s, any, w, end) ==
    LET n == any + Len(w) IN
    /\ n <= Len(s) /\ SubSeq(s, any + 1, n) = w
    /\ end = "here" => Len(s) = n
    /\ end = "more" => Len(s) > n /\ SubSeq(s, n + 1, Len(s)) # <<"">>

Named(s) == Len(s) >= 2 /\ s[1] # "" /\ s[2] # ""

LEMMA FitsIs ==
    ASSUME NEW shape, NEW s
    PROVE  Fits(shape, s) <=> /\ \A i \in 1 .. Names(shape.kind) : i <= Len(s) /\ s[i] # ""
                              /\ \E w \in shape.then : Continues(s, shape.any, w, shape.end)
BY Zenon DEF Fits, Continues

LEMMA NoWordIs == ASSUME NEW v \in Paths PROVE v = <<>> <=> Len(v) = 0
BY DEF Paths

LEMMA OneWordIs == ASSUME NEW v \in Paths, NEW x PROVE v = <<x>> <=> Len(v) = 1 /\ v[1] = x
<1>1. ASSUME v = <<x>> PROVE Len(v) = 1 /\ v[1] = x
    BY <1>1
<1>2. ASSUME Len(v) = 1, v[1] = x PROVE v = <<x>>
    BY <1>2 DEF Paths
<1>. QED BY <1>1, <1>2

LEMMA TwoWordsIs ==
    ASSUME NEW v \in Paths, NEW x, NEW y PROVE v = <<x, y>> <=> Len(v) = 2 /\ v[1] = x /\ v[2] = y
<1>1. ASSUME v = <<x, y>> PROVE Len(v) = 2 /\ v[1] = x /\ v[2] = y
    BY <1>1
<1>2. ASSUME Len(v) = 2, v[1] = x, v[2] = y PROVE v = <<x, y>>
    BY <1>2 DEF Paths
<1>. QED BY <1>1, <1>2

\* The rest of a path behind owner and repository.
LEMMA RestIs ==
    ASSUME NEW s \in Paths, NEW j \in Nat, 3 <= j, j <= Len(s)
    PROVE  /\ SubSeq(s, 3, j) \in Paths /\ Len(SubSeq(s, 3, j)) = j - 2
           /\ SubSeq(s, 3, j)[1] = s[3]
           /\ j >= 4 => SubSeq(s, 3, j)[2] = s[4]
<1> DEFINE v == SubSeq(s, 3, j)
<1>1. 3 \in Nat \ {0} /\ 3 <= j + 1
    OBVIOUS
<1>2. v \in Paths /\ Len(v) = j - 3 + 1 /\ \A k \in 1 .. j - 3 + 1 : v[k] = s[3 + k - 1]
    BY <1>1, PartIs, Zenon
<1>3. 1 \in 1 .. j - 3 + 1 /\ 3 + 1 - 1 = 3 /\ j - 3 + 1 = j - 2
    OBVIOUS
<1>4. j >= 4 => 2 \in 1 .. j - 3 + 1
    OBVIOUS
<1>5. v[1] = s[3 + 1 - 1]
    BY <1>2, <1>3, Zenon
<1>6. j >= 4 => v[2] = s[3 + 2 - 1]
    BY <1>2, <1>4, Zenon
<1>7. 3 + 2 - 1 = 4
    OBVIOUS
<1>. QED BY <1>2, <1>3, <1>5, <1>6, <1>7, Zenon

LEMMA WithOneWord ==
    ASSUME NEW s \in Paths, NEW x, NEW end
    PROVE  Continues(s, 2, <<x>>, end) <=> /\ Len(s) >= 3 /\ s[3] = x
                                           /\ end = "here" => Len(s) = 3
                                           /\ end = "more" => HasTail(s, 3)
<1>1. Len(<<x>>) = 1 /\ 2 + 1 = 3 /\ 3 + 1 = 4
    OBVIOUS
<1>2. Len(s) \in Nat
    BY DEF Paths
<1>3. Continues(s, 2, <<x>>, end) <=> /\ 3 <= Len(s) /\ SubSeq(s, 3, 3) = <<x>>
                                      /\ end = "here" => Len(s) = 3
                                      /\ end = "more" => Len(s) > 3 /\ SubSeq(s, 4, Len(s)) # <<"">>
    BY <1>1, Zenon DEF Continues
<1>4. HasTail(s, 3) <=> Len(s) > 3 /\ SubSeq(s, 4, Len(s)) # <<"">>
    BY <1>1, Zenon DEF HasTail
<1>5. ASSUME 3 <= Len(s) PROVE SubSeq(s, 3, 3) = <<x>> <=> s[3] = x
  <2> DEFINE v == SubSeq(s, 3, 3)
  <2>4. 3 \in Nat /\ 3 <= 3 /\ 3 - 2 = 1
      OBVIOUS
  <2>1. v \in Paths /\ Len(v) = 3 - 2 /\ v[1] = s[3]
      BY <1>5, <2>4, RestIs, Zenon
  <2>2. v = <<x>> <=> Len(v) = 1 /\ v[1] = x
      BY <2>1, OneWordIs
  <2> HIDE DEF v
  <2>3. v = <<x>> <=> s[3] = x
      BY <2>1, <2>2
  <2>. QED BY <2>3 DEF v
<1>6. 3 <= Len(s) <=> Len(s) >= 3
    BY <1>2
<1>. QED BY <1>3, <1>4, <1>5, <1>6, Zenon

LEMMA WithTwoWords ==
    ASSUME NEW s \in Paths, NEW x, NEW y
    PROVE  Continues(s, 2, <<x, y>>, "here") <=> Len(s) = 4 /\ s[3] = x /\ s[4] = y
<1>1. Len(<<x, y>>) = 2 /\ 2 + 2 = 4 /\ 2 + 1 = 3 /\ "here" # "more"
    OBVIOUS
<1>2. Len(s) \in Nat
    BY DEF Paths
<1>3. Continues(s, 2, <<x, y>>, "here") <=> 4 <= Len(s) /\ SubSeq(s, 3, 4) = <<x, y>> /\ Len(s) = 4
    BY <1>1, Zenon DEF Continues
<1>4. ASSUME Len(s) = 4 PROVE SubSeq(s, 3, 4) = <<x, y>> <=> s[3] = x /\ s[4] = y
  <2> DEFINE v == SubSeq(s, 3, 4)
  <2>4. 4 \in Nat /\ 3 <= 4 /\ 4 <= Len(s) /\ 4 >= 4
      BY <1>4
  <2>1. v \in Paths /\ Len(v) = 4 - 2 /\ v[1] = s[3] /\ v[2] = s[4]
      BY <2>4, RestIs, Zenon
  <2> HIDE DEF v
  <2>5. v \in Paths
      BY <2>1
  <2>2. v = <<x, y>> <=> Len(v) = 2 /\ v[1] = x /\ v[2] = y
      BY <2>5, TwoWordsIs
  <2>3. v = <<x, y>> <=> s[3] = x /\ s[4] = y
      BY <2>1, <2>2
  <2>. QED BY <2>3 DEF v
<1>5. Len(s) = 4 => 4 <= Len(s)
    BY <1>2
<1>. QED BY <1>3, <1>4, <1>5, Zenon

LEMMA WithNoWord ==
    ASSUME NEW s \in Paths, NEW any \in {2, 3}
    PROVE  Continues(s, any, <<>>, "more") <=> HasTail(s, any)
<1>1. Len(<<>>) = 0 /\ any + 0 = any /\ any \in Nat /\ any + 1 \in Nat \ {0} /\ "here" # "more"
    OBVIOUS
<1>2. Len(s) \in Nat
    BY DEF Paths
<1>3. Continues(s, any, <<>>, "more") <=>
          /\ any <= Len(s) /\ SubSeq(s, any + 1, any) = <<>>
          /\ Len(s) > any /\ SubSeq(s, any + 1, Len(s)) # <<"">>
    BY <1>1, Zenon DEF Continues
<1>4. ASSUME any <= Len(s) PROVE SubSeq(s, any + 1, any) = <<>>
    BY <1>1, <1>2, <1>4, PartIs, NoWordIs
<1>5. Len(s) > any => any <= Len(s)
    BY <1>1, <1>2
<1>. QED BY <1>3, <1>4, <1>5, Zenon DEF HasTail

LEMMA OwnerRepoIs ==
    ASSUME NEW s \in Paths
    PROVE  OwnerRepo(s) <=> Named(s) /\ Len(s) >= 3 /\ ~(Len(s) = 3 /\ s[3] = "")
<1>1. Len(s) \in Nat /\ 2 + 1 = 3
    BY DEF Paths
<1>2. ASSUME Len(s) >= 3 PROVE SubSeq(s, 3, Len(s)) = <<"">> <=> Len(s) = 3 /\ s[3] = ""
  <2> DEFINE v == SubSeq(s, 3, Len(s))
  <2>5. 3 <= Len(s) /\ Len(s) <= Len(s)
      BY <1>1, <1>2
  <2>1. v \in Paths /\ Len(v) = Len(s) - 2 /\ v[1] = s[3]
      BY <1>1, <2>5, RestIs, Zenon
  <2>2. v = <<"">> <=> Len(v) = 1 /\ v[1] = ""
      BY <2>1, OneWordIs
  <2> HIDE DEF v
  <2>3. Len(v) = 1 <=> Len(s) = 3
      BY <1>1, <2>1
  <2>4. v = <<"">> <=> Len(s) = 3 /\ s[3] = ""
      BY <2>1, <2>2, <2>3
  <2>. QED BY <2>4 DEF v
<1>3. (Len(s) > 2 <=> Len(s) >= 3) /\ (Len(s) >= 3 => Len(s) >= 2)
    BY <1>1
<1>4. HasTail(s, 2) <=> Len(s) > 2 /\ SubSeq(s, 3, Len(s)) # <<"">>
    BY <1>1, Zenon DEF HasTail
<1>. QED BY <1>2, <1>3, <1>4, Zenon DEF OwnerRepo, Named

-----------------------------------------------------------------------------
(* What Shapes has, by kind. *)

ShapeRelease == [kind |-> "release", hosts |-> GitHub, any |-> 2, then |-> {<<"releases">>, <<"archive">>}, end |-> "more"]
ShapeBlob == [kind |-> "blob", hosts |-> GitHub, any |-> 2, then |-> {<<"blob">>, <<"raw">>}, end |-> "more"]
ShapeGit == [kind |-> "git", hosts |-> GitHub, any |-> 2, end |-> "here",
             then |-> {<<"info", "refs">>, <<"git-upload-pack">>, <<"git-receive-pack">>}]
ShapeTags == [kind |-> "tags", hosts |-> GitHub, any |-> 2, then |-> {<<"tags">>}, end |-> "open"]
ShapeRaw == [kind |-> "raw", hosts |-> {"raw.githubusercontent.com", "raw.github.com"}, any |-> 3,
             then |-> {<<>>}, end |-> "more"]
ShapeGist == [kind |-> "gist", hosts |-> {"gist.github.com", "gist.githubusercontent.com"}, any |-> 2,
              then |-> {<<>>}, end |-> "more"]

LEMMA ShapesAre == Shapes = {ShapeRelease, ShapeBlob, ShapeGit, ShapeTags, ShapeRaw, ShapeGist}
BY Zenon DEF Shapes, ShapeRelease, ShapeBlob, ShapeGit, ShapeTags, ShapeRaw, ShapeGist

LEMMA NamesTwo == ASSUME NEW s \in Paths PROVE (\A i \in 1 .. 2 : i <= Len(s) /\ s[i] # "") <=> Named(s)
<1>1. Len(s) \in Nat
    BY DEF Paths
<1>2. ASSUME Named(s), NEW i \in 1 .. 2 PROVE i <= Len(s) /\ s[i] # ""
  <2>1. Len(s) >= 2 /\ s[1] # "" /\ s[2] # ""
      BY <1>2 DEF Named
  <2>2. i = 1 \/ i = 2
      OBVIOUS
  <2>3. Len(s) >= 2
      BY <2>1
  <2>4. i <= Len(s)
      BY <1>1, <2>3
  <2>. QED BY <2>1, <2>2, <2>4
<1>3. ASSUME \A i \in 1 .. 2 : i <= Len(s) /\ s[i] # "" PROVE Named(s)
  <2>1. 1 \in 1 .. 2 /\ 2 \in 1 .. 2
      OBVIOUS
  <2>2. 2 <= Len(s) /\ s[1] # "" /\ s[2] # ""
      BY <1>3, <2>1, Zenon
  <2>. QED BY <1>1, <2>2 DEF Named
<1>. QED BY <1>2, <1>3

LEMMA FitsRelease ==
    ASSUME NEW s \in Paths
    PROVE  Fits(ShapeRelease, s) <=> Named(s) /\ Len(s) >= 3 /\ s[3] \in {"releases", "archive"} /\ HasTail(s, 3)
<1>1. /\ ShapeRelease.then = {<<"releases">>, <<"archive">>} /\ ShapeRelease.any = 2
      /\ ShapeRelease.end = "more" /\ ShapeRelease.kind = "release" /\ "more" # "here"
    BY DEF ShapeRelease
<1>2. Names("release") = 2
    BY DEF Names
<1>3. Fits(ShapeRelease, s) <=> /\ Named(s)
                                /\ \/ Continues(s, 2, <<"releases">>, "more")
                                   \/ Continues(s, 2, <<"archive">>, "more")
    BY <1>1, <1>2, FitsIs, NamesTwo, Zenon
<1>. QED BY <1>1, <1>3, WithOneWord

LEMMA FitsBlob ==
    ASSUME NEW s \in Paths
    PROVE  Fits(ShapeBlob, s) <=> Named(s) /\ Len(s) >= 3 /\ s[3] \in {"blob", "raw"} /\ HasTail(s, 3)
<1>1. /\ ShapeBlob.then = {<<"blob">>, <<"raw">>} /\ ShapeBlob.any = 2
      /\ ShapeBlob.end = "more" /\ ShapeBlob.kind = "blob" /\ "more" # "here"
    BY DEF ShapeBlob
<1>2. Names("blob") = 2
    BY DEF Names
<1>3. Fits(ShapeBlob, s) <=> /\ Named(s)
                             /\ \/ Continues(s, 2, <<"blob">>, "more")
                                \/ Continues(s, 2, <<"raw">>, "more")
    BY <1>1, <1>2, FitsIs, NamesTwo, Zenon
<1>. QED BY <1>1, <1>3, WithOneWord

\* The services of git, and where the service is asked for.
IsGit(s) == \/ Len(s) = 4 /\ s[3] = "info" /\ s[4] = "refs"
            \/ Len(s) = 3 /\ s[3] \in {"git-upload-pack", "git-receive-pack"}

LEMMA FitsGit == ASSUME NEW s \in Paths PROVE Fits(ShapeGit, s) <=> Named(s) /\ IsGit(s)
<1>1. /\ ShapeGit.then = {<<"info", "refs">>, <<"git-upload-pack">>, <<"git-receive-pack">>}
      /\ ShapeGit.any = 2 /\ ShapeGit.end = "here" /\ ShapeGit.kind = "git" /\ "more" # "here"
    BY DEF ShapeGit
<1>2. Names("git") = 2
    BY DEF Names
<1>3. Fits(ShapeGit, s) <=> /\ Named(s)
                            /\ \/ Continues(s, 2, <<"info", "refs">>, "here")
                               \/ Continues(s, 2, <<"git-upload-pack">>, "here")
                               \/ Continues(s, 2, <<"git-receive-pack">>, "here")
    BY <1>1, <1>2, FitsIs, NamesTwo, Zenon
<1>4. Continues(s, 2, <<"info", "refs">>, "here") <=> Len(s) = 4 /\ s[3] = "info" /\ s[4] = "refs"
    BY WithTwoWords
<1>5. ASSUME NEW x \in {"git-upload-pack", "git-receive-pack"}
      PROVE  Continues(s, 2, <<x>>, "here") <=> Len(s) = 3 /\ s[3] = x
  <2>1. Len(s) \in Nat
      BY DEF Paths
  <2>2. Continues(s, 2, <<x>>, "here") <=> Len(s) >= 3 /\ s[3] = x /\ Len(s) = 3
      BY <1>1, WithOneWord, Zenon
  <2>. QED BY <2>1, <2>2
<1>. QED BY <1>3, <1>4, <1>5, Zenon DEF IsGit

LEMMA FitsTags == ASSUME NEW s \in Paths PROVE Fits(ShapeTags, s) <=> Named(s) /\ Len(s) >= 3 /\ s[3] = "tags"
<1>1. /\ ShapeTags.then = {<<"tags">>} /\ ShapeTags.any = 2 /\ ShapeTags.end = "open"
      /\ ShapeTags.kind = "tags" /\ "open" # "here" /\ "open" # "more"
    BY DEF ShapeTags
<1>2. Names("tags") = 2
    BY DEF Names
<1>3. Fits(ShapeTags, s) <=> Named(s) /\ Continues(s, 2, <<"tags">>, "open")
    BY <1>1, <1>2, FitsIs, NamesTwo, Zenon
<1>. QED BY <1>1, <1>3, WithOneWord

LEMMA FitsRaw == ASSUME NEW s \in Paths PROVE Fits(ShapeRaw, s) <=> Named(s) /\ HasTail(s, 3)
<1>1. /\ ShapeRaw.then = {<<>>} /\ ShapeRaw.any = 3 /\ ShapeRaw.end = "more" /\ ShapeRaw.kind = "raw"
    BY DEF ShapeRaw
<1>2. Names("raw") = 2
    BY DEF Names
<1>3. Fits(ShapeRaw, s) <=> Named(s) /\ Continues(s, 3, <<>>, "more")
    BY <1>1, <1>2, FitsIs, NamesTwo, Zenon
<1>. QED BY <1>3, WithNoWord

LEMMA FitsGist == ASSUME NEW s \in Paths PROVE Fits(ShapeGist, s) <=> s[1] # "" /\ HasTail(s, 2)
<1>1. /\ ShapeGist.then = {<<>>} /\ ShapeGist.any = 2 /\ ShapeGist.end = "more" /\ ShapeGist.kind = "gist"
    BY DEF ShapeGist
<1>2. Names("gist") = 1 /\ Len(s) \in Nat
    BY DEF Names, Paths
<1>3. (\A i \in 1 .. 1 : i <= Len(s) /\ s[i] # "") <=> 1 <= Len(s) /\ s[1] # ""
    OBVIOUS
<1>4. Fits(ShapeGist, s) <=> 1 <= Len(s) /\ s[1] # "" /\ Continues(s, 2, <<>>, "more")
    BY <1>1, <1>2, <1>3, FitsIs, Zenon
<1>5. HasTail(s, 2) => 1 <= Len(s)
  <2>1. HasTail(s, 2) => Len(s) > 2
      BY DEF HasTail
  <2>2. Len(s) \in Nat
      BY <1>2
  <2>. QED BY <2>1, <2>2
<1>. QED BY <1>4, <1>5, WithNoWord

-----------------------------------------------------------------------------
(* No path has two shapes on a host, and the code knows each. *)

LEMMA KindsOnGitHub ==
    ASSUME NEW s \in Paths, NEW host \in GitHub, NEW k
    PROVE  k \in KindsAt(host, s) <=> \/ k = "release" /\ Fits(ShapeRelease, s)
                                      \/ k = "blob" /\ Fits(ShapeBlob, s)
                                      \/ k = "git" /\ Fits(ShapeGit, s)
                                      \/ k = "tags" /\ Fits(ShapeTags, s)
<1>1. /\ host \in ShapeRelease.hosts /\ host \in ShapeBlob.hosts /\ host \in ShapeGit.hosts
      /\ host \in ShapeTags.hosts
    BY DEF ShapeRelease, ShapeBlob, ShapeGit, ShapeTags
<1>2. host \notin ShapeRaw.hosts /\ host \notin ShapeGist.hosts
    BY DEF ShapeRaw, ShapeGist, GitHub
<1>3. /\ ShapeRelease.kind = "release" /\ ShapeBlob.kind = "blob" /\ ShapeGit.kind = "git"
      /\ ShapeTags.kind = "tags"
    BY DEF ShapeRelease, ShapeBlob, ShapeGit, ShapeTags
<1>4. k \in KindsAt(host, s) <=> \E x \in Shapes : host \in x.hosts /\ Fits(x, s) /\ k = x.kind
    BY Zenon DEF KindsAt
<1>5. k \in KindsAt(host, s) <=> \/ k = ShapeRelease.kind /\ Fits(ShapeRelease, s)
                                 \/ k = ShapeBlob.kind /\ Fits(ShapeBlob, s)
                                 \/ k = ShapeGit.kind /\ Fits(ShapeGit, s)
                                 \/ k = ShapeTags.kind /\ Fits(ShapeTags, s)
  <2>1. \A x : x \in Shapes /\ host \in x.hosts =>
                x = ShapeRelease \/ x = ShapeBlob \/ x = ShapeGit \/ x = ShapeTags
      BY <1>2, ShapesAre, Zenon
  <2>2. ShapeRelease \in Shapes /\ ShapeBlob \in Shapes /\ ShapeGit \in Shapes /\ ShapeTags \in Shapes
      BY ShapesAre, Zenon
  <2>3. ASSUME k \in KindsAt(host, s)
        PROVE  \/ k = ShapeRelease.kind /\ Fits(ShapeRelease, s)
               \/ k = ShapeBlob.kind /\ Fits(ShapeBlob, s)
               \/ k = ShapeGit.kind /\ Fits(ShapeGit, s)
               \/ k = ShapeTags.kind /\ Fits(ShapeTags, s)
      BY <1>4, <2>1, <2>3, Zenon
  <2>4. /\ k = ShapeRelease.kind /\ Fits(ShapeRelease, s) => k \in KindsAt(host, s)
        /\ k = ShapeBlob.kind /\ Fits(ShapeBlob, s) => k \in KindsAt(host, s)
        /\ k = ShapeGit.kind /\ Fits(ShapeGit, s) => k \in KindsAt(host, s)
        /\ k = ShapeTags.kind /\ Fits(ShapeTags, s) => k \in KindsAt(host, s)
      BY <1>1, <1>4, <2>2, Zenon
  <2>. QED BY <2>3, <2>4
<1>. QED BY <1>3, <1>5, Zenon

LEMMA KindsOnRaw ==
    ASSUME NEW s \in Paths, NEW host \in {"raw.githubusercontent.com", "raw.github.com"}, NEW k
    PROVE  k \in KindsAt(host, s) <=> k = "raw" /\ Fits(ShapeRaw, s)
<1>1. /\ host \notin ShapeRelease.hosts /\ host \notin ShapeBlob.hosts /\ host \notin ShapeGit.hosts
      /\ host \notin ShapeTags.hosts
    BY DEF ShapeRelease, ShapeBlob, ShapeGit, ShapeTags, GitHub
<1>2. host \in ShapeRaw.hosts /\ host \notin ShapeGist.hosts /\ ShapeRaw.kind = "raw"
    BY DEF ShapeRaw, ShapeGist
<1>3. k \in KindsAt(host, s) <=> \E x \in Shapes : host \in x.hosts /\ Fits(x, s) /\ k = x.kind
    BY Zenon DEF KindsAt
<1>. QED BY <1>1, <1>2, <1>3, ShapesAre, Zenon

LEMMA KindsOnGist ==
    ASSUME NEW s \in Paths, NEW host \in {"gist.github.com", "gist.githubusercontent.com"}, NEW k
    PROVE  k \in KindsAt(host, s) <=> k = "gist" /\ Fits(ShapeGist, s)
<1>1. /\ host \notin ShapeRelease.hosts /\ host \notin ShapeBlob.hosts /\ host \notin ShapeGit.hosts
      /\ host \notin ShapeTags.hosts
    BY DEF ShapeRelease, ShapeBlob, ShapeGit, ShapeTags, GitHub
<1>2. host \notin ShapeRaw.hosts /\ host \in ShapeGist.hosts /\ ShapeGist.kind = "gist"
    BY DEF ShapeRaw, ShapeGist
<1>3. k \in KindsAt(host, s) <=> \E x \in Shapes : host \in x.hosts /\ Fits(x, s) /\ k = x.kind
    BY Zenon DEF KindsAt
<1>. QED BY <1>1, <1>2, <1>3, ShapesAre, Zenon

LEMMA KindsElsewhere ==
    ASSUME NEW s, NEW host, host \notin SupportedHosts PROVE KindsAt(host, s) = {}
<1>1. \A x \in Shapes : host \notin x.hosts
    BY ShapesAre DEF ShapeRelease, ShapeBlob, ShapeGit, ShapeTags, ShapeRaw, ShapeGist, GitHub, SupportedHosts
<1>. QED BY <1>1, Zenon DEF KindsAt

LEMMA GitIs ==
    ASSUME NEW s \in Paths, Len(s) >= 3
    PROVE  SubSeq(s, 3, Len(s)) \in {<<"info", "refs">>, <<"git-upload-pack">>, <<"git-receive-pack">>} <=> IsGit(s)
<1> DEFINE v == SubSeq(s, 3, Len(s))
<1>1. Len(s) \in Nat /\ 3 <= Len(s) /\ Len(s) <= Len(s)
    BY DEF Paths
<1>2. v \in Paths /\ Len(v) = Len(s) - 2 /\ v[1] = s[3] /\ (Len(s) >= 4 => v[2] = s[4])
    BY <1>1, RestIs, Zenon
<1> HIDE DEF v
<1>3. v = <<"info", "refs">> <=> Len(v) = 2 /\ v[1] = "info" /\ v[2] = "refs"
  <2>1. v \in Paths
      BY <1>2
  <2>. QED BY <2>1, TwoWordsIs
<1>4. /\ v = <<"git-upload-pack">> <=> Len(v) = 1 /\ v[1] = "git-upload-pack"
      /\ v = <<"git-receive-pack">> <=> Len(v) = 1 /\ v[1] = "git-receive-pack"
    BY <1>2, OneWordIs
<1>5. (Len(v) = 2 <=> Len(s) = 4) /\ (Len(v) = 1 <=> Len(s) = 3) /\ (Len(s) = 4 => Len(s) >= 4)
    BY <1>1, <1>2
<1>6. v \in {<<"info", "refs">>, <<"git-upload-pack">>, <<"git-receive-pack">>} <=> IsGit(s)
    BY <1>2, <1>3, <1>4, <1>5, Zenon DEF IsGit
<1>. QED BY <1>6 DEF v

LEMMA GithubKinds ==
    ASSUME NEW s \in Paths, NEW host \in GitHub, NEW k
    PROVE  k \in KindsAt(host, s) <=> k = GithubKind(s) /\ k # None
<1>1. Len(s) \in Nat /\ None \notin {"release", "blob", "git", "tags"}
  <2>1. None \notin TargetKinds
      BY ServerConstants, Zenon
  <2>2. Len(s) \in Nat
      BY DEF Paths
  <2>. QED BY <2>1, <2>2 DEF TargetKinds
<1>2. OwnerRepo(s) <=> Named(s) /\ Len(s) >= 3 /\ ~(Len(s) = 3 /\ s[3] = "")
    BY OwnerRepoIs
<1>3. HasTail(s, 3) => Len(s) > 3
    BY DEF HasTail
<1>4. k \in KindsAt(host, s) <=>
         /\ Named(s)
         /\ \/ k = "release" /\ Len(s) >= 3 /\ s[3] \in {"releases", "archive"} /\ HasTail(s, 3)
            \/ k = "blob" /\ Len(s) >= 3 /\ s[3] \in {"blob", "raw"} /\ HasTail(s, 3)
            \/ k = "git" /\ IsGit(s)
            \/ k = "tags" /\ Len(s) >= 3 /\ s[3] = "tags"
  <2>1. k \in KindsAt(host, s) <=> \/ k = "release" /\ Fits(ShapeRelease, s)
                                   \/ k = "blob" /\ Fits(ShapeBlob, s)
                                   \/ k = "git" /\ Fits(ShapeGit, s)
                                   \/ k = "tags" /\ Fits(ShapeTags, s)
      BY KindsOnGitHub
  <2>2. Fits(ShapeRelease, s) <=> Named(s) /\ Len(s) >= 3 /\ s[3] \in {"releases", "archive"} /\ HasTail(s, 3)
      BY FitsRelease
  <2>3. Fits(ShapeBlob, s) <=> Named(s) /\ Len(s) >= 3 /\ s[3] \in {"blob", "raw"} /\ HasTail(s, 3)
      BY FitsBlob
  <2>4. Fits(ShapeGit, s) <=> Named(s) /\ IsGit(s)
      BY FitsGit
  <2>5. Fits(ShapeTags, s) <=> Named(s) /\ Len(s) >= 3 /\ s[3] = "tags"
      BY FitsTags
  <2>6. /\ k = "release" => (k \in KindsAt(host, s) <=> Fits(ShapeRelease, s))
        /\ k = "blob" => (k \in KindsAt(host, s) <=> Fits(ShapeBlob, s))
        /\ k = "git" => (k \in KindsAt(host, s) <=> Fits(ShapeGit, s))
        /\ k = "tags" => (k \in KindsAt(host, s) <=> Fits(ShapeTags, s))
        /\ k \notin {"release", "blob", "git", "tags"} => k \notin KindsAt(host, s)
      BY <2>1
  <2>7. CASE k = "release"
      BY <2>2, <2>6, <2>7
  <2>8. CASE k = "blob"
      BY <2>3, <2>6, <2>8
  <2>9. CASE k = "git"
      BY <2>4, <2>6, <2>9
  <2>10. CASE k = "tags"
      BY <2>5, <2>6, <2>10
  <2>11. CASE k \notin {"release", "blob", "git", "tags"}
      BY <2>6, <2>11
  <2>. QED BY <2>7, <2>8, <2>9, <2>10, <2>11
<1>5. IsGit(s) => Len(s) >= 3 /\ s[3] \in {"info", "git-upload-pack", "git-receive-pack"}
    BY <1>1 DEF IsGit
<1>6. CASE ~OwnerRepo(s)
  <2>1. GithubKind(s) = None
      BY <1>6 DEF GithubKind
  <2>2. k \notin KindsAt(host, s)
      BY <1>2, <1>3, <1>4, <1>5, <1>6
  <2>. QED BY <2>1, <2>2
<1>7. CASE OwnerRepo(s)
  <2>1. Named(s) /\ Len(s) >= 3
      BY <1>2, <1>7
  <2>2. GithubKind(s) = IF s[3] \in {"releases", "archive"} /\ HasTail(s, 3) THEN "release"
                        ELSE IF s[3] \in {"blob", "raw"} /\ HasTail(s, 3) THEN "blob"
                        ELSE IF IsGit(s) THEN "git"
                        ELSE IF s[3] = "tags" THEN "tags" ELSE None
      BY <1>7, <2>1, GitIs, Zenon DEF GithubKind
  <2>. QED BY <1>1, <1>4, <1>5, <2>1, <2>2
<1>. QED BY <1>6, <1>7

LEMMA RawKinds ==
    ASSUME NEW s \in Paths, NEW host \in {"raw.githubusercontent.com", "raw.github.com"}, NEW k
    PROVE  k \in KindsAt(host, s) <=> k = RawKind(s) /\ k # None
<1>1. Len(s) \in Nat
    BY DEF Paths
<1>2. None # "raw"
  <2>1. None \notin TargetKinds
      BY ServerConstants, Zenon
  <2>. QED BY <2>1 DEF TargetKinds
<1>3. OwnerRepo(s) <=> Named(s) /\ Len(s) >= 3 /\ ~(Len(s) = 3 /\ s[3] = "")
    BY OwnerRepoIs
<1>4. HasTail(s, 3) => Len(s) > 3
    BY DEF HasTail
<1>5. Fits(ShapeRaw, s) <=> OwnerRepo(s) /\ HasTail(s, 3)
  <2>1. Fits(ShapeRaw, s) <=> Named(s) /\ HasTail(s, 3)
      BY FitsRaw
  <2>2. \A n \in Nat : n > 3 => n >= 3 /\ n # 3
      OBVIOUS
  <2>. QED BY <1>1, <1>3, <1>4, <2>1, <2>2, Zenon
<1>6. k \in KindsAt(host, s) <=> k = "raw" /\ Fits(ShapeRaw, s)
    BY KindsOnRaw
<1>. QED BY <1>2, <1>5, <1>6 DEF RawKind

LEMMA GistKinds ==
    ASSUME NEW s \in Paths, NEW host \in {"gist.github.com", "gist.githubusercontent.com"}, NEW k
    PROVE  k \in KindsAt(host, s) <=> k = GistKind(s) /\ k # None
<1>1. None # "gist"
  <2>1. None \notin TargetKinds
      BY ServerConstants, Zenon
  <2>. QED BY <2>1 DEF TargetKinds
<1>2. k \in KindsAt(host, s) <=> k = "gist" /\ Fits(ShapeGist, s)
    BY KindsOnGist
<1>3. Fits(ShapeGist, s) <=> s[1] # "" /\ HasTail(s, 2)
    BY FitsGist
<1>. QED BY <1>1, <1>2, <1>3 DEF GistKind

\* The code's kind of a path is the kind of the one shape it has.
LEMMA KindIs ==
    ASSUME NEW s \in Paths, NEW host, NEW k
    PROVE  k \in KindsAt(host, s) <=> k = KindOf(host, s) /\ k # None
<1>1. CASE host \in GitHub
  <2>1. KindOf(host, s) = GithubKind(s)
      BY <1>1 DEF KindOf, GitHub
  <2>. QED BY <1>1, <2>1, GithubKinds
<1>2. CASE host \in {"raw.githubusercontent.com", "raw.github.com"}
  <2>1. KindOf(host, s) = RawKind(s)
      BY <1>2 DEF KindOf
  <2>. QED BY <1>2, <2>1, RawKinds
<1>3. CASE host \in {"gist.github.com", "gist.githubusercontent.com"}
  <2>1. KindOf(host, s) = GistKind(s)
      BY <1>3 DEF KindOf
  <2>. QED BY <1>3, <2>1, GistKinds
<1>4. CASE host \notin SupportedHosts
  <2>1. KindOf(host, s) = None
      BY <1>4 DEF KindOf, SupportedHosts
  <2>2. KindsAt(host, s) = {}
      BY <1>4, KindsElsewhere
  <2>. QED BY <2>1, <2>2
<1>. QED BY <1>1, <1>2, <1>3, <1>4 DEF SupportedHosts, GitHub

LEMMA KindsAre ==
    ASSUME NEW s \in Paths, NEW host
    PROVE  /\ KindOf(host, s) = None => KindsAt(host, s) = {}
           /\ KindOf(host, s) # None => KindsAt(host, s) = {KindOf(host, s)}
           /\ KindOf(host, s) \in TargetKinds \cup {None}
<1>1. KindOf(host, s) = None => KindsAt(host, s) = {}
    BY KindIs
<1>2. KindOf(host, s) # None => KindsAt(host, s) = {KindOf(host, s)}
    BY KindIs
<1>3. KindOf(host, s) \in TargetKinds \cup {None}
    BY DEF KindOf, GithubKind, RawKind, GistKind, TargetKinds
<1>. QED BY <1>1, <1>2, <1>3

\* A blob has something behind the word that says so.
LEMMA BlobTail ==
    ASSUME NEW s \in Paths, NEW host, KindOf(host, s) = "blob"
    PROVE  host \in GitHub /\ HasTail(s, 3)
<1>1. None # "blob"
  <2>1. None \notin TargetKinds
      BY ServerConstants, Zenon
  <2>. QED BY <2>1 DEF TargetKinds
<1>2. "blob" \in KindsAt(host, s)
    BY <1>1, KindIs
<1>3. host \in GitHub
  <2>1. PICK x \in Shapes : host \in x.hosts /\ x.kind = "blob"
      BY <1>2, Zenon DEF KindsAt
  <2>2. x = ShapeBlob
      BY <2>1, ShapesAre DEF ShapeRelease, ShapeBlob, ShapeGit, ShapeTags, ShapeRaw, ShapeGist
  <2>. QED BY <2>1, <2>2 DEF ShapeBlob
<1>4. Fits(ShapeBlob, s)
    BY <1>2, <1>3, KindsOnGitHub
<1>. QED BY <1>3, <1>4, FitsBlob

-----------------------------------------------------------------------------
(* The file a blob stands for. *)

LEMMA DecodedSome == ASSUME NEW q \in Seq(Encoded), Len(q) >= 1 PROVE Len(Decoded(q)) >= 1
<1>1. Len(q) - 1 \in Nat /\ Len(q) = (Len(q) - 1) + 1
    OBVIOUS
<1>2. PICK f \in Seq(Encoded), w \in Encoded : q = Append(f, w)
    BY <1>1, LastOff
<1>3. Decoded(q) = Decoded(f) \o Unescape[w]
    BY <1>2, DecodedAppend
<1>4. Decoded(f) \in Seq(STRING) /\ Unescape[w] \in Seq(STRING) /\ Unescape[w] # <<>>
    BY DecodedType, WordDecoded
<1> DEFINE a == Decoded(f)
           b == Unescape[w]
<1> HIDE DEF a, b
<1>5. a \in Seq(STRING) /\ b \in Seq(STRING) /\ b # <<>>
    BY <1>4 DEF a, b
<1>6. Len(a) \in Nat /\ Len(b) \in Nat /\ Len(b) # 0 /\ Len(a \o b) = Len(a) + Len(b)
    BY <1>5
<1>7. Len(a \o b) >= 1
    BY <1>6
<1>. QED BY <1>3, <1>7 DEF a, b

\* Every word adds something to what a path decodes to.
LEMMA DecodedGrows ==
    ASSUME NEW p \in Seq(Encoded), NEW i \in DOMAIN p, NEW j \in DOMAIN p, i < j
    PROVE  Len(Decoded(SubSeq(p, 1, i - 1))) < Len(Decoded(SubSeq(p, 1, j - 1)))
<1>1. /\ Len(p) \in Nat /\ i \in 1 .. Len(p) /\ j \in 1 .. Len(p)
    OBVIOUS
<1>2. /\ i - 1 \in Nat /\ j - 1 \in Nat /\ (i - 1) + 1 = i /\ i - 1 <= Len(p) /\ j - 1 <= Len(p)
      /\ i <= j - 1 /\ 1 \in 1 .. Len(p) + 1 /\ i - 1 \in 1 - 1 .. Len(p) /\ j - 1 \in i - 1 .. Len(p)
    BY <1>1
<1> DEFINE x == SubSeq(p, 1, i - 1)
           y == SubSeq(p, i, j - 1)
           z == SubSeq(p, 1, j - 1)
<1>3. x \o y = z
  <2>1. SubSeq(p, 1, i - 1) \o SubSeq(p, (i - 1) + 1, j - 1) = SubSeq(p, 1, j - 1)
      BY <1>2, ConcatAdjacentSubSeq
  <2>. QED BY <1>2, <2>1
<1>4. x \in Seq(Encoded) /\ y \in Seq(Encoded) /\ Len(y) >= 1
    BY <1>1, <1>2
<1> HIDE DEF x, y, z
<1>5. Decoded(z) = Decoded(x) \o Decoded(y) /\ Len(Decoded(y)) >= 1
    BY <1>3, <1>4, DecodedBoth, DecodedSome
<1> DEFINE a == Decoded(x)
           b == Decoded(y)
<1> HIDE DEF a, b
<1>6. a \in Seq(STRING) /\ b \in Seq(STRING) /\ Len(b) >= 1
    BY <1>4, <1>5, DecodedType DEF a, b
<1>7. Len(a) \in Nat /\ Len(b) \in Nat /\ Len(a \o b) = Len(a) + Len(b)
    BY <1>6
<1>8. Len(a) < Len(a \o b)
    BY <1>6, <1>7
<1>. QED BY <1>5, <1>8 DEF a, b, x, z

\* A word at the end that stands for itself is the last one of what it decodes to.
LEMMA LastBlob ==
    ASSUME NEW p \in Seq(Encoded), Len(p) >= 1, p[Len(p)] = "blob"
    PROVE  Len(Decoded(p)) = Len(Decoded(SubSeq(p, 1, Len(p) - 1))) + 1
<1> DEFINE f == SubSeq(p, 1, Len(p) - 1)
           w == p[Len(p)]
<1>1. Len(p) - 1 \in Nat /\ f \in Seq(Encoded) /\ w \in Encoded /\ p = Append(f, w)
    OBVIOUS
<1>2. Unescape[w] = <<"blob">>
    BY <1>1, ServerConstants DEF Encoded
<1>3. Decoded(p) = Decoded(f) \o Unescape[w]
    BY <1>1, DecodedAppend
<1>4. Decoded(f) \in Seq(STRING)
    BY <1>1, DecodedType
<1> DEFINE a == Decoded(f)
           b == Unescape[w]
<1> HIDE DEF a, b
<1>5. a \in Seq(STRING) /\ b \in Seq(STRING) /\ Len(b) = 1
    BY <1>1, <1>2, <1>4, WordDecoded DEF a, b
<1>8. a \in Seq(STRING) /\ b \in Seq(STRING)
    BY <1>5
<1>6. Len(a) \in Nat /\ Len(a \o b) = Len(a) + Len(b)
    BY <1>8
<1>7. Len(a \o b) = Len(a) + 1
    BY <1>5, <1>6
<1>. QED BY <1>3, <1>7 DEF a, b

LEMMA FileIs ==
    ASSUME NEW p \in Seq(Encoded), p \in Paths, NEW host, KindOf(host, Decoded(p)) = "blob",
           \A i \in DOMAIN AsFile(p) : AsFile(p)[i] # "blob"
    PROVE  RewriteBlobToRaw(p) = AsFile(p)
<1> DEFINE before(i) == Len(Decoded(SubSeq(p, 1, i - 1)))
           blobs == {i \in 1 .. Len(p) - 1 : p[i] = "blob"}
           file == AsFile(p)
<1>1. /\ Len(p) \in Nat /\ DOMAIN p = 1 .. Len(p) /\ p = [i \in DOMAIN p |-> p[i]]
    OBVIOUS
<1>2. file = [i \in DOMAIN p |-> IF p[i] = "blob" /\ before(i) = 2 THEN "raw" ELSE p[i]]
    BY DEF AsFile
<1>3. \A i \in DOMAIN p : p[i] = "blob" => before(i) = 2
    BY <1>2
<1>4. \A i, j \in DOMAIN p : i < j => before(i) < before(j)
    BY DecodedGrows
<1> HIDE DEF before
<1>5. ASSUME NEW i \in DOMAIN p, NEW j \in DOMAIN p, p[i] = "blob", p[j] = "blob" PROVE i = j
  <2>1. before(i) = 2 /\ before(j) = 2 /\ i \in Nat /\ j \in Nat
      BY <1>1, <1>3, <1>5
  <2>2. ~(i < j) /\ ~(j < i)
      BY <1>4, <2>1
  <2>. QED BY <2>1, <2>2
<1>6. ASSUME NEW i \in DOMAIN p, p[i] = "blob" PROVE i \in 1 .. Len(p) - 1
  <2>1. SUFFICES ASSUME i = Len(p) PROVE FALSE
      BY <1>1
  <2>2. Len(p) >= 1 /\ p[Len(p)] = "blob" /\ Len(Decoded(SubSeq(p, 1, Len(p) - 1))) = 2
      BY <1>1, <1>3, <1>6, <2>1 DEF before
  <2>3. Len(Decoded(p)) = 2 + 1
      BY <2>2, LastBlob
  <2>4. HasTail(Decoded(p), 3)
    <3>1. Decoded(p) \in Paths
        BY DecodedType DEF Paths
    <3>. QED BY <3>1, BlobTail
  <2>5. Len(Decoded(p)) > 3
      BY <2>4 DEF HasTail
  <2>. QED BY <2>3, <2>5
<1>7. RewriteBlobToRaw(p) = IF blobs = {} THEN p
                            ELSE [p EXCEPT ![CHOOSE i \in blobs : \A j \in blobs : i <= j] = "raw"]
    BY DEF RewriteBlobToRaw
<1>8. CASE blobs = {}
  <2>1. \A i \in DOMAIN p : p[i] # "blob"
      BY <1>6, <1>8
  <2>2. file = p
      BY <1>1, <1>2, <2>1
  <2>. QED BY <1>7, <1>8, <2>2
<1>9. CASE blobs # {}
  <2>1. PICK n \in blobs : TRUE
      BY <1>9
  <2>2. n \in DOMAIN p /\ n \in Nat /\ p[n] = "blob"
      BY <1>1, <2>1
  <2>3. blobs = {n}
      BY <1>1, <1>5, <2>1, <2>2
  <2> HIDE DEF blobs
  <2>4. (CHOOSE i \in blobs : \A j \in blobs : i <= j) = n
      BY <2>2, <2>3
  <2>5. RewriteBlobToRaw(p) = [p EXCEPT ![n] = "raw"]
      BY <1>7, <1>9, <2>4
  <2>6. \A i \in DOMAIN p : file[i] = [p EXCEPT ![n] = "raw"][i]
      BY <1>2, <1>3, <1>5, <2>2
  <2>7. file = [i \in DOMAIN p |-> file[i]]
      BY <1>2
  <2> HIDE DEF file
  <2>8. [p EXCEPT ![n] = "raw"] = [i \in DOMAIN p |-> [p EXCEPT ![n] = "raw"][i]]
      OBVIOUS
  <2>9. file = [p EXCEPT ![n] = "raw"]
      BY <2>6, <2>7, <2>8
  <2>. QED BY <2>5, <2>9 DEF file
<1>. QED BY <1>8, <1>9

LEMMA ThingIs ==
    ASSUME NEW p \in Seq(Encoded), NEW host
    PROVE  LET s == Decoded(p)
               kind == KindOf(host, s)
           IN  /\ kind = None => Thing(host, p) = NoTarget
               /\ kind # None =>
                    Thing(host, p) = [kind |-> kind, owner |-> s[1], repo |-> IF kind = "gist" THEN "" ELSE s[2],
                                      host |-> IF host = "www.github.com" THEN "github.com" ELSE host,
                                      path |-> IF kind = "blob" THEN AsFile(p) ELSE p]
<1> DEFINE s == Decoded(p)
           kind == KindOf(host, s)
<1>1. s \in Paths /\ Decodable(p)
    BY DecodedType DEF Paths, Decodable, Encoded
<1>4. /\ kind = None => KindsAt(host, s) = {}
      /\ kind # None => KindsAt(host, s) = {kind}
    BY <1>1, KindsAre, Zenon
<1>5. Thing(host, p) = IF ~Decodable(p) \/ KindsAt(host, s) = {} THEN NoTarget
        ELSE [kind |-> CHOOSE k \in KindsAt(host, s) : TRUE, owner |-> s[1],
              repo |-> IF Names(CHOOSE k \in KindsAt(host, s) : TRUE) = 2 THEN s[2] ELSE "",
              host |-> IF host \in GitHub THEN "github.com" ELSE host,
              path |-> IF (CHOOSE k \in KindsAt(host, s) : TRUE) = "blob" THEN AsFile(p) ELSE p]
    BY Zenon DEF Thing
<1> HIDE DEF s, kind
<1>2. ASSUME kind = None PROVE Thing(host, p) = NoTarget
    BY <1>1, <1>2, <1>4, <1>5
<1>3. ASSUME kind # None
      PROVE  Thing(host, p) = [kind |-> kind, owner |-> s[1], repo |-> IF kind = "gist" THEN "" ELSE s[2],
                               host |-> IF host = "www.github.com" THEN "github.com" ELSE host,
                               path |-> IF kind = "blob" THEN AsFile(p) ELSE p]
  <2>1. KindsAt(host, s) = {kind} /\ (CHOOSE k \in KindsAt(host, s) : TRUE) = kind
      BY <1>3, <1>4
  <2>2. KindsAt(host, s) # {}
      BY <2>1
  <2>3. Thing(host, p) = [kind |-> kind, owner |-> s[1], repo |-> IF Names(kind) = 2 THEN s[2] ELSE "",
                          host |-> IF host \in GitHub THEN "github.com" ELSE host,
                          path |-> IF kind = "blob" THEN AsFile(p) ELSE p]
      BY <1>1, <1>5, <2>1, <2>2, Zenon
  <2>4. (IF Names(kind) = 2 THEN s[2] ELSE "") = IF kind = "gist" THEN "" ELSE s[2]
    <3>1. Names(kind) = 2 <=> kind # "gist"
        BY DEF Names
    <3>. QED BY <3>1, Zenon
  <2>5. (IF host \in GitHub THEN "github.com" ELSE host) = IF host = "www.github.com" THEN "github.com" ELSE host
      BY DEF GitHub
  <2>. QED BY <1>3, <2>3, <2>4, <2>5
<1>. QED BY <1>2, <1>3, Zenon DEF s, kind

\* What matches is what the path names, but for the second "blob" of a blob.
LEMMA MatchIs ==
    ASSUME NEW word, NEW p \in Seq(Encoded), p \in Paths
    PROVE  LET t == Match([authority |-> word, path |-> p])
               thing == Thing(Authority[word], p)
           IN  Is(t, thing) /\ (t = NoTarget <=> thing = NoTarget)
<1> DEFINE t == Match([authority |-> word, path |-> p])
           thing == Thing(Authority[word], p)
<1> SUFFICES Is(t, thing) /\ (t = NoTarget <=> thing = NoTarget)
    BY Zenon
<1> DEFINE host == Authority[word]
           s == Decoded(p)
           kind == KindOf(host, s)
<1>1. /\ kind = None => thing = NoTarget
      /\ kind # None => thing = [kind |-> kind, owner |-> s[1], repo |-> IF kind = "gist" THEN "" ELSE s[2],
                                 host |-> IF host = "www.github.com" THEN "github.com" ELSE host,
                                 path |-> IF kind = "blob" THEN AsFile(p) ELSE p]
    BY ThingIs, Zenon
<1>2. /\ kind = None => t = NoTarget
      /\ kind # None => t = [kind |-> kind, owner |-> s[1], repo |-> IF kind = "gist" THEN "" ELSE s[2],
                             host |-> IF host = "www.github.com" THEN "github.com" ELSE host,
                             path |-> IF kind = "blob" THEN RewriteBlobToRaw(p) ELSE p]
    BY DEF Match
<1>3. kind = "blob" /\ (\A i \in DOMAIN AsFile(p) : AsFile(p)[i] # "blob") => RewriteBlobToRaw(p) = AsFile(p)
    BY FileIs
<1> HIDE DEF kind, host, s, t, thing
<1>5. CASE kind = None
  <2>1. t = NoTarget /\ thing = NoTarget
      BY <1>1, <1>2, <1>5
  <2>2. Is(NoTarget, NoTarget)
      BY DEF Is, NoTarget
  <2>. QED BY <2>1, <2>2
<1>6. CASE kind # None
  <2> DEFINE owner == s[1]
             repo == IF kind = "gist" THEN "" ELSE s[2]
             at == IF host = "www.github.com" THEN "github.com" ELSE host
             there == IF kind = "blob" THEN AsFile(p) ELSE p
             here == IF kind = "blob" THEN RewriteBlobToRaw(p) ELSE p
  <2>1. thing = [kind |-> kind, owner |-> owner, repo |-> repo, host |-> at, path |-> there]
      BY <1>1, <1>6
  <2>2. t = [kind |-> kind, owner |-> owner, repo |-> repo, host |-> at, path |-> here]
      BY <1>2, <1>6
  <2>3. ~(kind = "blob" /\ \E i \in DOMAIN there : there[i] = "blob") => here = there
      BY <1>3
  <2> HIDE DEF owner, repo, at, there, here
  <2>5. [t EXCEPT !.path = thing.path] = thing /\ t.path = here /\ thing.path = there /\ thing.kind = kind
      BY <2>1, <2>2
  <2>6. Is(t, thing)
      BY <2>3, <2>5 DEF Is, SecondBlob
  <2>7. t.kind = kind /\ thing.kind = kind /\ NoTarget.kind = None
      BY <2>1, <2>2 DEF NoTarget
  <2>. QED BY <1>6, <2>6, <2>7
<1>. QED BY <1>5, <1>6

-----------------------------------------------------------------------------
(* The short form: a URL without a host, on the default hosts. *)

LEMMA ShortHasNoKind ==
    ASSUME NEW s \in Paths, Len(s) <= 2, NEW host PROVE KindOf(host, s) = None
<1>1. ~HasTail(s, 2)
  <2>1. Len(s) \in Nat
      BY DEF Paths
  <2>2. ~(Len(s) > 2)
      BY <2>1
  <2>. QED BY <2>2 DEF HasTail
<1>. QED BY <1>1, Zenon DEF KindOf, GithubKind, RawKind, GistKind, OwnerRepo

\* A default host in front of a path makes a URL of that host.
LEMMA PreparedDefault ==
    ASSUME NEW host \in SupportedHosts, NEW h \in Paths
    PROVE  Prepare(<<host>> \o h) = IF Decodable(h) THEN [authority |-> host, path |-> h] ELSE NoURL
<1> DEFINE s == <<host>> \o h
<1>1. host \in DOMAIN Authority /\ Bare(host) /\ host \in STRING
    BY ServerConstants
<1>2. s[1] = host /\ Tail(s) = h
    BY <1>1, WordBefore, Zenon
<1> HIDE DEF s
<1>3. host \notin {"https:", "http:"} /\ host \notin EncodedSchemes /\ host \notin DOMAIN Unglued
    BY <1>1 DEF Bare, Schemes
<1>4. RepairScheme(s) = s
    BY <1>2, <1>3, Zenon DEF RepairScheme, AfterScheme
<1>5. Prepare(s) = IF Decodable(h) THEN [authority |-> host, path |-> h] ELSE NoURL
    BY <1>1, <1>2, <1>4 DEF Prepare
<1>. QED BY <1>5 DEF s

\* The whole of what follows the scheme.
Whole(word, path) == IF Authority[word] = "" THEN path ELSE <<Authority[word]>> \o path

LEMMA PlainPath == ASSUME NEW p \in Paths PROVE Decodable(p) => p \in Seq(Encoded)
<1>1. p = [i \in 1 .. Len(p) |-> p[i]] /\ Len(p) \in Nat /\ DOMAIN p = 1 .. Len(p)
    BY DEF Paths
<1>2. ASSUME Decodable(p) PROVE \A i \in 1 .. Len(p) : p[i] \in Encoded
    BY <1>1, <1>2 DEF Decodable, Encoded
<1>. QED BY <1>1, <1>2

LEMMA EmptyPath == <<>> \in Paths /\ Len(<<>>) = 0
BY DEF Paths

LEMMA HostlessPath ==
    ASSUME NEW word \in DOMAIN Authority, NEW path \in Paths
    PROVE  LET h == Hostless([authority |-> word, path |-> path])
           IN  h \in Paths /\ (h = Whole(word, path) \/ (h = <<"">> /\ Whole(word, path) = <<>>))
<1> DEFINE u == [authority |-> word, path |-> path]
           h == Hostless(u)
           host == Authority[word]
<1> SUFFICES h \in Paths /\ (h = Whole(word, path) \/ (h = <<"">> /\ Whole(word, path) = <<>>))
    BY Zenon
<1>1. u.authority = word /\ u.path = path
    OBVIOUS
<1> HIDE DEF u
<1>2. h = IF host # "" THEN <<host>> \o path ELSE IF path = <<>> THEN <<"">> ELSE path
    BY <1>1, Zenon DEF Hostless
<1>3. Whole(word, path) = IF host = "" THEN path ELSE <<host>> \o path
    BY DEF Whole
<1>4. host \in STRING
    BY ServerConstants
<1> HIDE DEF h, host
<1>5. CASE host # ""
  <2>1. <<host>> \o path \in Paths
      BY <1>4, WordBefore, Zenon
  <2>2. h = <<host>> \o path /\ Whole(word, path) = <<host>> \o path
      BY <1>2, <1>3, <1>5
  <2>3. h \in Paths
      BY <2>1, <2>2, Zenon
  <2>. QED BY <2>2, <2>3, Zenon
<1>6. CASE host = "" /\ path # <<>>
  <2>1. h = path /\ Whole(word, path) = path
      BY <1>2, <1>3, <1>6
  <2>. QED BY <2>1, Zenon
<1>7. CASE host = "" /\ path = <<>>
  <2>1. <<"">> \in Paths
    <3>1. "" \in STRING
        BY <1>4, <1>7, Zenon
    <3>. QED BY <3>1, OneWord, Zenon DEF Paths
  <2>. QED BY <1>2, <1>3, <1>7, <2>1, Zenon
<1>. QED BY <1>5, <1>6, <1>7

LEMMA DecodedWord == ASSUME NEW w \in Encoded PROVE Decoded(<<w>>) = Unescape[w]
<1>1. <<w>> = Append(<<>>, w) /\ <<>> \in Seq(Encoded)
    OBVIOUS
<1>2. <<>> \o Unescape[w] = Unescape[w]
    BY WordDecoded
<1>. QED BY <1>1, <1>2, DecodedAppend, DecodedEmpty

LEMMA NothingAtRoot == ASSUME NEW host PROVE Thing(host, <<>>) = NoTarget
<1>1. <<>> \in Seq(Encoded)
    OBVIOUS
<1>2. Len(<<>>) = 0 /\ 0 <= 2
    OBVIOUS
<1>3. KindOf(host, <<>>) = None
    BY <1>2, EmptyPath, ShortHasNoKind, Zenon
<1>4. KindOf(host, Decoded(<<>>)) = None
    BY <1>3, DecodedEmpty, Zenon
<1>. QED BY <1>1, <1>4, ThingIs, Zenon

LEMMA OneEncoded == ASSUME NEW p \in Seq(Encoded), Len(p) = 1 PROVE p[1] \in Encoded
OBVIOUS

LEMMA OneIsShort == 1 <= 2
OBVIOUS

LEMMA NothingAtSlash == ASSUME NEW host, NEW p \in Paths, p = <<"">> PROVE Thing(host, p) = NoTarget
<1>1. Len(p) = 1 /\ p[1] = ""
    BY OneWordIs
<1>2. CASE ~Decodable(p)
    BY <1>2, Zenon DEF Thing
<1>3. CASE Decodable(p)
  <2>1. p \in Seq(Encoded)
      BY <1>3, PlainPath, Zenon
  <2>2. "" \in Encoded
      BY <1>1, <2>1, OneEncoded, Zenon
  <2>3. Decoded(p) = Unescape[""]
      BY <2>2, DecodedWord, Zenon
  <2>4. \A w \in Encoded : w \in {"blob", ""} => Unescape[w] = <<w>>
      BY ServerConstants, Zenon DEF Encoded
  <2>5. Unescape[""] = <<"">>
      BY <2>2, <2>4, Zenon
  <2>6. Decoded(p) = p
      BY <2>3, <2>5, Zenon
  <2>9. KindOf(host, p) = None
      BY <1>1, OneIsShort, ShortHasNoKind, Zenon
  <2>. QED BY <2>1, <2>6, <2>9, ThingIs, Zenon
<1>. QED BY <1>2, <1>3

LEMMA AtDefaultIs ==
    ASSUME NEW word \in DOMAIN Authority, NEW path \in Paths, NEW host \in SupportedHosts
    PROVE  LET t == AtDefault([authority |-> word, path |-> path], host)
               thing == Thing(host, Whole(word, path))
           IN  Is(t, thing) /\ (t = NoTarget <=> thing = NoTarget)
<1> DEFINE t == AtDefault([authority |-> word, path |-> path], host)
           thing == Thing(host, Whole(word, path))
<1> SUFFICES Is(t, thing) /\ (t = NoTarget <=> thing = NoTarget)
    BY Zenon
<1> DEFINE h == Hostless([authority |-> word, path |-> path])
<1>1. h \in Paths /\ (h = Whole(word, path) \/ (h = <<"">> /\ Whole(word, path) = <<>>))
    BY HostlessPath, Zenon
<1>2. host \in DOMAIN Authority /\ Authority[host] = host /\ None \notin DOMAIN Authority
    BY ServerConstants
<1>3. t = LET v == Prepare(<<host>> \o h) IN IF v = NoURL THEN NoTarget ELSE Match(v)
    BY Zenon DEF AtDefault
<1>8. thing = Thing(host, Whole(word, path))
    OBVIOUS
<1> HIDE DEF h, t, thing
<1>4. thing = Thing(host, h)
  <2>1. CASE h = Whole(word, path)
      BY <1>8, <2>1
  <2>2. CASE h = <<"">> /\ Whole(word, path) = <<>>
      BY <1>1, <1>8, <2>2, NothingAtRoot, NothingAtSlash, Zenon
  <2>. QED BY <1>1, <2>1, <2>2
<1>5. Is(NoTarget, NoTarget)
    BY DEF Is, NoTarget
<1>6. CASE ~Decodable(h)
  <2>1. Prepare(<<host>> \o h) = NoURL
      BY <1>1, <1>6, PreparedDefault, Zenon
  <2>2. t = NoTarget
      BY <1>3, <2>1, Zenon
  <2>3. thing = NoTarget
      BY <1>4, <1>6, Zenon DEF Thing
  <2>. QED BY <1>5, <2>2, <2>3
<1>7. CASE Decodable(h)
  <2> DEFINE v == [authority |-> host, path |-> h]
  <2>1. Prepare(<<host>> \o h) = v
      BY <1>1, <1>7, PreparedDefault, Zenon
  <2>2. v # NoURL
      BY <1>2 DEF NoURL
  <2>3. t = Match(v)
      BY <1>3, <2>1, <2>2, Zenon
  <2>4. h \in Seq(Encoded)
      BY <1>1, <1>7, PlainPath
  <2>5. thing = Thing(Authority[host], h)
      BY <1>2, <1>4
  <2>6. /\ Is(Match(v), Thing(Authority[host], h))
        /\ Match(v) = NoTarget <=> Thing(Authority[host], h) = NoTarget
      BY <1>1, <2>4, MatchIs, Zenon
  <2> HIDE DEF v
  <2>. QED BY <2>3, <2>5, <2>6, Zenon
<1>. QED BY <1>6, <1>7

\* The first default host that has the thing is the one that is taken.
LEMMA FallbackIs ==
    ASSUME NEW word \in DOMAIN Authority, ~NamesHost(word), NEW path \in Paths,
           NEW defaults \in Seq(SupportedHosts),
           NEW t, t = Fallback([authority |-> word, path |-> path], defaults)
    PROVE  Is(t, Meant(word, path, defaults))
<1> DEFINE u == [authority |-> word, path |-> path]
           whole == Whole(word, path)
           found == {i \in DOMAIN defaults : AtDefault(u, defaults[i]) # NoTarget}
           at == {i \in DOMAIN defaults : Thing(defaults[i], whole) # NoTarget}
           first == CHOOSE i \in found : \A j \in found : i <= j
<1>1. t = IF found = {} THEN NoTarget ELSE AtDefault(u, defaults[first])
    BY Zenon DEF Fallback
<1>2. Meant(word, path, defaults) =
        IF at = {} THEN NoTarget
        ELSE Thing(defaults[CHOOSE i \in at : \A j \in at : i <= j], whole)
    BY Zenon DEF Meant, Whole
<1>3. ASSUME NEW i \in DOMAIN defaults
      PROVE  /\ Is(AtDefault(u, defaults[i]), Thing(defaults[i], whole))
             /\ AtDefault(u, defaults[i]) = NoTarget <=> Thing(defaults[i], whole) = NoTarget
  <2>1. defaults[i] \in SupportedHosts
      OBVIOUS
  <2>. QED BY <2>1, AtDefaultIs, Zenon
<1> HIDE DEF u, whole
<1>4. found = at
    BY <1>3
<1>5. CASE found = {}
  <2>1. t = NoTarget /\ Meant(word, path, defaults) = NoTarget
      BY <1>1, <1>2, <1>4, <1>5
  <2>2. Is(NoTarget, NoTarget)
      BY DEF Is, NoTarget
  <2>. QED BY <2>1, <2>2
<1>6. CASE found # {}
  <2>1. found \in SUBSET Nat /\ found \subseteq DOMAIN defaults
      OBVIOUS
  <2> HIDE DEF found
  <2>2. \E n \in found : \A m \in found : n <= m
      BY <1>6, <2>1, Least, Zenon
  <2>3. first \in found
      BY <2>2
  <2>4. t = AtDefault(u, defaults[first]) /\ Meant(word, path, defaults) = Thing(defaults[first], whole)
      BY <1>1, <1>2, <1>4, <1>6
  <2>. QED BY <1>3, <2>1, <2>3, <2>4
<1>. QED BY <1>5, <1>6

-----------------------------------------------------------------------------
(* A URL is understood as it was meant. *)

LEMMA OutsideNothing ==
    ASSUME NEW word \in DOMAIN Authority, NEW path \in Paths, ~Decodable(path), NEW defaults
    PROVE  Meant(word, path, defaults) = NoTarget
<1>1. \A host : Thing(host, path) = NoTarget
    BY DEF Thing
<1>2. ~Decodable(Whole(word, path))
  <2>1. CASE Authority[word] = ""
      BY <2>1, Zenon DEF Whole
  <2>2. CASE Authority[word] # ""
    <3> DEFINE s == <<Authority[word]>> \o path
    <3>1. Authority[word] \in STRING
        BY ServerConstants
    <3>2. s \in Paths /\ Len(s) = Len(path) + 1 /\ \A i \in 1 .. Len(path) : s[i + 1] = path[i]
        BY <3>1, WordBefore, Zenon
    <3>3. Whole(word, path) = s
        BY <2>2, Zenon DEF Whole
    <3> HIDE DEF s
    <3>4. PICK i \in DOMAIN path : path[i] \notin DOMAIN Unescape
        BY Zenon DEF Decodable
    <3>5. Len(path) \in Nat /\ i \in 1 .. Len(path) /\ DOMAIN s = 1 .. Len(s)
        BY <3>2 DEF Paths
    <3>6. i + 1 \in DOMAIN s
        BY <3>2, <3>5
    <3>7. s[i + 1] \notin DOMAIN Unescape
        BY <3>2, <3>4, <3>5
    <3>. QED BY <3>3, <3>6, <3>7, Zenon DEF Decodable
  <2>. QED BY <2>1, <2>2
<1>3. \A host : Thing(host, Whole(word, path)) = NoTarget
    BY <1>2, Zenon DEF Thing
<1> DEFINE whole == Whole(word, path)
           at == {i \in DOMAIN defaults : Thing(defaults[i], whole) # NoTarget}
<1>4. at = {}
    BY <1>3
<1>5. Meant(word, path, defaults) =
        IF NamesHost(word) THEN Thing(Authority[word], path)
        ELSE IF at = {} THEN NoTarget
        ELSE Thing(defaults[CHOOSE i \in at : \A j \in at : i <= j], whole)
    BY Zenon DEF Meant, Whole
<1>. QED BY <1>1, <1>4, <1>5, Zenon

\* However a URL is spelled, whole or with slashes collapsed, encoded, without its
\* scheme or its host, ParseWithDefaults finds what the authority and the path behind
\* it mean, or nothing where they mean nothing (ghurl.go:60-100, 344-350).
THEOREM ParsedAsMeant ==
    ASSUME NEW raw \in Paths, raw \in Seq(Encoded), Len(raw) >= 1, NEW u, u = Unwrapped(raw),
           NEW n \in DOMAIN u, NEW word \in DOMAIN Authority, Spells(SubSeq(u, 1, n), word),
           NEW path, path = SubSeq(u, n + 1, Len(u)),
           NEW defaults \in Seq(SupportedHosts)
    PROVE  Is(ParseWithDefaults(raw, defaults), Meant(word, path, defaults))
<1> DEFINE v == [authority |-> word, path |-> path]
           t == ParseWithDefaults(raw, defaults)
           prepared == Prepare(raw)
<1>1. path \in Paths /\ prepared = IF Decodable(path) THEN v ELSE NoURL
    BY Prepared, Zenon
<1>2. t = IF prepared = NoURL THEN NoTarget
          ELSE IF Match(prepared) # NoTarget THEN Match(prepared)
          ELSE IF NamesAHost(prepared) THEN NoTarget ELSE Fallback(prepared, defaults)
    BY Zenon DEF ParseWithDefaults
<1>3. Is(NoTarget, NoTarget)
    BY DEF Is, NoTarget
<1> HIDE DEF t, prepared
<1>4. CASE ~Decodable(path)
  <2>1. t = NoTarget
      BY <1>1, <1>2, <1>4, Zenon
  <2>2. Meant(word, path, defaults) = NoTarget
      BY <1>1, <1>4, OutsideNothing, Zenon
  <2>. QED BY <1>3, <2>1, <2>2, Zenon DEF t
<1>5. CASE Decodable(path)
  <2>1. prepared = v
      BY <1>1, <1>5
  <2>2. v.authority = word /\ v.path = path /\ NoURL.authority = None
      BY DEF NoURL
  <2>3. None \notin DOMAIN Authority
      BY ServerConstants
  <2>4. v # NoURL
      BY <2>2, <2>3, Zenon
  <2>5. path \in Seq(Encoded)
      BY <1>1, <1>5, PlainPath, Zenon
  <2>6. Is(Match(v), Thing(Authority[word], path)) /\ (Match(v) = NoTarget <=> Thing(Authority[word], path) = NoTarget)
      BY <1>1, <2>5, MatchIs, Zenon
  <2>7. Match(v) # NoTarget => NamesHost(word)
      BY <2>2, MatchHost, Zenon DEF NamesHost
  <2>8. NamesAHost(v) <=> NamesHost(word)
      BY <2>2, Zenon DEF NamesAHost, NamesHost
  <2>9. NamesHost(word) => Meant(word, path, defaults) = Thing(Authority[word], path)
      BY Zenon DEF Meant
  <2>10. ~NamesHost(word) => Is(Fallback(v, defaults), Meant(word, path, defaults))
      BY <1>1, FallbackIs, Zenon
  <2> HIDE DEF v
  <2>11. t = IF Match(v) # NoTarget THEN Match(v)
             ELSE IF NamesAHost(v) THEN NoTarget ELSE Fallback(v, defaults)
      BY <1>2, <2>1, <2>4, Zenon
  <2>12. CASE Match(v) # NoTarget
      BY <2>6, <2>7, <2>9, <2>11, <2>12, Zenon DEF t
  <2>13. CASE Match(v) = NoTarget /\ NamesHost(word)
    <3>1. t = NoTarget /\ Thing(Authority[word], path) = NoTarget
        BY <2>6, <2>8, <2>11, <2>13, Zenon
    <3>. QED BY <1>3, <2>9, <2>13, <3>1, Zenon DEF t
  <2>14. CASE Match(v) = NoTarget /\ ~NamesHost(word)
    <3>1. t = Fallback(v, defaults)
        BY <2>8, <2>11, <2>14, Zenon
    <3>. QED BY <2>10, <2>14, <3>1, Zenon DEF t
  <2>. QED BY <2>12, <2>13, <2>14, Zenon
<1>. QED BY <1>4, <1>5, Zenon

-----------------------------------------------------------------------------
(* Of a request: what it names is what it gets. *)

\* What is left of a path below the prefix, whether or not the request passes.
LEMMA RestIsPath ==
    ASSUME NEW c \in Configs, NEW a \in Asks, UnderPrefix(c, a)
    PROVE  LET rest == Passed(c, a).rest
           IN  rest \in Paths /\ rest \in Seq(Encoded) /\ Len(rest) >= 1
<1> DEFINE after == AfterPrefix(c, a)
           rest == Passed(c, a).rest
<1>1. after \in Seq(Encoded) /\ Len(after) >= 1
    BY BelowPrefix
<1>2. after \in Paths
  <2>1. a.raw \in Paths /\ c.prefix \in Paths
      BY AskedPath DEF Paths
  <2>2. Len(a.raw) \in Nat /\ Len(c.prefix) \in Nat
      BY <2>1 DEF Paths
  <2>3. SubSeq(a.raw, Len(c.prefix) + 1, Len(a.raw)) \in Paths
      BY <2>1, <2>2 DEF Paths
  <2>. QED BY <2>3 DEF AfterPrefix
<1>3. Passed(c, a) = Check(c, a.headers, after)
    BY DEF Passed
<1> HIDE DEF after, rest
<1>4. CASE ~c.anonymous /\ InPath(c, after)
  <2>1. rest = Tail(after)
      BY <1>3, <1>4 DEF Check, rest
  <2>2. Len(after) > 1
      BY <1>4 DEF InPath
  <2>3. Tail(after) \in Seq(Encoded) /\ Len(Tail(after)) >= 1
      BY <1>1, <2>2
  <2>4. Tail(after) \in Paths
      BY <1>2, <2>2 DEF Paths
  <2>. QED BY <2>1, <2>3, <2>4 DEF rest
<1>5. CASE ~(~c.anonymous /\ InPath(c, after))
  <2> DEFINE ok == c.anonymous \/ InHeaders(c, a.headers)
  <2>1. Passed(c, a) = [ok |-> ok, rest |-> after]
      BY <1>3, <1>5, Zenon DEF Check
  <2> HIDE DEF ok
  <2>2. rest = after
      BY <2>1 DEF rest
  <2>. QED BY <1>1, <1>2, <2>2 DEF rest
<1>. QED BY <1>4, <1>5

\* However a request writes its URL, it gets what is meant.
LEMMA TargetIsMeant ==
    ASSUME cfg \in Configs, NEW r \in Requests, asked[r] \in Asks, UnderPrefix(cfg, asked[r]),
           NEW thing \in Meanings(r)
    PROVE  Is(TargetOf(cfg, asked[r]), thing)
<1> DEFINE raw == Passed(cfg, asked[r]).rest
           u == Unwrapped(raw)
           cuts == {c \in (DOMAIN u \cap 1 .. 3) \X DOMAIN Authority : Spells(SubSeq(u, 1, c[1]), c[2])}
<1>1. raw \in Paths /\ raw \in Seq(Encoded) /\ Len(raw) >= 1
    BY RestIsPath
<1>2. Meanings(r) = {Meant(c[2], SubSeq(u, c[1] + 1, Len(u)), cfg.defaults) : c \in cuts}
    BY DEF Meanings
<1>3. PICK c \in cuts : thing = Meant(c[2], SubSeq(u, c[1] + 1, Len(u)), cfg.defaults)
    BY <1>2
<1>4. c[1] \in DOMAIN u /\ c[2] \in DOMAIN Authority /\ Spells(SubSeq(u, 1, c[1]), c[2])
    BY <1>3
<1>5. cfg.defaults \in Seq(SupportedHosts)
    BY ServerConstants
<1>6. TargetOf(cfg, asked[r]) = ParseWithDefaults(raw, cfg.defaults)
    BY DEF TargetOf
<1> HIDE DEF raw, u, cuts
<1>7. Is(ParseWithDefaults(raw, cfg.defaults), Meant(c[2], SubSeq(u, c[1] + 1, Len(u)), cfg.defaults))
  <2>1. u = Unwrapped(raw)
      BY DEF u
  <2>. QED BY <1>1, <1>4, <1>5, <2>1, ParsedAsMeant, Zenon
<1>. QED BY <1>3, <1>6, <1>7

\* Every target has a host; what is a target at all has one that ghurl accepts, by
\* the name it is proxied under.
HasHost(t) == "host" \in DOMAIN t /\ (t = NoTarget \/ t.host \in SupportedHosts \ {"www.github.com"})

LEMMA MatchHasHost == \A u : HasHost(Match(u))
<1>1. HasHost(NoTarget)
    BY DEF HasHost, NoTarget
<1>2. ASSUME NEW u, Match(u) # NoTarget PROVE HasHost(Match(u))
  <2> DEFINE s == Decoded(u.path)
             k == KindOf(Authority[u.authority], s)
             repo == IF k = "gist" THEN "" ELSE s[2]
             host == IF Authority[u.authority] = "www.github.com" THEN "github.com" ELSE Authority[u.authority]
             path == IF k = "blob" THEN RewriteBlobToRaw(u.path) ELSE u.path
             t == [kind |-> k, owner |-> s[1], repo |-> repo, host |-> host, path |-> path]
  <2>1. host \in SupportedHosts \ {"www.github.com"}
      BY <1>2, MatchHost DEF SupportedHosts
  <2>2. Match(u) = IF k = None THEN NoTarget ELSE t
      BY DEF Match
  <2> HIDE DEF k, s, repo, host, path
  <2>3. Match(u) = t
      BY <1>2, <2>2
  <2>4. t.host = host /\ "host" \in DOMAIN t
      OBVIOUS
  <2>. QED BY <2>1, <2>3, <2>4, Zenon DEF HasHost
<1>. QED BY <1>1, <1>2, Zenon

\* Whatever is asked for, GitHub's own hosts are all a target can be on, with www
\* under its canonical name: the service is no general-purpose relay
\* (ghurl.go:146-148).
THEOREM TargetsOnGitHub == \A raw, defaults : HasHost(ParseWithDefaults(raw, defaults))
<1>1. HasHost(NoTarget)
    BY DEF HasHost, NoTarget
<1>2. ASSUME NEW u, NEW host PROVE HasHost(AtDefault(u, host))
    BY <1>1, MatchHasHost, Zenon DEF AtDefault
<1>3. ASSUME NEW u, NEW defaults PROVE HasHost(Fallback(u, defaults))
    BY <1>1, <1>2, Zenon DEF Fallback
<1>. QED BY <1>1, <1>3, MatchHasHost, Zenon DEF ParseWithDefaults

LEMMA SameHost ==
    ASSUME NEW t, "host" \in DOMAIN t, NEW thing, Is(t, thing) PROVE thing.host = t.host
<1>1. [t EXCEPT !.path = thing.path] = thing
    BY DEF Is
<1>2. [t EXCEPT !.path = thing.path].host = t.host
    OBVIOUS
<1>. QED BY <1>1, <1>2, Zenon
=============================================================================
