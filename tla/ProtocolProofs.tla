----------------------------- MODULE ProtocolProofs -----------------------------
(***************************************************************************)
(* The handler uses its parts as they are meant to be used: each of its    *)
(* steps is a step of the exchanges and a step of the collector, or none   *)
(* of theirs.  What is proved of Proxy and of Metrics then holds in the    *)
(* server, for every number of requests at once.                           *)
(***************************************************************************)
EXTENDS ServerProofs, FiniteSetTheorems

\* The parts once more, with what is proved of them.
PP == INSTANCE ProxyProofs
MP == INSTANCE MetricsProofs WITH
        Kinds <- TargetKinds,
        Repos <- {RepoName(t) : t \in Repositories},
        StatusCodes <- Codes \cup {103, 200, 204, 302, 404, 502},
        ByteCounts <- 0 .. MaxBody + 1,
        Durations <- {1},
        MaxMinute <- FirstMinute,
        MaxEvents <- Cardinality(Requests)

LEMMA PartsAsAssumed == PP!ProxyConstants /\ MP!MetricsConstants /\ MP!StartsAfterTheEpoch
<1>1. PP!ProxyConstants
    BY PartsConstants DEF P!ProxyConstants, PP!ProxyConstants
<1>2. MP!MetricsConstants
  <2>1. \A S : M!IsFiniteSet(S) => MP!IsFiniteSet(S)
      BY DEF M!IsFiniteSet, MP!IsFiniteSet
  <2>. QED BY <2>1, PartsConstants DEF M!MetricsConstants, MP!MetricsConstants
<1>3. MP!StartsAfterTheEpoch
    BY PartsConstants DEF M!StartsAfterTheEpoch, MP!StartsAfterTheEpoch
<1>. QED BY <1>1, <1>2, <1>3

-----------------------------------------------------------------------------
(* The exchanges: the two instances of Proxy say the same. *)

LEMMA SameProxyInit == P!Init => PP!Init
BY DEF P!Init, PP!Init, P!NoRequest, PP!NoRequest, P!NoURL, PP!NoURL, P!NoResponse, PP!NoResponse,
       P!NoLocation, PP!NoLocation, P!NothingOut, PP!NothingOut

LEMMA SameURLs ==
    /\ P!Location = PP!Location /\ P!NoResponse = PP!NoResponse
    /\ \A r \in Requests : /\ P!NextURL(r) = PP!NextURL(r) /\ P!HandedBack(r) = PP!HandedBack(r)
                           /\ P!Follows(r) = PP!Follows(r) /\ P!NextRequest(r) = PP!NextRequest(r)
                           /\ P!Closed(r) = PP!Closed(r)
    /\ \A url : P!Permitted(url) = PP!Permitted(url)
<1>1. P!Location = PP!Location
    BY DEF P!Location, PP!Location, P!NoURL, PP!NoURL, P!URL, PP!URL, P!Schemes, PP!Schemes
<1>2. ASSUME NEW r \in Requests PROVE P!NextURL(r) = PP!NextURL(r)
    BY DEF P!NextURL, PP!NextURL, P!Resolve, PP!Resolve
<1>3. ASSUME NEW r \in Requests PROVE P!HandedBack(r) = PP!HandedBack(r)
    BY <1>2 DEF P!HandedBack, PP!HandedBack, P!IsRedirect, PP!IsRedirect, P!NoURL, PP!NoURL
<1>4. ASSUME NEW r \in Requests PROVE P!Follows(r) = PP!Follows(r)
    BY DEF P!Follows, PP!Follows, P!IsRedirect, PP!IsRedirect
<1>5. ASSUME NEW r \in Requests PROVE P!NextRequest(r) = PP!NextRequest(r)
    BY <1>2 DEF P!NextRequest, PP!NextRequest, P!NextHeader, PP!NextHeader
<1>6. ASSUME NEW r \in Requests PROVE P!Closed(r) = PP!Closed(r)
    BY DEF P!Closed, PP!Closed
<1>7. \A url : P!Permitted(url) = PP!Permitted(url)
    BY DEF P!Permitted, PP!Permitted
<1>8. P!NoResponse = PP!NoResponse
    BY DEF P!NoResponse, PP!NoResponse, P!NoLocation, PP!NoLocation, P!NoURL, PP!NoURL
<1>. QED BY <1>1, <1>2, <1>3, <1>4, <1>5, <1>6, <1>7, <1>8

LEMMA SameBegin ==
    ASSUME NEW r \in Requests, NEW method, NEW host, NEW names, P!Begin(r, method, host, names)
    PROVE  PP!Begin(r, method, host, names)
BY DEF P!Begin, PP!Begin, P!Send, PP!Send, P!Rewrite, PP!Rewrite

LEMMA SameStep == ASSUME NEW r \in Requests, P!Step(r) PROVE PP!Step(r)
<1>1. ASSUME NEW method \in P!ForwardedMethods, NEW host \in ProxyableHosts, NEW names \in {{}, HeaderNames},
             P!Begin(r, method, host, names)
      PROVE  PP!Step(r)
    BY <1>1, SameBegin DEF PP!Step, P!ForwardedMethods, PP!ForwardedMethods
<1>2. ASSUME P!Upload(r) \/ P!Informational(r) \/ P!Hangup(r)
      PROVE  PP!Upload(r) \/ PP!Informational(r) \/ PP!Hangup(r)
    BY <1>2 DEF P!Upload, PP!Upload, P!Informational, PP!Informational, P!Hangup, PP!Hangup
<1>3. ASSUME P!Answered(r) PROVE PP!Answered(r)
    BY <1>3, SameURLs DEF P!Answered, PP!Answered, P!Respond, PP!Respond,
                          P!PossibleAnswer, PP!PossibleAnswer
<1>4. ASSUME P!TransportError(r) \/ P!HeaderTimeout(r) \/ P!Cancelled(r)
      PROVE  PP!TransportError(r) \/ PP!HeaderTimeout(r) \/ PP!Cancelled(r)
    BY <1>4 DEF P!TransportError, PP!TransportError, P!HeaderTimeout, PP!HeaderTimeout,
                P!Cancelled, PP!Cancelled
<1>5. ASSUME P!ReturnResponse(r) \/ P!RefuseHop(r) PROVE PP!ReturnResponse(r) \/ PP!RefuseHop(r)
    BY <1>5, SameURLs DEF P!ReturnResponse, PP!ReturnResponse, P!RefuseHop, PP!RefuseHop
<1>6. ASSUME P!FollowHop(r) PROVE PP!FollowHop(r)
    BY <1>6, SameURLs DEF P!FollowHop, PP!FollowHop, P!Send, PP!Send
<1>7. ASSUME P!Deliver(r) \/ P!DeliverOversized(r) PROVE PP!Deliver(r) \/ PP!DeliverOversized(r)
    BY <1>7, SameURLs DEF P!Deliver, PP!Deliver, P!DeliverOversized, PP!DeliverOversized,
                          P!Oversized, PP!Oversized, P!Answer, PP!Answer
<1>8. ASSUME P!CopyChunk(r) \/ P!FinishCopy(r) \/ P!AbortCopy(r)
      PROVE  PP!CopyChunk(r) \/ PP!FinishCopy(r) \/ PP!AbortCopy(r)
    BY <1>8, SameURLs DEF P!CopyChunk, PP!CopyChunk, P!FinishCopy, PP!FinishCopy,
                          P!AbortCopy, PP!AbortCopy, P!End, PP!End
<1>9. ASSUME P!HandleError(r) PROVE PP!HandleError(r)
    BY <1>9 DEF P!HandleError, PP!HandleError, P!Answer, PP!Answer, P!NothingOut, PP!NothingOut,
                P!NoURL, PP!NoURL, P!Noticed, PP!Noticed
<1>. QED BY <1>1, <1>2, <1>3, <1>4, <1>5, <1>6, <1>7, <1>8, <1>9 DEF P!Step, PP!Step

LEMMA ServedHost ==
    ASSUME NEW c \in Configs, NEW a \in Asks, Reason(c, a) = None
    PROVE  TargetOf(c, a).host \in SupportedHosts \ {"www.github.com"}
<1>1. TargetOf(c, a) # NoTarget
    BY ServerConstants DEF Reason, Reasons
<1>2. HasHost(TargetOf(c, a))
    BY TargetsOnGitHub, Zenon DEF TargetOf
<1>. QED BY <1>1, <1>2 DEF HasHost

\* A request that is forwarded is one that Proxy expects: of a method it relays,
\* for a host that ghurl accepts.
LEMMA ForwardBegins == ASSUME ServerInv, NEW r \in Requests, Forward(r) PROVE PP!Step(r)
<1>1. Serving(r) /\ rec[r].kind # None /\ asked[r].method # "OPTIONS"
    BY DEF Forward
<1>2. cfg \in Configs /\ asked[r] \in Asks /\ Reason(cfg, asked[r]) = None
    BY <1>1, ServingSlot DEF ServerInv, SlotOf, Slot
<1>3. asked[r].method \in PP!ForwardedMethods
    BY <1>1, <1>2, ServedIsAdmitted DEF Served, PP!ForwardedMethods
<1>4. TargetOf(cfg, asked[r]).host \in ProxyableHosts
    BY <1>2, ServedHost, ServerConstants
<1>5. PP!Begin(r, asked[r].method, TargetOf(cfg, asked[r]).host, HeaderNames)
    BY SameBegin DEF Forward
<1>. QED BY <1>3, <1>4, <1>5 DEF PP!Step

LEMMA ExchangesStep == ServerInv /\ [Next]_vars => [PP!Next]_(PP!vars)
<1> SUFFICES ASSUME ServerInv, [Next]_vars PROVE [PP!Next]_(PP!vars)
    OBVIOUS
<1>1. ASSUME UNCHANGED exchangeVars PROVE UNCHANGED PP!vars
    BY <1>1 DEF exchangeVars, PP!vars
<1>2. CASE UNCHANGED vars \/ AllOver
    BY <1>1, <1>2 DEF AllOver, vars
<1>3. ASSUME NEW r \in Requests, NEW a \in Asks, ServeStatus(r, a) \/ Arrive(r, a)
      PROVE  UNCHANGED PP!vars
    BY <1>1, <1>3 DEF ServeStatus, Arrive
<1>4. ASSUME NEW r \in Requests, Handle(r) PROVE PP!Step(r) \/ UNCHANGED PP!vars
    BY <1>1, <1>4, ForwardBegins
       DEF Handle, Refuse, Deny, Resolve, AnswerPreflight, Close, Record
<1>5. ASSUME NEW r \in Requests, Relay(r) PROVE PP!Step(r)
    BY <1>5, SameStep DEF Relay
<1>. QED BY <1>2, <1>3, <1>4, <1>5 DEF Next, PP!Next

\* Whatever requests arrive together, each exchange runs in the server as Proxy
\* says: it is begun once, for an admitted target, and only its own steps move it.
THEOREM ExchangesRun == Spec => PP!Spec
<1>1. Init => PP!Init
    BY SameProxyInit DEF Init
<1>. QED BY <1>1, ServerInvariant, ExchangesStep, PTL DEF Spec, PP!Spec

LEMMA SameProxyProperties ==
    /\ PP!TypeOK => P!TypeOK
    /\ PP!CredentialStaysHome => P!CredentialStaysHome
    /\ PP!RedirectsConfined => P!RedirectsConfined
    /\ PP!BodiesReleased => P!BodiesReleased
    /\ PP!RedirectsComeBack => P!RedirectsComeBack
    /\ PP!DeclaredOversizeNotStreamed => P!DeclaredOversizeNotStreamed
<1>1. PP!TypeOK => P!TypeOK
  <2>1. P!URL = PP!URL /\ P!NoURL = PP!NoURL /\ P!Header = PP!Header /\ P!PCs = PP!PCs
      BY DEF P!URL, PP!URL, P!Schemes, PP!Schemes, P!NoURL, PP!NoURL, P!Header, PP!Header, P!PCs, PP!PCs
  <2>2. P!Request = PP!Request /\ P!Response = PP!Response
      BY <2>1, SameURLs DEF P!Request, PP!Request, P!Response, PP!Response, P!ForwardedMethods, PP!ForwardedMethods
  <2>3. P!Output = PP!Output
      BY <2>1 DEF P!Output, PP!Output, P!Statuses, PP!Statuses, P!ClientLocation, PP!ClientLocation,
                  P!Endings, PP!Endings
  <2>. QED BY <2>1, <2>2, <2>3 DEF P!TypeOK, PP!TypeOK
<1>2. PP!CredentialStaysHome => P!CredentialStaysHome
    BY DEF P!CredentialStaysHome, PP!CredentialStaysHome
<1>3. PP!RedirectsConfined => P!RedirectsConfined
    BY SameURLs DEF P!RedirectsConfined, PP!RedirectsConfined
<1>4. PP!BodiesReleased => P!BodiesReleased
    BY DEF P!BodiesReleased, PP!BodiesReleased
<1>5. PP!RedirectsComeBack => P!RedirectsComeBack
    BY DEF P!RedirectsComeBack, PP!RedirectsComeBack, P!IsRedirect, PP!IsRedirect, P!Last, PP!Last,
           P!URL, PP!URL, P!Schemes, PP!Schemes
<1>6. PP!DeclaredOversizeNotStreamed => P!DeclaredOversizeNotStreamed
    BY DEF P!DeclaredOversizeNotStreamed, PP!DeclaredOversizeNotStreamed
<1>. QED BY <1>1, <1>2, <1>3, <1>4, <1>5, <1>6

\* What is proved of one exchange at a time holds of the server's, for every request
\* it admits: the credential stays home, redirects are confined and come back, no
\* response body is kept open, and nothing over the limit is streamed.
THEOREM ExchangesSafe ==
    Spec => [](/\ P!TypeOK /\ P!CredentialStaysHome /\ P!RedirectsConfined /\ P!BodiesReleased
               /\ P!RedirectsComeBack /\ P!DeclaredOversizeNotStreamed)
<1>1. PP!Spec => [](PP!TypeOK /\ PP!BodiesReleased)
    BY PartsAsAssumed, PP!TypeCorrect, PP!BodiesCorrect, PTL
<1>2. PP!Spec => [](PP!CredentialStaysHome /\ PP!RedirectsConfined)
    BY PartsAsAssumed, PP!CredentialCorrect, PP!ConfinementCorrect, PTL
<1>3. PP!Spec => [](PP!RedirectsComeBack /\ PP!DeclaredOversizeNotStreamed)
    BY PartsAsAssumed, PP!RedirectsCorrect, PP!SizeLimitCorrect, PTL
<1>. QED BY <1>1, <1>2, <1>3, ExchangesRun, SameProxyProperties, PTL

\* And each, as its client sees it, is an exchange as Exchange promises.
THEOREM ExchangesAnswer == Spec => PP!ImplementsExchange
BY PartsAsAssumed, ExchangesRun, PP!ExchangeImplemented

-----------------------------------------------------------------------------
(***************************************************************************)
(* The Recorder.  What the handler tells it agrees with what it decided    *)
(* and answered: a denial with its reason, a preflight with its mark, and  *)
(* a forwarded request with the kind of its target.                        *)
(***************************************************************************)
LEMMA MatchKind == \A u : Match(u) = NoTarget \/ Match(u).kind \in TargetKinds
<1> TAKE u
<1> DEFINE kind == KindOf(Authority[u.authority], Decoded(u.path))
<1>1. \A s : GithubKind(s) \in TargetKinds \cup {None}
    BY DEF GithubKind, TargetKinds
<1>2. \A s : RawKind(s) \in TargetKinds \cup {None} /\ GistKind(s) \in TargetKinds \cup {None}
    BY DEF RawKind, GistKind, TargetKinds
<1>3. kind \in TargetKinds \cup {None}
    BY <1>1, <1>2 DEF KindOf
<1>4. CASE kind = None
    BY <1>4 DEF Match
<1>5. CASE kind # None
  <2>1. Match(u).kind = kind
      BY <1>5 DEF Match
  <2>. QED BY <2>1, <1>3, <1>5
<1>. QED BY <1>4, <1>5

LEMMA TargetKindKnown ==
    ASSUME NEW c \in Configs, NEW a \in Asks, Reason(c, a) = None
    PROVE  TargetOf(c, a).kind \in TargetKinds /\ TargetOf(c, a).kind # None
<1>1. TargetOf(c, a) # NoTarget
    BY ServerConstants DEF Reason, Reasons
<1>2. \A u, host : AtDefault(u, host) = NoTarget \/ AtDefault(u, host).kind \in TargetKinds
    BY MatchKind DEF AtDefault
<1>3. \A u, hosts : Fallback(u, hosts) = NoTarget \/ Fallback(u, hosts).kind \in TargetKinds
    BY <1>2 DEF Fallback
<1>4. TargetOf(c, a).kind \in TargetKinds
    BY <1>1, <1>3, MatchKind DEF TargetOf, ParseWithDefaults
<1>5. None \notin TargetKinds
    BY PartsAsAssumed DEF MP!MetricsConstants
<1>. QED BY <1>4, <1>5

Marked(a, q, answer, at) ==
    /\ q.pc = "idle" => q = M!IdleRecorder
    /\ q.pc # "idle" =>
          /\ a \in Asks /\ ~OnStatusPath(cfg, a) /\ q.method = a.method
          /\ answer \in {NoReply, Denial, PreflightReply}
          /\ q.reason = IF answer = Denial THEN Reason(cfg, a) ELSE None
          /\ answer = Denial => Reason(cfg, a) # None
          /\ q.options = (answer = PreflightReply)
          /\ q.kind \in {None, TargetOf(cfg, a).kind}
          /\ answer = PreflightReply \/ at # "idle" => q.kind # None
    /\ q.pc = "ending" => answer # NoReply \/ at = "done"

MarkedOf(r) == Marked(asked[r], rec[r], reply[r], pc[r])
MarksInv == \A r \in Requests : MarkedOf(r)

LEMMA InitiallyMarked == Init => MarksInv
<1> SUFFICES ASSUME Init, NEW r \in Requests PROVE MarkedOf(r)
    BY DEF MarksInv
<1>1. asked[r] = NoAsk /\ rec[r] = M!IdleRecorder /\ reply[r] = NoReply /\ pc[r] = "idle"
    BY DEF Init, M!Init, P!Init
<1>2. Marked(NoAsk, M!IdleRecorder, NoReply, "idle")
    BY DEF Marked, M!IdleRecorder
<1>. QED BY <1>1, <1>2 DEF MarkedOf

LEMMA OneMarked ==
    ASSUME ServerInv, MarksInv, NEW r \in Requests, Alone(r),
           Marked(asked'[r], rec'[r], reply'[r], pc'[r])
    PROVE  MarksInv'
<1>1. ASSUME NEW x \in Requests PROVE MarkedOf(x)'
  <2>1. CASE x = r
      BY <2>1 DEF MarkedOf, Marked, Alone
  <2>2. CASE x # r
    <3>1. /\ asked'[x] = asked[x] /\ rec'[x] = rec[x] /\ reply'[x] = reply[x] /\ pc'[x] = pc[x]
          /\ MarkedOf(x) /\ cfg' = cfg
        BY <2>2 DEF MarksInv, Alone
    <3>. QED BY <3>1 DEF MarkedOf, Marked
  <2>. QED BY <2>1, <2>2
<1>. QED BY <1>1 DEF MarksInv

LEMMA ArrivalMarked ==
    ASSUME ServerInv, MarksInv, NEW r \in Requests, NEW a \in Asks, ServeStatus(r, a) \/ Arrive(r, a)
    PROVE  MarksInv'
<1>1. /\ asked[r] = NoAsk /\ asked' = [asked EXCEPT ![r] = a] /\ cfg' = cfg /\ pc' = pc /\ trail' = trail
    BY DEF ServeStatus, Arrive, Arriving, exchangeVars
<1>2. reply[r] = NoReply /\ pc[r] = "idle" /\ rec[r].pc = "idle" /\ MarkedOf(r)
    BY <1>1 DEF ServerInv, SlotOf, Slot, MarksInv
<1>3. CASE ServeStatus(r, a)
  <2>1. reply' = [reply EXCEPT ![r] = StatusReply(cfg, a)] /\ rec' = rec
      BY <1>3 DEF ServeStatus, collectorVars
  <2>2. Marked(a, rec[r], StatusReply(cfg, a), pc[r])
      BY <1>2 DEF MarkedOf, Marked
  <2>3. Alone(r) /\ asked'[r] = a /\ reply'[r] = StatusReply(cfg, a)
      BY <1>1, <2>1 DEF Alone, ServerInv
  <2>. QED BY <1>1, <2>1, <2>2, <2>3, OneMarked
<1>4. CASE Arrive(r, a)
  <2> DEFINE q == [M!IdleRecorder EXCEPT !.pc = "open", !.method = a.method]
  <2>1. ~OnStatusPath(cfg, a) /\ reply' = reply /\ rec' = [rec EXCEPT ![r] = q]
      BY <1>4 DEF Arrive, M!Start
  <2>2. q.pc = "open" /\ q.kind = None /\ q.method = a.method /\ q.reason = None /\ q.options = FALSE
      BY DEF M!IdleRecorder
  <2> HIDE DEF q
  <2>3. NoReply # Denial /\ NoReply # PreflightReply
      BY DEF NoReply, Denial, PreflightReply
  <2>4. Marked(a, q, NoReply, "idle")
      BY <2>1, <2>2, <2>3 DEF Marked
  <2>5. Alone(r) /\ asked'[r] = a /\ rec'[r] = q
      BY <1>1, <2>1 DEF Alone, ServerInv
  <2>. QED BY <1>1, <1>2, <2>1, <2>4, <2>5, OneMarked
<1>. QED BY <1>3, <1>4

LEMMA ServingMarked ==
    ASSUME ServerInv, MarksInv, NEW r \in Requests, Serving(r)
    PROVE  /\ asked[r] \in Asks /\ ~OnStatusPath(cfg, asked[r]) /\ rec[r].method = asked[r].method
           /\ rec[r].reason = None /\ rec[r].options = FALSE /\ rec[r].pc = "open"
           /\ rec[r].kind \in {None, TargetOf(cfg, asked[r]).kind}
           /\ reply[r] = NoReply /\ pc[r] = "idle" /\ cfg \in Configs
<1>1. MarkedOf(r) /\ rec[r].pc = "open" /\ reply[r] = NoReply /\ pc[r] = "idle" /\ cfg \in Configs
    BY DEF MarksInv, Serving, ServerInv
<1>2. NoReply # Denial /\ NoReply # PreflightReply
    BY DEF NoReply, Denial, PreflightReply
<1>. QED BY <1>1, <1>2 DEF MarkedOf, Marked

LEMMA Differ == /\ NoReply # Denial /\ NoReply # PreflightReply /\ Denial # PreflightReply
                /\ Denial.code = 404 /\ PreflightReply.code = 204
                /\ NoReply.sent = 0 /\ Denial.sent = 1 /\ PreflightReply.sent = 0
BY DEF NoReply, Denial, PreflightReply

LEMMA HandlerMarked ==
    ASSUME ServerInv, MarksInv, NEW r \in Requests, Handle(r)
    PROVE  MarksInv'
<1>1. CASE Refuse(r)
  <2> DEFINE q == [rec[r] EXCEPT !.reason = Reason(cfg, asked[r])]
  <2>1. Serving(r) /\ Reason(cfg, asked[r]) # None
      BY <1>1 DEF Refuse
  <2>2. /\ rec' = [rec EXCEPT ![r] = q] /\ reply' = [reply EXCEPT ![r] = Denial]
        /\ UNCHANGED <<cfg, asked, pc, trail>>
      BY <1>1 DEF Refuse, Deny, M!Deny, exchangeVars
  <2>0. q.reason = Reason(cfg, asked[r])
      OBVIOUS
  <2>3. /\ q.pc = rec[r].pc /\ q.kind = rec[r].kind /\ q.method = rec[r].method
        /\ q.options = rec[r].options
      OBVIOUS
  <2> HIDE DEF q
  <2>6. /\ asked[r] \in Asks /\ ~OnStatusPath(cfg, asked[r]) /\ q.method = asked[r].method
        /\ q.options = FALSE /\ q.pc = "open" /\ q.kind \in {None, TargetOf(cfg, asked[r]).kind}
        /\ pc[r] = "idle"
      BY <2>1, <2>3, ServingMarked
  <2>4. Marked(asked[r], q, Denial, pc[r])
      BY <2>0, <2>1, <2>6, Differ DEF Marked
  <2>5. Alone(r) /\ rec'[r] = q /\ reply'[r] = Denial
      BY <2>2 DEF Alone, ServerInv
  <2>. QED BY <2>2, <2>4, <2>5, OneMarked
<1>2. CASE Resolve(r)
  <2> DEFINE kind == TargetOf(cfg, asked[r]).kind
             q == [rec[r] EXCEPT !.kind = kind, !.repo = RepoName(TargetOf(cfg, asked[r]))]
  <2>1. Serving(r)
      BY <1>2 DEF Resolve
  <2>2. rec' = [rec EXCEPT ![r] = q] /\ UNCHANGED <<cfg, asked, reply, pc, trail>>
      BY <1>2 DEF Resolve, M!Target, own, exchangeVars
  <2>3. /\ q.pc = rec[r].pc /\ q.method = rec[r].method
        /\ q.options = rec[r].options /\ q.reason = rec[r].reason
      OBVIOUS
  <2>0. q.kind \in {None, kind}
      OBVIOUS
  <2> HIDE DEF q
  <2>6. /\ asked[r] \in Asks /\ ~OnStatusPath(cfg, asked[r]) /\ q.method = asked[r].method
        /\ q.reason = None /\ q.options = FALSE /\ q.pc = "open"
      BY <2>1, <2>3, ServingMarked
  <2>4. Marked(asked[r], q, NoReply, "idle")
      BY <2>0, <2>6, Differ DEF Marked
  <2>5. Alone(r) /\ rec'[r] = q
      BY <2>2 DEF Alone, ServerInv
  <2>. QED BY <2>1, <2>2, <2>4, <2>5, ServingMarked, OneMarked
<1>3. CASE AnswerPreflight(r)
  <2> DEFINE q == [rec[r] EXCEPT !.options = TRUE]
  <2>1. Serving(r) /\ rec[r].kind # None
      BY <1>3 DEF AnswerPreflight
  <2>2. /\ rec' = [rec EXCEPT ![r] = q] /\ reply' = [reply EXCEPT ![r] = PreflightReply]
        /\ UNCHANGED <<cfg, asked, pc, trail>>
      BY <1>3 DEF AnswerPreflight, M!Preflight, exchangeVars
  <2>3. /\ q.pc = rec[r].pc /\ q.kind = rec[r].kind /\ q.method = rec[r].method
        /\ q.reason = rec[r].reason
      OBVIOUS
  <2>0. q.options = TRUE
      BY <2>1, ServingMarked DEF MarksInv, MarkedOf, Marked
  <2> HIDE DEF q
  <2>6. /\ asked[r] \in Asks /\ ~OnStatusPath(cfg, asked[r]) /\ q.method = asked[r].method
        /\ q.reason = None /\ q.pc = "open" /\ q.kind \in {None, TargetOf(cfg, asked[r]).kind}
        /\ q.kind # None
      BY <2>1, <2>3, ServingMarked
  <2>4. Marked(asked[r], q, PreflightReply, pc[r])
      BY <2>0, <2>6, Differ DEF Marked
  <2>5. Alone(r) /\ rec'[r] = q /\ reply'[r] = PreflightReply
      BY <2>2 DEF Alone, ServerInv
  <2>. QED BY <2>2, <2>4, <2>5, OneMarked
<1>4. CASE Forward(r)
  <2>1. Serving(r) /\ rec[r].kind # None
      BY <1>4 DEF Forward
  <2>2. pc' = [pc EXCEPT ![r] = "sent"] /\ UNCHANGED <<cfg, asked, reply, rec>>
      BY <1>4 DEF Forward, P!Begin, P!Send, own, collectorVars
  <2>3. trail' = [x \in Requests |-> trail'[x]] /\ \A x \in Requests \ {r} : trail'[x] = trail[x]
    <3>1. PICK s : trail' = [trail EXCEPT ![r] = s]
        BY <1>4 DEF Forward, P!Begin, P!Send
    <3>. QED BY <3>1 DEF ServerInv
  <2> DEFINE q == rec[r]
  <2>6. /\ asked[r] \in Asks /\ ~OnStatusPath(cfg, asked[r]) /\ q.method = asked[r].method
        /\ q.reason = None /\ q.options = FALSE /\ q.pc = "open"
        /\ q.kind # None /\ q.kind \in {None, TargetOf(cfg, asked[r]).kind}
      BY <2>1, ServingMarked
  <2> HIDE DEF q
  <2>4. Marked(asked[r], q, NoReply, "sent")
      BY <2>6, Differ DEF Marked
  <2>5. Alone(r) /\ pc'[r] = "sent"
      BY <2>2, <2>3 DEF Alone, ServerInv
  <2>. QED BY <2>1, <2>2, <2>4, <2>5, ServingMarked, OneMarked DEF q
<1>5. CASE Close(r)
  <2> DEFINE q == [rec[r] EXCEPT !.pc = "ending",
                                 !.fin = [status |-> cw[r].status,
                                          bytes |-> IF cw[r].written < 0 THEN 0 ELSE cw[r].written,
                                          d |-> 1, now |-> clock]]
  <2>1. /\ rec[r].pc = "open" /\ (reply[r] # NoReply \/ pc[r] = "done")
        /\ UNCHANGED <<cfg, asked, reply, pc, trail>> /\ rec' = [rec EXCEPT ![r] = q]
      BY <1>5 DEF Close, M!ReadClock, Returned, own, exchangeVars
  <2>2. MarkedOf(r)
      BY DEF MarksInv
  <2>3. /\ q.kind = rec[r].kind /\ q.method = rec[r].method /\ q.reason = rec[r].reason
        /\ q.options = rec[r].options /\ q.pc = "ending"
      BY <2>1
  <2> HIDE DEF q
  <2>4. Marked(asked[r], q, reply[r], pc[r])
      BY <2>1, <2>2, <2>3 DEF MarkedOf, Marked
  <2>5. Alone(r) /\ rec'[r] = q
      BY <2>1 DEF Alone, ServerInv
  <2>. QED BY <2>1, <2>4, <2>5, OneMarked
<1>6. CASE Record(r)
  <2>1. rec' = [rec EXCEPT ![r] = M!IdleRecorder] /\ UNCHANGED <<cfg, asked, reply, pc, trail>>
      BY <1>6 DEF Record, M!Finish, exchangeVars
  <2>2. Marked(asked[r], M!IdleRecorder, reply[r], pc[r])
      BY DEF Marked, M!IdleRecorder
  <2>3. Alone(r) /\ rec'[r] = M!IdleRecorder
      BY <2>1 DEF Alone, ServerInv
  <2>. QED BY <2>1, <2>2, <2>3, OneMarked
<1>. QED BY <1>1, <1>2, <1>3, <1>4, <1>5, <1>6 DEF Handle

\* What is known of the server already, and of its exchanges.
Sound == ServerInv /\ AccountInv /\ PP!DeliveryInv

LEMMA SoundInit == Init => Sound
<1>1. Init => PP!DeliveryInv
    BY SameProxyInit, PartsAsAssumed, PP!DeliveryInit DEF Init
<1>. QED BY <1>1, Initially, InitiallyCounted DEF Sound

LEMMA SoundStep == Sound /\ [Next]_vars => Sound'
<1>1. PP!DeliveryInv /\ [PP!Next]_(PP!vars) => PP!DeliveryInv'
    BY PartsAsAssumed, PP!DeliveryStep
<1>. QED BY <1>1, NextStep, NextCounted, ExchangesStep DEF Sound

\* A step of an exchange moves nothing of the others, and there is none before the
\* exchange begins or after it is over.
LEMMA RelayMoves ==
    ASSUME Sound, Sound', NEW r \in Requests, Relay(r)
    PROVE  /\ pc[r] \notin {"idle", "done"} /\ pc'[r] # "idle" /\ reply[r] = NoReply
           /\ UNCHANGED <<cfg, asked, reply, entry, rec, log>>
           /\ Alone(r) /\ \A x \in Requests \ {r} : out'[x] = out[x] /\ resp'[x] = resp[x]
<1>1. PP!Step(r) /\ pc[r] # "idle" /\ UNCHANGED <<cfg, asked, reply, entry, rec, log>>
    BY SameStep DEF Relay, Relayed, collectorVars
<1>2. PP!ProxyInv /\ PP!ProxyInv' /\ PP!Apart(r)
    BY <1>1, PartsAsAssumed, PP!StepApart DEF Sound, PP!DeliveryInv
<1>3. pc[r] # "done" /\ pc'[r] # "idle"
  <2>1. pc \in [Requests -> PP!PCs]
      BY <1>2 DEF PP!ProxyInv, PP!TypeOK
  <2>2. P!Step(r)
      BY DEF Relay
  <2>3. \A method, host, names : ~P!Begin(r, method, host, names)
      BY <1>1 DEF P!Begin
  <2>4. CASE P!Upload(r) \/ P!Informational(r) \/ P!CopyChunk(r) \/ P!Hangup(r)
      BY <1>1, <2>4 DEF P!Upload, P!Informational, P!CopyChunk, P!Hangup
  <2>5. CASE P!Answered(r) \/ P!ReturnResponse(r) \/ P!Deliver(r) \/ P!DeliverOversized(r) \/ P!HandleError(r)
      BY <2>1, <2>5 DEF P!Answered, P!Respond, P!ReturnResponse, P!Deliver, P!DeliverOversized, P!HandleError
  <2>6. CASE P!TransportError(r) \/ P!HeaderTimeout(r) \/ P!Cancelled(r) \/ P!RefuseHop(r)
      BY <2>1, <2>6 DEF P!TransportError, P!HeaderTimeout, P!Cancelled, P!RefuseHop
  <2>7. CASE P!FollowHop(r) \/ P!FinishCopy(r) \/ P!AbortCopy(r)
      BY <2>1, <2>7 DEF P!FollowHop, P!Send, P!FinishCopy, P!AbortCopy, P!End
  <2>. QED BY <2>2, <2>3, <2>4, <2>5, <2>6, <2>7 DEF P!Step
<1>4. reply[r] = NoReply
    BY <1>1 DEF Sound, AccountInv, AccountOf, Account
<1>5. Alone(r) /\ \A x \in Requests \ {r} : out'[x] = out[x] /\ resp'[x] = resp[x]
  <2>1. /\ pc' = [x \in Requests |-> pc'[x]] /\ trail' = [x \in Requests |-> trail'[x]]
        /\ rec' = [x \in Requests |-> rec'[x]] /\ reply' = [x \in Requests |-> reply'[x]]
        /\ asked' = [x \in Requests |-> asked'[x]]
      BY DEF Sound, ServerInv
  <2>. QED BY <1>1, <1>2, <2>1 DEF Alone, PP!Apart
<1>. QED BY <1>1, <1>3, <1>4, <1>5

LEMMA MarksStep == Sound /\ Sound' /\ MarksInv /\ [Next]_vars => MarksInv'
<1> SUFFICES ASSUME Sound, Sound', MarksInv, [Next]_vars PROVE MarksInv'
    OBVIOUS
<1>1. CASE UNCHANGED vars \/ AllOver
    BY <1>1 DEF AllOver, vars, own, collectorVars, exchangeVars, MarksInv, MarkedOf, Marked
<1>2. ASSUME NEW r \in Requests, NEW a \in Asks, ServeStatus(r, a) \/ Arrive(r, a) PROVE MarksInv'
    BY <1>2, ArrivalMarked DEF Sound
<1>3. ASSUME NEW r \in Requests, Handle(r) PROVE MarksInv'
    BY <1>3, HandlerMarked DEF Sound
<1>4. ASSUME NEW r \in Requests, Relay(r) PROVE MarksInv'
  <2>1. /\ pc[r] \notin {"idle", "done"} /\ pc'[r] # "idle" /\ reply[r] = NoReply
        /\ UNCHANGED <<cfg, asked, reply, rec>> /\ Alone(r)
      BY <1>4, RelayMoves
  <2>2. MarkedOf(r) /\ ServerInv
      BY DEF MarksInv, Sound
  <2>3. Marked(asked[r], rec[r], reply[r], pc'[r])
      BY <2>1, <2>2 DEF MarkedOf, Marked
  <2>. QED BY <2>1, <2>2, <2>3, OneMarked
<1>. QED BY <1>1, <1>2, <1>3, <1>4 DEF Next

-----------------------------------------------------------------------------
(***************************************************************************)
(* The counting writer's status: that of the handler's own answer, or the  *)
(* first GitHub's exchange wrote, or 200 when nothing was written.  What   *)
(* an exchange sends is a body, or the one chunk of a 502.                 *)
(***************************************************************************)
Finals == Codes \cup {103, 302, 502}

FirstStatus(o, answer) ==
    IF answer # NoReply THEN answer.code ELSE IF o.codes = <<>> THEN 200 ELSE o.codes[1]

Told(a, o, w, answer) ==
    /\ o.codes \in Seq(Finals) /\ o.sent \in 0 .. MaxBody + 1
    /\ ~(a # NoAsk /\ OnStatusPath(cfg, a)) => w.status = FirstStatus(o, answer)

ToldOf(r) == Told(asked[r], out[r], cw[r], reply[r])
WriterInv == \A r \in Requests : ToldOf(r)

LEMMA InitiallyTold == Init => WriterInv
<1> SUFFICES ASSUME Init, NEW r \in Requests PROVE ToldOf(r)
    BY DEF WriterInv
<1>1. asked[r] = NoAsk /\ out[r] = P!NothingOut /\ cw[r] = NewWriter /\ reply[r] = NoReply
    BY DEF Init, P!Init
<1>2. Told(NoAsk, P!NothingOut, NewWriter, NoReply)
    BY PartsAsAssumed DEF Told, FirstStatus, P!NothingOut, NewWriter, PP!ProxyConstants
<1>. QED BY <1>1, <1>2 DEF ToldOf

LEMMA SameTold ==
    ASSUME WriterInv, UNCHANGED <<cfg, asked, reply, cw, out>> PROVE WriterInv'
BY DEF WriterInv, ToldOf, Told, FirstStatus

\* Slot r is told something, the others are left alone.
LEMMA OneTold ==
    ASSUME WriterInv, NEW r \in Requests, cfg' = cfg,
           \A x \in Requests \ {r} : /\ asked'[x] = asked[x] /\ reply'[x] = reply[x]
                                     /\ cw'[x] = cw[x] /\ out'[x] = out[x],
           Told(asked'[r], out'[r], cw'[r], reply'[r])
    PROVE  WriterInv'
<1>1. ASSUME NEW x \in Requests PROVE ToldOf(x)'
  <2>1. CASE x = r
      BY <2>1 DEF ToldOf, Told, FirstStatus
  <2>2. CASE x # r
    <3>1. /\ asked'[x] = asked[x] /\ reply'[x] = reply[x] /\ cw'[x] = cw[x] /\ out'[x] = out[x]
          /\ ToldOf(x)
        BY <2>2 DEF WriterInv
    <3>. QED BY <3>1 DEF ToldOf, Told, FirstStatus
  <2>. QED BY <2>1, <2>2
<1>. QED BY <1>1 DEF WriterInv

LEMMA ArrivalTold ==
    ASSUME Sound, WriterInv, NEW r \in Requests, NEW a \in Asks, ServeStatus(r, a) \/ Arrive(r, a)
    PROVE  WriterInv'
<1>1. /\ asked[r] = NoAsk /\ asked' = [asked EXCEPT ![r] = a] /\ a # NoAsk
      /\ cfg' = cfg /\ out' = out /\ cw' = cw
    BY ServerConstants DEF ServeStatus, Arrive, Arriving, exchangeVars
<1>2. asked'[r] = a /\ \A x \in Requests \ {r} : asked'[x] = asked[x]
    BY <1>1 DEF Sound, ServerInv
<1>3. \A x \in Requests \ {r} : reply'[x] = reply[x]
    BY DEF ServeStatus, Arrive, Sound, ServerInv
<1>4. ToldOf(r)
    BY DEF WriterInv
<1>5. Told(a, out[r], cw[r], reply'[r])
  <2>1. CASE ServeStatus(r, a)
      BY <1>1, <1>4, <2>1 DEF ServeStatus, ToldOf, Told
  <2>2. CASE Arrive(r, a)
      BY <1>1, <1>4, <2>2 DEF Arrive, ToldOf, Told
  <2>. QED BY <2>1, <2>2
<1>. QED BY <1>1, <1>2, <1>3, <1>5, OneTold

\* A writer nothing went through yet takes the first status it is given.
LEMMA ReplyTold ==
    ASSUME Sound, WriterInv, NEW r \in Requests, Serving(r), NEW answer, answer # NoReply,
           UNCHANGED <<cfg, asked, out>>, reply' = [reply EXCEPT ![r] = answer],
           NEW w, cw' = [cw EXCEPT ![r] = w],
           w.status = WriteHeader(cw[r], answer.code).status
    PROVE  WriterInv'
<1>1. reply[r] = NoReply /\ AccountOf(r) /\ ToldOf(r) /\ out[r].codes = <<>>
    BY DEF Serving, Sound, AccountInv, AccountOf, Account, WriterInv
<1>2. asked[r] # NoAsk /\ ~OnStatusPath(cfg, asked[r])
    BY ServingSlot DEF Sound
<1>3. cw[r].wrote = FALSE
    BY <1>1, <1>2 DEF AccountOf, Account, Counts
<1>4. w.status = answer.code
    BY <1>3 DEF WriteHeader
<1>5. Told(asked[r], out[r], w, answer)
    BY <1>1, <1>4 DEF ToldOf, Told, FirstStatus
<1>6. /\ reply'[r] = answer /\ cw'[r] = w
      /\ \A x \in Requests \ {r} : reply'[x] = reply[x] /\ cw'[x] = cw[x]
    BY DEF Sound, ServerInv, AccountInv
<1>. QED BY <1>5, <1>6, OneTold

LEMMA HandlerTold ==
    ASSUME Sound, WriterInv, NEW r \in Requests, Handle(r)
    PROVE  WriterInv'
<1>1. CASE Refuse(r)
  <2> DEFINE h == WriteHeader(cw[r], Denial.code)
             w == Write(h, Denial.sent)
  <2>1. Serving(r) /\ UNCHANGED <<cfg, asked, out>> /\ reply' = [reply EXCEPT ![r] = Denial]
        /\ cw' = [cw EXCEPT ![r] = w]
      BY <1>1 DEF Refuse, Deny, exchangeVars
  <2>2. w.status = h.status
      BY DEF Write
  <2> HIDE DEF w
  <2>. QED BY <2>1, <2>2, ReplyTold, Differ
<1>2. CASE AnswerPreflight(r)
  <2> DEFINE w == WriteHeader(cw[r], PreflightReply.code)
  <2>1. Serving(r) /\ UNCHANGED <<cfg, asked, out>> /\ reply' = [reply EXCEPT ![r] = PreflightReply]
        /\ cw' = [cw EXCEPT ![r] = w]
      BY <1>2 DEF AnswerPreflight, exchangeVars
  <2>2. w.status = WriteHeader(cw[r], PreflightReply.code).status
      OBVIOUS
  <2> HIDE DEF w
  <2>. QED BY <2>1, <2>2, ReplyTold, Differ
<1>3. CASE Resolve(r) \/ Forward(r) \/ Close(r) \/ Record(r)
    BY <1>3, SameTold DEF Resolve, Forward, Close, Record, P!Begin, own, exchangeVars
<1>. QED BY <1>1, <1>2, <1>3 DEF Handle

\* A step of an exchange writes one status, or none.
LEMMA RelayCodes ==
    ASSUME Sound, Sound', NEW r \in Requests, Relay(r)
    PROVE  \/ out'[r].codes = out[r].codes
           \/ \E code \in Finals : out'[r].codes = Append(out[r].codes, code)
<1>1. /\ out \in [Requests -> PP!Output] /\ pc \in [Requests -> PP!PCs]
      /\ \A x \in Requests : pc[x] = "returned" => resp[x].code \in Codes
    BY DEF Sound, PP!DeliveryInv, PP!ProxyInv, PP!TypeOK, PP!AnswerPresent
<1>2. P!Step(r) /\ \A method, host, names : ~P!Begin(r, method, host, names)
    BY DEF Relay, P!Begin
<1>3. CASE P!Upload(r) \/ P!Answered(r) \/ P!TransportError(r) \/ P!HeaderTimeout(r) \/ P!Cancelled(r)
           \/ P!ReturnResponse(r) \/ P!RefuseHop(r) \/ P!FollowHop(r) \/ P!Hangup(r)
    BY <1>3 DEF P!Upload, P!Answered, P!Respond, P!TransportError, P!HeaderTimeout, P!Cancelled,
                P!ReturnResponse, P!RefuseHop, P!FollowHop, P!Hangup
<1> DEFINE o == out[r]
<1>10. o \in [codes: PP!Statuses, loc: PP!ClientLocation, sent: Nat, ended: PP!Endings]
    BY <1>1 DEF PP!Output
<1>11. \A n, how, c : /\ [o EXCEPT !.sent = n].codes = o.codes
                      /\ [o EXCEPT !.ended = how].codes = o.codes
                      /\ [o EXCEPT !.codes = c].codes = c
    BY <1>10
<1>4. CASE P!Informational(r)
  <2>1. out' = [out EXCEPT ![r] = [o EXCEPT !.codes = Append(o.codes, 103)]]
      BY <1>4 DEF P!Informational
  <2>2. out'[r].codes = Append(o.codes, 103)
      BY <1>1, <1>11, <2>1
  <2>. QED BY <2>2 DEF Finals
<1>12. ASSUME NEW how, out' = [out EXCEPT ![r].ended = how] PROVE out'[r].codes = out[r].codes
  <2>1. out' = [out EXCEPT ![r] = [o EXCEPT !.ended = how]]
      BY <1>12
  <2>. QED BY <1>1, <1>11, <2>1
<1>5. ASSUME NEW code \in Finals, NEW loc, NEW sent, NEW ended, P!Answer(r, code, loc, sent, ended)
      PROVE  out'[r].codes = Append(out[r].codes, code)
    BY <1>1, <1>5 DEF P!Answer
<1>6. CASE P!Deliver(r) \/ P!DeliverOversized(r)
  <2>1. /\ resp[r].code \in Finals /\ 302 \in Finals
        /\ \E loc : P!Answer(r, resp[r].code, loc, 0, "no") \/ P!Answer(r, 302, loc, 0, "no")
      BY <1>1, <1>6 DEF P!Deliver, P!DeliverOversized, Finals
  <2>. QED BY <1>5, <2>1
<1>7. CASE P!FinishCopy(r) \/ P!AbortCopy(r)
    BY <1>7, <1>12 DEF P!FinishCopy, P!AbortCopy, P!End
<1>9. CASE P!CopyChunk(r)
  <2>1. out' = [out EXCEPT ![r] = [o EXCEPT !.sent = o.sent + 1]]
      BY <1>9 DEF P!CopyChunk
  <2>. QED BY <1>1, <1>11, <2>1
<1>8. CASE P!HandleError(r)
  <2>1. CASE out' = [out EXCEPT ![r].ended = "silent"]
      BY <1>12, <2>1
  <2>2. CASE P!Answer(r, 502, P!NothingOut.loc, 1, "complete")
    <3>1. 502 \in Finals
        BY DEF Finals
    <3>. QED BY <1>5, <2>2, <3>1
  <2>. QED BY <1>8, <2>1, <2>2 DEF P!HandleError
<1>. QED BY <1>2, <1>3, <1>4, <1>6, <1>7, <1>8, <1>9 DEF P!Step

LEMMA RelaySent ==
    ASSUME Sound, Sound', WriterInv, NEW r \in Requests, Relay(r)
    PROVE  out'[r].sent \in 0 .. MaxBody + 1
<1>1. /\ out \in [Requests -> PP!Output] /\ out' \in [Requests -> PP!Output] /\ pc \in [Requests -> PP!PCs]
      /\ PP!Delivery(r) /\ PP!Delivery(r)' /\ MaxBody \in Nat /\ out[r].sent \in 0 .. MaxBody + 1
    BY PartsAsAssumed DEF Sound, PP!DeliveryInv, PP!ProxyInv, PP!TypeOK, PP!ProxyConstants,
                          WriterInv, ToldOf, Told
<1>2. CASE pc'[r] \notin {"streaming", "done"}
    BY <1>1, <1>2 DEF PP!Delivery, PP!Unanswered
<1>3. CASE pc'[r] = "streaming"
  <2>1. /\ resp'[r].body \in 0 .. MaxBody /\ resp'[r].read \in 0 .. resp'[r].body
        /\ out'[r].sent = resp'[r].read
      BY <1>1, <1>3 DEF PP!Delivery, PP!Measured, PP!Streamed
  <2>. QED BY <1>1, <2>1
<1>4. CASE pc'[r] = "done"
  <2>1. P!FinishCopy(r) \/ P!AbortCopy(r) \/ P!HandleError(r)
    <3>1. P!Step(r) /\ pc[r] # "done" /\ \A method, host, names : ~P!Begin(r, method, host, names)
        BY RelayMoves DEF Relay, P!Begin
    <3>2. ~(P!Upload(r) \/ P!Informational(r) \/ P!CopyChunk(r) \/ P!Hangup(r))
        BY <1>4, <3>1 DEF P!Upload, P!Informational, P!CopyChunk, P!Hangup
    <3>3. ~(P!Answered(r) \/ P!ReturnResponse(r) \/ P!Deliver(r) \/ P!DeliverOversized(r))
        BY <1>1, <1>4 DEF P!Answered, P!Respond, P!ReturnResponse, P!Deliver, P!DeliverOversized
    <3>4. ~(P!TransportError(r) \/ P!HeaderTimeout(r) \/ P!Cancelled(r) \/ P!RefuseHop(r) \/ P!FollowHop(r))
        BY <1>1, <1>4 DEF P!TransportError, P!HeaderTimeout, P!Cancelled, P!RefuseHop, P!FollowHop, P!Send
    <3>. QED BY <3>1, <3>2, <3>3, <3>4 DEF P!Step
  <2> DEFINE o == out[r]
  <2>2. o \in [codes: PP!Statuses, loc: PP!ClientLocation, sent: Nat, ended: PP!Endings]
      BY <1>1 DEF PP!Output
  <2>3. ASSUME NEW how, out' = [out EXCEPT ![r].ended = how] PROVE out'[r].sent = out[r].sent
    <3>1. out' = [out EXCEPT ![r] = [o EXCEPT !.ended = how]] /\ [o EXCEPT !.ended = how].sent = o.sent
        BY <2>2, <2>3
    <3>. QED BY <1>1, <3>1
  <2>4. CASE P!FinishCopy(r) \/ P!AbortCopy(r)
      BY <1>1, <2>3, <2>4 DEF P!FinishCopy, P!AbortCopy, P!End
  <2>5. CASE P!HandleError(r)
    <3>1. CASE out' = [out EXCEPT ![r].ended = "silent"]
        BY <1>1, <2>3, <3>1
    <3>2. CASE P!Answer(r, 502, P!NothingOut.loc, 1, "complete")
      <4>1. out'[r].sent = 1
          BY <1>1, <3>2 DEF P!Answer
      <4>. QED BY <1>1, <4>1
    <3>. QED BY <2>5, <3>1, <3>2 DEF P!HandleError
  <2>. QED BY <2>1, <2>4, <2>5
<1>. QED BY <1>2, <1>3, <1>4

LEMMA FirstKept ==
    ASSUME NEW s \in Seq(Finals), NEW code \in Finals
    PROVE  /\ Append(s, code) \in Seq(Finals) /\ Append(s, code) # <<>> /\ Append(s, code) # s
           /\ Append(s, code)[1] = IF s = <<>> THEN code ELSE s[1]
           /\ s = <<>> => Last(Append(s, code)) = code
<1>1. /\ Append(s, code) \in Seq(Finals) /\ Len(Append(s, code)) = Len(s) + 1 /\ Len(s) \in Nat
      /\ Append(s, code)[Len(s) + 1] = code
      /\ \A i \in 1 .. Len(s) : Append(s, code)[i] = s[i]
    OBVIOUS
<1>2. s = <<>> <=> Len(s) = 0
    OBVIOUS
<1>3. Last(Append(s, code)) = code
    BY <1>1 DEF Last
<1>4. Append(s, code) # <<>> /\ Append(s, code) # s
    BY <1>1
<1>5. Append(s, code)[1] = IF s = <<>> THEN code ELSE s[1]
    BY <1>1, <1>2
<1>. QED BY <1>1, <1>3, <1>4, <1>5

LEMMA RelayTold ==
    ASSUME Sound, Sound', WriterInv, NEW r \in Requests, Relay(r)
    PROVE  WriterInv'
<1> DEFINE H(c) == IF c # out[r].codes THEN WriteHeader(cw[r], Last(c)) ELSE cw[r]
           W(c, n) == IF n > 0 THEN Write(H(c), n) ELSE H(c)
           s == out[r].codes
<1>1. cw' = [cw EXCEPT ![r] = W(out'[r].codes, out'[r].sent - out[r].sent)]
    BY Zenon DEF Relay, Relayed, Counted
<1>2. \A c, n : W(c, n).status = H(c).status
    BY DEF Write
<1> HIDE DEF W
<1>3. cw'[r].status = H(out'[r].codes).status /\ \A x \in Requests \ {r} : cw'[x] = cw[x]
    BY <1>1, <1>2 DEF Sound, AccountInv
<1>4. /\ UNCHANGED <<cfg, asked, reply>> /\ reply[r] = NoReply
      /\ \A x \in Requests \ {r} : out'[x] = out[x]
    BY RelayMoves
<1>5. s \in Seq(Finals) /\ ToldOf(r) /\ out'[r].sent \in 0 .. MaxBody + 1
    BY RelaySent DEF WriterInv, ToldOf, Told
<1>6. Told(asked[r], out'[r], cw'[r], NoReply)
  <2>1. CASE out'[r].codes = s
    <3>1. cw'[r].status = cw[r].status
        BY <1>3, <2>1
    <3>. QED BY <1>4, <1>5, <2>1, <3>1 DEF ToldOf, Told, FirstStatus
  <2>2. ASSUME NEW code \in Finals, out'[r].codes = Append(s, code)
        PROVE  Told(asked[r], out'[r], cw'[r], NoReply)
    <3> SUFFICES ASSUME ~(asked[r] # NoAsk /\ OnStatusPath(cfg, asked[r]))
                 PROVE  cw'[r].status = IF s = <<>> THEN code ELSE s[1]
        BY <1>5, <2>2, FirstKept DEF Told, FirstStatus
    <3>1. /\ cw[r].wrote \in BOOLEAN /\ (cw[r].wrote <=> s # <<>>)
          /\ cw[r].status = FirstStatus(out[r], NoReply)
        BY <1>4, <1>5 DEF Sound, AccountInv, AccountOf, Account, Counts, ToldOf, Told
    <3>2. cw'[r].status = WriteHeader(cw[r], Last(Append(s, code))).status
        BY <1>3, <1>5, <2>2, FirstKept
    <3>3. CASE s = <<>>
        BY <1>5, <3>1, <3>2, <3>3, FirstKept DEF WriteHeader
    <3>4. CASE s # <<>>
        BY <3>1, <3>2, <3>4 DEF WriteHeader, FirstStatus
    <3>. QED BY <3>3, <3>4
  <2>. QED BY <2>1, <2>2, RelayCodes
<1>. QED BY <1>3, <1>4, <1>6, OneTold

LEMMA WriterStep == Sound /\ Sound' /\ WriterInv /\ [Next]_vars => WriterInv'
<1> SUFFICES ASSUME Sound, Sound', WriterInv, [Next]_vars PROVE WriterInv'
    OBVIOUS
<1>1. CASE UNCHANGED vars \/ AllOver
    BY <1>1, SameTold DEF AllOver, vars, own, exchangeVars
<1>. QED BY <1>1, ArrivalTold, HandlerTold, RelayTold DEF Next

-----------------------------------------------------------------------------
(* The collector: the two instances of Metrics say the same. *)

LEMMA SameCardinality ==
    ASSUME NEW S PROVE Cardinality(S) = M!Cardinality(S) /\ Cardinality(S) = MP!Cardinality(S)
BY DEF Cardinality, M!Cardinality, MP!Cardinality

LEMMA SameCollectorInit == M!Init <=> MP!Init
BY DEF M!Init, MP!Init, M!StatusClasses, MP!StatusClasses, M!ZeroEvent, MP!ZeroEvent,
       M!EmptyBucket, MP!EmptyBucket, M!IdleRecorder, MP!IdleRecorder, M!NotEnding, MP!NotEnding

LEMMA SameMarks ==
    ASSUME NEW r, NEW x, NEW y
    PROVE  /\ M!Start(r, x) <=> MP!Start(r, x)
           /\ M!Deny(r, x) <=> MP!Deny(r, x)
           /\ M!Target(r, x, y) <=> MP!Target(r, x, y)
           /\ M!Preflight(r) <=> MP!Preflight(r)
           /\ M!ReadClock(r, x, y, 1) <=> MP!ReadClock(r, x, y, 1)
<1>1. M!IdleRecorder = MP!IdleRecorder
    BY DEF M!IdleRecorder, MP!IdleRecorder, M!NotEnding, MP!NotEnding
<1>2. M!collector = MP!collector /\ M!tables = MP!tables
    BY DEF M!collector, MP!collector, M!counters, MP!counters, M!tables, MP!tables
<1>3. M!Start(r, x) <=> MP!Start(r, x)
    BY <1>1, <1>2 DEF M!Start, MP!Start, M!tables, MP!tables
<1>4. M!Deny(r, x) <=> MP!Deny(r, x)
    BY DEF M!Deny, MP!Deny, M!collector, MP!collector, M!counters, MP!counters, M!tables, MP!tables
<1>5. M!Target(r, x, y) <=> MP!Target(r, x, y)
    BY DEF M!Target, MP!Target, M!collector, MP!collector, M!counters, MP!counters, M!tables, MP!tables
<1>6. M!Preflight(r) <=> MP!Preflight(r)
    BY DEF M!Preflight, MP!Preflight, M!collector, MP!collector, M!counters, MP!counters, M!tables, MP!tables
<1>7. M!ReadClock(r, x, y, 1) <=> MP!ReadClock(r, x, y, 1)
    BY DEF M!ReadClock, MP!ReadClock, M!collector, MP!collector, M!counters, MP!counters, M!tables, MP!tables
<1>. QED BY <1>3, <1>4, <1>5, <1>6, <1>7

LEMMA SameFinish == ASSUME NEW r PROVE M!Finish(r) <=> MP!Finish(r)
<1>1. M!IdleRecorder = MP!IdleRecorder
    BY DEF M!IdleRecorder, MP!IdleRecorder, M!NotEnding, MP!NotEnding
<1> DEFINE e == M!FinishedEvent(rec[r])
<1>2. e = MP!FinishedEvent(rec[r])
    BY DEF M!FinishedEvent, MP!FinishedEvent
<1> HIDE DEF e
<1>3. M!RecordTotals(e) <=> MP!RecordTotals(e)
    BY DEF M!RecordTotals, MP!RecordTotals, M!Add, MP!Add, M!StatusClass, MP!StatusClass
<1>4. M!RecordOutcome(e) <=> MP!RecordOutcome(e)
    BY DEF M!RecordOutcome, MP!RecordOutcome, M!Add, MP!Add, M!Outcome, MP!Outcome
<1>5. M!TableSize = MP!TableSize
    BY SameCardinality DEF M!TableSize, MP!TableSize, M!Rows, MP!Rows
<1>6. M!RecordRepo(e.repo) <=> MP!RecordRepo(e.repo)
    BY <1>5 DEF M!RecordRepo, MP!RecordRepo, M!Add, MP!Add, M!Admits, MP!Admits
<1>7. M!RecordRecent(e) <=> MP!RecordRecent(e)
    BY DEF M!RecordRecent, MP!RecordRecent
<1>8. M!RecordHistory(e) <=> MP!RecordHistory(e)
    BY DEF M!RecordHistory, MP!RecordHistory, M!BucketFor, MP!BucketFor, M!EmptyBucket, MP!EmptyBucket
<1>9. M!Finish(r) <=>
      /\ rec[r].pc = "ending" /\ M!RecordTotals(e) /\ M!RecordOutcome(e)
      /\ kinds' = IF e.kind # None THEN M!Add(kinds, e.kind, 1) ELSE kinds
      /\ M!RecordRepo(e.repo) /\ M!RecordRecent(e) /\ M!RecordHistory(e)
      /\ log' = Append(log, e) /\ rec' = [rec EXCEPT ![r] = M!IdleRecorder] /\ UNCHANGED clock
    BY DEF M!Finish, e
<1>10. M!Add(kinds, e.kind, 1) = MP!Add(kinds, e.kind, 1)
    BY DEF M!Add, MP!Add
<1>11. MP!Finish(r) <=>
       /\ rec[r].pc = "ending" /\ MP!RecordTotals(e) /\ MP!RecordOutcome(e)
       /\ kinds' = IF e.kind # None THEN MP!Add(kinds, e.kind, 1) ELSE kinds
       /\ MP!RecordRepo(e.repo) /\ MP!RecordRecent(e) /\ MP!RecordHistory(e)
       /\ log' = Append(log, e) /\ rec' = [rec EXCEPT ![r] = MP!IdleRecorder] /\ UNCHANGED clock
    BY <1>2 DEF MP!Finish
<1>. QED BY <1>1, <1>3, <1>4, <1>6, <1>7, <1>8, <1>9, <1>10, <1>11

-----------------------------------------------------------------------------
(***************************************************************************)
(* The ledger.  A request is entered once, when everything it gets is out, *)
(* and until then it counts as open; so the ledger and the open requests   *)
(* are never more than there are requests.                                 *)
(***************************************************************************)
Entered == {r \in Requests : entry[r] # 0}

Faithful(e, a, o, answer) ==
    /\ e.reason = Reason(cfg, a)
    /\ e.kind = IF e.reason = None THEN TargetOf(cfg, a).kind ELSE None
    /\ e.bytes = o.sent + answer.sent
    /\ e.status = FirstStatus(o, answer)

Booked(a, q, answer, at, o, n) ==
    /\ n # 0 => /\ a \in Asks /\ ~OnStatusPath(cfg, a) /\ q.pc = "idle"
                /\ answer # NoReply \/ at = "done"
                /\ Faithful(log[n], a, o, answer)
    /\ q.pc = "ending" => /\ q.fin.status = FirstStatus(o, answer)
                          /\ q.fin.bytes = o.sent + answer.sent

BookedOf(r) == Booked(asked[r], rec[r], reply[r], pc[r], out[r], entry[r])

LedgerInv ==
    /\ entry \in [Requests -> 0 .. Len(log)]
    /\ Len(log) = Cardinality(Entered)
    /\ \A r, x \in Requests : r # x /\ entry[r] # 0 => entry[x] # entry[r]
    /\ \A r \in Requests : BookedOf(r)

Joint == Sound /\ MarksInv /\ WriterInv /\ LedgerInv /\ MP!MetricsInv

LEMMA InitiallyBooked == Init => LedgerInv
<1> SUFFICES ASSUME Init PROVE LedgerInv
    OBVIOUS
<1>1. entry = [r \in Requests |-> 0] /\ log = <<>> /\ rec = [r \in Requests |-> M!IdleRecorder]
    BY DEF Init, M!Init
<1>2. Entered = {}
    BY <1>1 DEF Entered
<1>3. ASSUME NEW r \in Requests PROVE BookedOf(r)
    BY <1>1 DEF BookedOf, Booked, M!IdleRecorder
<1>4. Len(log) = 0
    BY <1>1
<1>. QED BY <1>1, <1>2, <1>3, <1>4, FS_EmptySet DEF LedgerInv

\* Room for one more while somebody has not asked yet.
LEMMA RoomLeft ==
    ASSUME Sound, LedgerInv, NEW r \in Requests, asked[r] = NoAsk
    PROVE  Len(log) + Cardinality(MP!Open) < Cardinality(Requests)
<1>1. IsFiniteSet(Requests)
    BY PartsAsAssumed DEF MP!MetricsConstants, MP!IsFiniteSet, IsFiniteSet
<1>2. entry[r] = 0 /\ rec[r].pc = "idle"
    BY ServerConstants DEF LedgerInv, BookedOf, Booked, Sound, ServerInv, SlotOf, Slot
<1>3. Entered \cap MP!Open = {}
    BY DEF LedgerInv, BookedOf, Booked, Entered, MP!Open
<1>4. Entered \subseteq Requests \ {r} /\ MP!Open \subseteq Requests \ {r}
    BY <1>2 DEF Entered, MP!Open
<1> DEFINE S == Requests \ {r}
           T == Entered \cup MP!Open
<1>5. IsFiniteSet(S) /\ Cardinality(S) = Cardinality(Requests) - 1
    BY <1>1, FS_RemoveElement
<1>6. T \in SUBSET S
    BY <1>4
<1>7. Cardinality(T) <= Cardinality(S)
    BY <1>5, <1>6, FS_Subset
<1>8. IsFiniteSet(Entered) /\ IsFiniteSet(MP!Open)
  <2> HIDE DEF S
  <2>. QED BY <1>4, <1>5, FS_Subset DEF S
<1>9. Cardinality(T) = Cardinality(Entered) + Cardinality(MP!Open) - Cardinality({})
    BY <1>3, <1>8, FS_Union
<1>10. /\ Cardinality(Entered) \in Nat /\ Cardinality(MP!Open) \in Nat /\ Cardinality(Requests) \in Nat
       /\ Cardinality({}) = 0
    BY <1>1, <1>8, FS_CardinalityType, FS_EmptySet
<1>11. Len(log) = Cardinality(Entered)
    BY DEF LedgerInv
<1> HIDE DEF S, T
<1>. QED BY <1>5, <1>7, <1>9, <1>10, <1>11

\* What the handler writes when it is over has a status and a size the collector knows.
LEMMA WriterInRange ==
    ASSUME Sound, MarksInv, WriterInv, NEW r \in Requests, rec[r].pc = "open", Returned(r)
    PROVE  /\ cw[r].status \in Codes \cup {103, 200, 204, 302, 404, 502}
           /\ cw[r].written \in 0 .. MaxBody + 1
           /\ cw[r].status = FirstStatus(out[r], reply[r])
           /\ cw[r].written = out[r].sent + reply[r].sent
<1>1. /\ MarkedOf(r) /\ AccountOf(r) /\ ToldOf(r) /\ asked[r] \in Asks /\ ~OnStatusPath(cfg, asked[r])
      /\ reply[r] \in {NoReply, Denial, PreflightReply}
    BY DEF MarksInv, MarkedOf, Marked, WriterInv, Sound, AccountInv
<1>2. /\ cw[r].status = FirstStatus(out[r], reply[r]) /\ cw[r].written = out[r].sent + reply[r].sent
      /\ out[r].codes \in Seq(Finals) /\ out[r].sent \in 0 .. MaxBody + 1
    BY <1>1, ServerConstants DEF AccountOf, Account, Counts, ToldOf, Told
<1>3. CASE reply[r] = NoReply
  <2>1. cw[r].written = out[r].sent
      BY <1>2, <1>3, Differ
  <2>2. out[r].codes # <<>> => out[r].codes[1] \in Finals
      BY <1>2
  <2>. QED BY <1>2, <1>3, <2>1, <2>2 DEF FirstStatus, Finals
<1>4. CASE reply[r] # NoReply
  <2>1. out[r].sent = 0 /\ reply[r].sent \in {0, 1} /\ reply[r].code \in {404, 204}
      BY <1>1, <1>4, Differ DEF AccountOf, Account
  <2>2. cw[r].written \in 0 .. 1 /\ MaxBody \in Nat
      BY <1>2, <2>1, PartsAsAssumed DEF PP!ProxyConstants
  <2>3. cw[r].status \in {404, 204}
      BY <1>2, <1>4, <2>1 DEF FirstStatus
  <2>. QED BY <1>2, <2>2, <2>3
<1>. QED BY <1>3, <1>4

-----------------------------------------------------------------------------
(* Each step of the handler is one that Metrics expects of its caller. *)

LEMMA HandlerReports ==
    ASSUME Joint, NEW r \in Requests, Handle(r)
    PROVE  \/ MP!Refuse(r) \/ MP!Resolve(r) \/ MP!AnswerPreflight(r) \/ MP!Close(r) \/ MP!Finish(r)
           \/ UNCHANGED MP!vars
<1>1. Sound /\ MarksInv /\ WriterInv /\ ServerInv
    BY DEF Joint, Sound
<1>2. CASE Refuse(r)
  <2>1. /\ Serving(r) /\ Reason(cfg, asked[r]) # None
        /\ MP!Deny(r, Reason(cfg, asked[r]))
      BY <1>2, SameMarks DEF Refuse, Deny
  <2>2. Reason(cfg, asked[r]) \in Reasons
      BY <2>1 DEF Reason, Reasons
  <2>3. rec[r].reason = None /\ rec[r].kind = None
      BY <1>1, <2>1, ServingMarked DEF ServerInv, SlotOf, Slot
  <2>. QED BY <2>1, <2>2, <2>3 DEF MP!Refuse
<1>3. CASE Resolve(r)
  <2> DEFINE t == TargetOf(cfg, asked[r])
  <2>1. Serving(r) /\ rec[r].kind = None /\ Reason(cfg, asked[r]) = None /\ MP!Target(r, t.kind, RepoName(t))
      BY <1>3, SameMarks DEF Resolve
  <2>2. rec[r].reason = None /\ asked[r] \in Asks /\ cfg \in Configs
      BY <1>1, <2>1, ServingMarked
  <2>3. t.kind \in TargetKinds /\ NameOf(t) \in Repositories
      BY <2>1, <2>2, TargetKindKnown, ServerConstants
  <2> HIDE DEF t
  <2>4. RepoName(t) = RepoName(NameOf(t))
      BY DEF RepoName, NameOf
  <2>5. RepoName(t) \in {RepoName(x) : x \in Repositories}
      BY <2>3, <2>4
  <2>. QED BY <2>1, <2>2, <2>3, <2>5 DEF MP!Resolve
<1>4. CASE AnswerPreflight(r)
  <2>1. Serving(r) /\ rec[r].kind # None /\ asked[r].method = "OPTIONS" /\ MP!Preflight(r)
      BY <1>4, SameMarks DEF AnswerPreflight
  <2>2. rec[r].method = "OPTIONS" /\ rec[r].options = FALSE
      BY <1>1, <2>1, ServingMarked
  <2>. QED BY <2>1, <2>2 DEF MP!AnswerPreflight
<1>5. CASE Forward(r)
    BY <1>5 DEF Forward, collectorVars, MP!vars, MP!collector, MP!counters, MP!tables
<1>6. CASE Close(r)
  <2>1. Returned(r) /\ MP!ReadClock(r, cw[r].status, cw[r].written, 1) /\ rec[r].pc = "open"
      BY <1>6, SameMarks DEF Close, M!ReadClock
  <2>2. /\ cw[r].status \in Codes \cup {103, 200, 204, 302, 404, 502}
        /\ cw[r].written \in 0 .. MaxBody + 1
      BY <1>1, <2>1, WriterInRange
  <2>3. MP!Settled(rec[r])
    <3>1. MarkedOf(r) /\ SlotOf(r)
        BY <1>1 DEF MarksInv, ServerInv
    <3>2. CASE reply[r] = Denial
        BY <2>1, <3>1, <3>2 DEF MarkedOf, Marked, MP!Settled
    <3>3. CASE reply[r] # Denial
      <4>1. rec[r].kind # None
          BY <2>1, <3>1, <3>3, Differ DEF MarkedOf, Marked, Returned
      <4>2. rec[r].method = "OPTIONS" => rec[r].options
        <5>1. CASE reply[r] # NoReply
            BY <2>1, <3>1, <3>3, <5>1, Differ DEF MarkedOf, Marked
        <5>2. CASE pc[r] = "done"
            BY <2>1, <3>1, <5>2 DEF MarkedOf, Marked, SlotOf, Slot
        <5>. QED BY <2>1, <5>1, <5>2 DEF Returned
      <4>. QED BY <4>1, <4>2 DEF MP!Settled
    <3>. QED BY <3>2, <3>3
  <2>. QED BY <2>1, <2>2, <2>3 DEF MP!Close
<1>7. CASE Record(r)
    BY <1>7, SameFinish DEF Record
<1>. QED BY <1>2, <1>3, <1>4, <1>5, <1>6, <1>7 DEF Handle

LEMMA CollectorStep == Joint /\ [Next]_vars => [MP!Next]_(MP!vars)
<1> SUFFICES ASSUME Joint, [Next]_vars PROVE [MP!Next]_(MP!vars)
    OBVIOUS
<1>1. ASSUME UNCHANGED collectorVars PROVE UNCHANGED MP!vars
    BY <1>1 DEF collectorVars, MP!vars, MP!collector, MP!counters, MP!tables
<1>2. CASE UNCHANGED vars \/ AllOver
    BY <1>1, <1>2 DEF AllOver, vars
<1>3. ASSUME NEW r \in Requests, NEW a \in Asks, ServeStatus(r, a) PROVE UNCHANGED MP!vars
    BY <1>1, <1>3 DEF ServeStatus
<1>4. ASSUME NEW r \in Requests, NEW a \in Asks, Arrive(r, a) PROVE MP!Arrive(r)
  <2>1. asked[r] = NoAsk /\ MP!Start(r, a.method) /\ a.method \in Methods
      BY <1>4, SameMarks, ServerConstants DEF Arrive, Arriving
  <2>2. Len(log) + MP!Cardinality(MP!Open) < Cardinality(Requests)
      BY <2>1, RoomLeft, SameCardinality DEF Joint
  <2>. QED BY <2>1, <2>2, SameCardinality DEF MP!Arrive
<1>5. ASSUME NEW r \in Requests, Relay(r) PROVE UNCHANGED MP!vars
    BY <1>1, <1>5 DEF Relay, Relayed
<1>. QED BY <1>2, <1>3, <1>4, <1>5, HandlerReports DEF Next, MP!Next

-----------------------------------------------------------------------------
(* The ledger, step by step. *)

\* While the ledger stays as it is and r is neither entered nor ending.
LEMMA BooksKept ==
    ASSUME LedgerInv, UNCHANGED <<cfg, entry, log>>, NEW r \in Requests,
           entry[r] = 0, rec'[r].pc # "ending",
           \A x \in Requests \ {r} : /\ asked'[x] = asked[x] /\ rec'[x] = rec[x] /\ reply'[x] = reply[x]
                                     /\ pc'[x] = pc[x] /\ out'[x] = out[x]
    PROVE  LedgerInv'
<1>1. ASSUME NEW x \in Requests PROVE BookedOf(x)'
  <2>1. CASE x = r
      BY <2>1 DEF BookedOf, Booked
  <2>2. CASE x # r
    <3>1. /\ asked'[x] = asked[x] /\ rec'[x] = rec[x] /\ reply'[x] = reply[x] /\ pc'[x] = pc[x]
          /\ out'[x] = out[x] /\ BookedOf(x)
        BY <2>2 DEF LedgerInv
    <3>. QED BY <3>1 DEF BookedOf, Booked, Faithful, FirstStatus
  <2>. QED BY <2>1, <2>2
<1>2. Entered' = Entered
    BY DEF Entered
<1>. QED BY <1>1, <1>2 DEF LedgerInv

LEMMA SameBooks ==
    ASSUME LedgerInv, UNCHANGED <<own, collectorVars, exchangeVars>>
    PROVE  LedgerInv'
<1>1. ASSUME NEW x \in Requests PROVE BookedOf(x)'
    BY DEF LedgerInv, BookedOf, Booked, Faithful, FirstStatus, own, collectorVars, exchangeVars
<1>2. Entered' = Entered /\ entry' = entry /\ log' = log
    BY DEF Entered, own, collectorVars
<1>. QED BY <1>1, <1>2 DEF LedgerInv

LEMMA ArrivalBooked ==
    ASSUME Joint, NEW r \in Requests, NEW a \in Asks, ServeStatus(r, a) \/ Arrive(r, a)
    PROVE  LedgerInv'
<1>1. asked[r] = NoAsk /\ UNCHANGED <<cfg, entry, log, pc, out>>
    BY DEF ServeStatus, Arrive, Arriving, M!Start, M!tables, collectorVars, exchangeVars
<1>2. entry[r] = 0 /\ rec[r].pc = "idle"
    BY <1>1, ServerConstants DEF Joint, LedgerInv, BookedOf, Booked, Sound, ServerInv, SlotOf, Slot
<1>3. \A x \in Requests \ {r} : asked'[x] = asked[x] /\ rec'[x] = rec[x] /\ reply'[x] = reply[x]
    BY DEF ServeStatus, Arrive, Arriving, M!Start, collectorVars, Joint, Sound, ServerInv
<1>4. rec'[r].pc # "ending"
  <2>1. CASE ServeStatus(r, a)
      BY <1>2, <2>1 DEF ServeStatus, collectorVars
  <2>2. CASE Arrive(r, a)
    <3> DEFINE q == [M!IdleRecorder EXCEPT !.pc = "open", !.method = a.method]
    <3>1. rec' = [rec EXCEPT ![r] = q]
        BY <2>2 DEF Arrive, M!Start
    <3>2. q.pc = "open"
        BY DEF M!IdleRecorder
    <3> HIDE DEF q
    <3>. QED BY <3>1, <3>2 DEF Joint, Sound, ServerInv
  <2>. QED BY <2>1, <2>2
<1>. QED BY <1>1, <1>2, <1>3, <1>4, BooksKept DEF Joint

LEMMA CloseBooked ==
    ASSUME Joint, NEW r \in Requests, Close(r)
    PROVE  LedgerInv'
<1> DEFINE q == [rec[r] EXCEPT !.pc = "ending",
                               !.fin = [status |-> cw[r].status,
                                        bytes |-> IF cw[r].written < 0 THEN 0 ELSE cw[r].written,
                                        d |-> 1, now |-> clock]]
<1>1. /\ rec[r].pc = "open" /\ Returned(r)
      /\ UNCHANGED <<cfg, asked, reply, pc, out, entry, log>> /\ rec' = [rec EXCEPT ![r] = q]
    BY DEF Close, M!ReadClock, M!collector, own, exchangeVars
<1>2. /\ cw[r].written \in 0 .. MaxBody + 1
      /\ cw[r].status = FirstStatus(out[r], reply[r])
      /\ cw[r].written = out[r].sent + reply[r].sent
    BY <1>1, WriterInRange DEF Joint
<1>3. "fin" \in DOMAIN rec[r]
    BY DEF Joint, MP!MetricsInv, MP!TypeOK, MP!Recorder
<1>4. q.fin.status = cw[r].status /\ q.fin.bytes = cw[r].written
    BY <1>2, <1>3
<1> HIDE DEF q
<1>5. rec'[r] = q /\ \A x \in Requests \ {r} : rec'[x] = rec[x]
    BY <1>1 DEF Joint, Sound, ServerInv
<1>6. entry[r] = 0
    BY <1>1 DEF Joint, LedgerInv, BookedOf, Booked
<1>7. ASSUME NEW x \in Requests PROVE BookedOf(x)'
  <2>1. CASE x = r
      BY <1>1, <1>2, <1>4, <1>5, <1>6, <2>1 DEF BookedOf, Booked, FirstStatus
  <2>2. CASE x # r
    <3>1. rec'[x] = rec[x] /\ BookedOf(x)
        BY <1>5, <2>2 DEF Joint, LedgerInv
    <3>. QED BY <1>1, <3>1 DEF BookedOf, Booked, Faithful, FirstStatus
  <2>. QED BY <2>1, <2>2
<1>8. Entered' = Entered
    BY <1>1 DEF Entered
<1>. QED BY <1>1, <1>7, <1>8 DEF LedgerInv, Joint

LEMMA RecordBooked ==
    ASSUME Joint, MP!MetricsInv', NEW r \in Requests, Record(r)
    PROVE  LedgerInv'
<1> DEFINE e == M!FinishedEvent(rec[r])
           n == Len(log)
<1>1. /\ rec[r].pc = "ending" /\ log' = Append(log, e) /\ entry' = [entry EXCEPT ![r] = Len(log')]
      /\ rec' = [rec EXCEPT ![r] = M!IdleRecorder] /\ UNCHANGED <<cfg, asked, reply, pc, out>>
    BY DEF Record, M!Finish, exchangeVars
<1>2. /\ e.reason = rec[r].reason /\ e.kind = rec[r].kind
      /\ e.status = rec[r].fin.status /\ e.bytes = rec[r].fin.bytes
    BY DEF M!FinishedEvent
<1> HIDE DEF e
<1>3. log \in Seq(MP!Event) /\ n \in Nat
    BY DEF Joint, MP!MetricsInv, MP!TypeOK
<1>4. /\ Len(log') = n + 1 /\ log'[n + 1] = e /\ \A i \in 1 .. n : log'[i] = log[i]
    BY <1>1, <1>3
<1> HIDE DEF n
<1>5. /\ entry \in [Requests -> 0 .. n] /\ n = Cardinality(Entered) /\ BookedOf(r) /\ MarkedOf(r) /\ SlotOf(r)
      /\ \A x \in Requests : BookedOf(x)
    BY DEF Joint, LedgerInv, MarksInv, Sound, ServerInv, n
<1>6. entry[r] = 0
    BY <1>1, <1>5 DEF BookedOf, Booked
<1>7. /\ entry'[r] = n + 1 /\ \A x \in Requests \ {r} : entry'[x] = entry[x] /\ entry[x] \in 0 .. n
      /\ entry' \in [Requests -> 0 .. n + 1]
    BY <1>1, <1>3, <1>4, <1>5
<1>8. /\ asked[r] \in Asks /\ ~OnStatusPath(cfg, asked[r]) /\ (reply[r] # NoReply \/ pc[r] = "done")
      /\ Faithful(e, asked[r], out[r], reply[r])
  <2>1. /\ asked[r] \in Asks /\ ~OnStatusPath(cfg, asked[r]) /\ (reply[r] # NoReply \/ pc[r] = "done")
        /\ rec[r].reason = (IF reply[r] = Denial THEN Reason(cfg, asked[r]) ELSE None)
        /\ rec[r].kind \in {None, TargetOf(cfg, asked[r]).kind}
        /\ reply[r] = Denial => Reason(cfg, asked[r]) # None
        /\ reply[r] # Denial => rec[r].kind # None
        /\ rec[r].kind # None => Reason(cfg, asked[r]) = None
      BY <1>1, <1>5, Differ DEF MarkedOf, Marked, SlotOf, Slot
  <2>2. e.reason = Reason(cfg, asked[r]) /\ e.kind = IF e.reason = None THEN TargetOf(cfg, asked[r]).kind ELSE None
      BY <1>2, <2>1
  <2>3. e.status = FirstStatus(out[r], reply[r]) /\ e.bytes = out[r].sent + reply[r].sent
      BY <1>1, <1>2, <1>5 DEF BookedOf, Booked
  <2>. QED BY <2>1, <2>2, <2>3 DEF Faithful
<1>9. rec'[r].pc = "idle" /\ \A x \in Requests \ {r} : rec'[x] = rec[x]
    BY <1>1 DEF Joint, Sound, ServerInv, M!IdleRecorder
<1>10. ASSUME NEW x \in Requests PROVE BookedOf(x)'
  <2>1. CASE x = r
      BY <1>1, <1>4, <1>7, <1>8, <1>9, <2>1 DEF BookedOf, Booked, Faithful, FirstStatus
  <2>2. CASE x # r
    <3>1. rec'[x] = rec[x] /\ BookedOf(x) /\ entry'[x] = entry[x] /\ entry[x] \in 0 .. n
        BY <1>5, <1>7, <1>9, <2>2
    <3>2. entry[x] # 0 => log'[entry[x]] = log[entry[x]]
        BY <1>3, <1>4, <3>1
    <3>3. CASE entry[x] = 0
        BY <1>1, <3>1, <3>3 DEF BookedOf, Booked, FirstStatus
    <3>4. CASE entry[x] # 0
      <4>1. log'[entry'[x]] = log[entry[x]] /\ entry'[x] # 0 /\ rec'[x].pc = "idle"
          BY <3>1, <3>2, <3>4 DEF BookedOf, Booked
      <4>2. /\ asked[x] \in Asks /\ ~OnStatusPath(cfg, asked[x]) /\ (reply[x] # NoReply \/ pc[x] = "done")
            /\ Faithful(log[entry[x]], asked[x], out[x], reply[x])
          BY <3>1, <3>4 DEF BookedOf, Booked
      <4>3. /\ cfg' = cfg /\ asked'[x] = asked[x] /\ reply'[x] = reply[x] /\ pc'[x] = pc[x]
            /\ out'[x] = out[x]
          BY <1>1
      <4>4. Faithful(log[entry[x]], asked[x], out[x], reply[x])'
          BY <4>1, <4>2, <4>3, <3>1 DEF Faithful, FirstStatus
      <4>. QED BY <4>1, <4>2, <4>3, <4>4 DEF BookedOf, Booked
    <3>. QED BY <3>3, <3>4
  <2>. QED BY <2>1, <2>2
<1>11. Len(log') = Cardinality(Entered')
  <2>1. Entered' = Entered \cup {r} /\ r \notin Entered
      BY <1>3, <1>6, <1>7 DEF Entered
  <2>2. IsFiniteSet(Entered)
    <3>1. IsFiniteSet(Requests)
        BY PartsAsAssumed DEF MP!MetricsConstants, MP!IsFiniteSet, IsFiniteSet
    <3>. QED BY <3>1, FS_Subset DEF Entered
  <2>3. Cardinality(Entered \cup {r}) = Cardinality(Entered) + 1
      BY <2>1, <2>2, FS_AddElement
  <2>. QED BY <1>4, <1>5, <2>1, <2>3
<1>12. ASSUME NEW y \in Requests, NEW x \in Requests, y # x, entry'[y] # 0 PROVE entry'[x] # entry'[y]
  <2>1. entry[y] # 0 => entry[x] # entry[y]
      BY <1>12 DEF Joint, LedgerInv
  <2>. QED BY <1>3, <1>7, <1>12, <2>1
<1>. QED BY <1>4, <1>7, <1>10, <1>11, <1>12 DEF LedgerInv

LEMMA HandlerBooked ==
    ASSUME Joint, MP!MetricsInv', NEW r \in Requests, Handle(r)
    PROVE  LedgerInv'
<1>1. ASSUME Refuse(r) \/ Resolve(r) \/ AnswerPreflight(r) \/ Forward(r) PROVE LedgerInv'
  <2>1. rec[r].pc = "open" /\ UNCHANGED <<cfg, entry, log, asked, out>>
      BY <1>1 DEF Refuse, Resolve, AnswerPreflight, Forward, Serving, Deny, P!Begin,
                  M!Deny, M!Target, M!Preflight, M!collector, own, collectorVars, exchangeVars
  <2>2. entry[r] = 0
      BY <2>1 DEF Joint, LedgerInv, BookedOf, Booked
  <2>3. \E q : rec' = [rec EXCEPT ![r] = q] /\ q.pc = "open"
    <3>1. rec[r] \in MP!Recorder
        BY DEF Joint, MP!MetricsInv, MP!TypeOK
    <3>2. \A v : [rec[r] EXCEPT !.reason = v].pc = rec[r].pc /\ [rec[r] EXCEPT !.options = v].pc = rec[r].pc
        BY <3>1 DEF MP!Recorder
    <3>3. \A v, w : [rec[r] EXCEPT !.kind = v, !.repo = w].pc = rec[r].pc
        BY <3>1 DEF MP!Recorder
    <3>4. CASE Refuse(r)
      <4>1. M!Deny(r, Reason(cfg, asked[r]))
          BY <3>4 DEF Refuse, Deny
      <4>2. rec' = [rec EXCEPT ![r].reason = Reason(cfg, asked[r])]
          BY <4>1 DEF M!Deny
      <4>3. PICK v : rec' = [rec EXCEPT ![r] = [rec[r] EXCEPT !.reason = v]]
          BY <4>2
      <4>. QED BY <2>1, <3>2, <4>3
    <3>5. CASE Resolve(r)
      <4>1. M!Target(r, TargetOf(cfg, asked[r]).kind, RepoName(TargetOf(cfg, asked[r])))
          BY <3>5 DEF Resolve
      <4>2. PICK v, w : rec' = [rec EXCEPT ![r].kind = v, ![r].repo = w]
          BY <4>1 DEF M!Target
      <4>. DEFINE q == [rec[r] EXCEPT !.kind = v, !.repo = w]
      <4>3. rec' = [rec EXCEPT ![r] = q]
          BY <4>2 DEF Joint, MP!MetricsInv, MP!TypeOK
      <4>4. q.pc = "open"
          BY <2>1, <3>3
      <4>. HIDE DEF q
      <4>. QED BY <4>3, <4>4
    <3>6. CASE AnswerPreflight(r)
      <4>1. rec' = [rec EXCEPT ![r].options = TRUE]
          BY <3>6 DEF AnswerPreflight, M!Preflight
      <4>2. rec' = [rec EXCEPT ![r] = [rec[r] EXCEPT !.options = TRUE]]
          BY <4>1
      <4>. QED BY <2>1, <3>2, <4>2
    <3>7. CASE Forward(r)
      <4>1. rec' = rec
          BY <3>7 DEF Forward, collectorVars
      <4>2. rec' = [rec EXCEPT ![r] = rec[r]]
          BY <4>1 DEF Joint, MP!MetricsInv, MP!TypeOK
      <4>. QED BY <2>1, <4>2
    <3>. QED BY <1>1, <3>4, <3>5, <3>6, <3>7
  <2>4. rec'[r].pc = "open" /\ \A x \in Requests \ {r} : rec'[x] = rec[x]
    <3>1. PICK q : rec' = [rec EXCEPT ![r] = q] /\ q.pc = "open"
        BY <2>3
    <3>. QED BY <3>1 DEF Joint, MP!MetricsInv, MP!TypeOK
  <2>5. \A x \in Requests \ {r} : reply'[x] = reply[x] /\ pc'[x] = pc[x]
      BY <1>1 DEF Refuse, Resolve, AnswerPreflight, Forward, Deny, P!Begin, P!Send, own, exchangeVars,
                  Joint, Sound, ServerInv
  <2>. QED BY <2>1, <2>2, <2>4, <2>5, BooksKept DEF Joint
<1>. QED BY <1>1, CloseBooked, RecordBooked DEF Handle

LEMMA RelayBooked ==
    ASSUME Joint, Sound', NEW r \in Requests, Relay(r)
    PROVE  LedgerInv'
<1>1. /\ pc[r] \notin {"idle", "done"} /\ reply[r] = NoReply
      /\ UNCHANGED <<cfg, asked, reply, entry, rec, log>>
      /\ Alone(r) /\ \A x \in Requests \ {r} : out'[x] = out[x]
    BY RelayMoves DEF Joint
<1>2. entry[r] = 0 /\ rec'[r].pc # "ending"
    BY <1>1 DEF Joint, LedgerInv, BookedOf, Booked, MarksInv, MarkedOf, Marked
<1>. QED BY <1>1, <1>2, BooksKept DEF Joint, Alone

LEMMA JointStep == Joint /\ [Next]_vars => Joint'
<1> SUFFICES ASSUME Joint, [Next]_vars PROVE Joint'
    OBVIOUS
<1>1. Sound' /\ MarksInv' /\ WriterInv'
    BY SoundStep, MarksStep, WriterStep DEF Joint
<1>2. MP!MetricsInv'
    BY CollectorStep, PartsAsAssumed, MP!MetricsStep DEF Joint
<1>3. LedgerInv'
  <2>1. CASE UNCHANGED vars \/ AllOver
      BY <2>1, SameBooks DEF AllOver, vars, Joint
  <2>2. ASSUME NEW r \in Requests, NEW a \in Asks, ServeStatus(r, a) \/ Arrive(r, a) PROVE LedgerInv'
      BY <2>2, ArrivalBooked
  <2>3. ASSUME NEW r \in Requests, Handle(r) PROVE LedgerInv'
      BY <1>2, <2>3, HandlerBooked
  <2>4. ASSUME NEW r \in Requests, Relay(r) PROVE LedgerInv'
      BY <1>1, <2>4, RelayBooked
  <2>. QED BY <2>1, <2>2, <2>3, <2>4 DEF Next
<1>. QED BY <1>1, <1>2, <1>3 DEF Joint

LEMMA JointInit == Init => Joint
<1>1. Init => MP!MetricsInv
    BY SameCollectorInit, PartsAsAssumed, MP!MetricsInit DEF Init
<1>. QED BY <1>1, SoundInit, InitiallyMarked, InitiallyTold, InitiallyBooked DEF Joint

THEOREM JointInvariant == Spec => []Joint
BY JointInit, JointStep, PTL DEF Spec

\* The handler uses the collector as Metrics assumes of its caller, whatever is asked
\* and however exchanges end: it denies or it resolves, never both, marks the
\* preflights, and finishes last, once, with a status and a size that exist.
THEOREM CollectorRuns == Spec => MP!Spec
<1>1. Init => MP!Init
    BY SameCollectorInit DEF Init
<1>. QED BY <1>1, JointInvariant, CollectorStep, PTL DEF Spec, MP!Spec

\* A finished request is in the ledger once, with what was decided of it and what
\* its client got; one for the status page is not in it.
THEOREM RecordCorrect == Spec => []RecordFaithful
<1>1. Joint => RecordFaithful
  <2> SUFFICES ASSUME Joint PROVE RecordFaithful
      OBVIOUS
  <2>1. Len(log) = Cardinality({r \in Requests : entry[r] # 0})
      BY DEF Joint, LedgerInv, Entered
  <2>2. ASSUME NEW r \in Requests, entry[r] # 0
        PROVE  /\ ~OnStatusPath(cfg, asked[r]) /\ Over(r)
               /\ \A x \in Requests \ {r} : entry[x] # entry[r]
               /\ Faithful(log[entry[r]], asked[r], out[r], reply[r])
    <3>1. \A x \in Requests \ {r} : entry[x] # entry[r]
        BY <2>2 DEF Joint, LedgerInv
    <3>. QED BY <2>2, <3>1, ServerConstants DEF Joint, LedgerInv, BookedOf, Booked, Over
  <2>3. \A r \in Requests : out[r].codes # <<>> => Head(out[r].codes) = out[r].codes[1]
      BY DEF Joint, WriterInv, ToldOf, Told
  <2>. QED BY <2>1, <2>2, <2>3 DEF RecordFaithful, Faithful, FirstStatus
<1>. QED BY <1>1, JointInvariant, PTL

LEMMA SameNext == [MP!Next]_(MP!vars) => [M!Next]_(M!vars)
<1>1. UNCHANGED MP!vars => UNCHANGED M!vars
    BY DEF M!vars, MP!vars, M!collector, MP!collector, M!counters, MP!counters, M!tables, MP!tables
<1>2. ASSUME NEW r \in Requests, MP!Arrive(r) PROVE M!Arrive(r)
  <2>1. M!Cardinality(M!Open) = MP!Cardinality(MP!Open)
      BY SameCardinality DEF M!Open, MP!Open
  <2>2. \A method : M!Start(r, method) <=> MP!Start(r, method)
      BY SameMarks
  <2>. QED BY <1>2, <2>1, <2>2, SameCardinality DEF M!Arrive, MP!Arrive
<1>3. ASSUME NEW r \in Requests, MP!Refuse(r) \/ MP!Resolve(r) \/ MP!AnswerPreflight(r)
      PROVE  M!Refuse(r) \/ M!Resolve(r) \/ M!AnswerPreflight(r)
  <2>1. \A x, y : /\ M!Deny(r, x) <=> MP!Deny(r, x)
                  /\ M!Target(r, x, y) <=> MP!Target(r, x, y)
                  /\ M!Preflight(r) <=> MP!Preflight(r)
      BY SameMarks
  <2>. QED BY <1>3, <2>1 DEF M!Refuse, MP!Refuse, M!Resolve, MP!Resolve, M!AnswerPreflight, MP!AnswerPreflight
<1>4. ASSUME NEW r \in Requests, MP!Close(r) PROVE M!Close(r)
  <2>1. \A x, y : M!ReadClock(r, x, y, 1) <=> MP!ReadClock(r, x, y, 1)
      BY SameMarks
  <2>2. M!Settled(rec[r]) <=> MP!Settled(rec[r])
      BY DEF M!Settled, MP!Settled
  <2>. QED BY <1>4, <2>1, <2>2 DEF M!Close, MP!Close
<1>5. ASSUME NEW r \in Requests, MP!Finish(r) PROVE M!Finish(r)
    BY <1>5, SameFinish
<1>6. MP!Tick => M!Tick
    BY DEF MP!Tick, M!Tick, M!collector, MP!collector, M!counters, MP!counters, M!tables, MP!tables
<1>7. MP!Exhausted => M!Exhausted
    BY SameCardinality DEF MP!Exhausted, M!Exhausted, M!vars, MP!vars, M!collector, MP!collector,
                           M!counters, MP!counters, M!tables, MP!tables
<1>8. MP!Next => M!Next
    BY <1>2, <1>3, <1>4, <1>5, <1>6, <1>7 DEF M!Next, MP!Next
<1>. QED BY <1>1, <1>8

\* What the run checks is what CollectorRuns says.
THEOREM ProtocolCorrect == Spec => CollectorProtocol
<1>1. Init => M!Init
    BY DEF Init
<1>. QED BY <1>1, JointInvariant, CollectorStep, SameNext, PTL DEF Spec, CollectorProtocol, M!Spec

\* So the numbers of the status page are right in the server, for every number of
\* requests at once: the gauge, the counters and how they add up, the recent list,
\* the table of repositories and the chart.
THEOREM CollectorShows ==
    Spec => [](/\ MP!GaugeExact /\ MP!CountersMatchLedger /\ MP!SnapshotAddsUp
               /\ MP!RecentIsLedgerTail /\ MP!RepoTableExact /\ MP!HistoryExact)
<1>1. MP!Spec => [](MP!GaugeExact /\ MP!CountersMatchLedger /\ MP!SnapshotAddsUp)
    BY PartsAsAssumed, MP!GaugeCorrect, MP!CountersCorrect, MP!SnapshotCorrect, PTL
<1>2. MP!Spec => [](MP!RecentIsLedgerTail /\ MP!RepoTableExact /\ MP!HistoryExact)
    BY PartsAsAssumed, MP!RecentCorrect, MP!RepoTableCorrect, MP!HistoryCorrect, PTL
<1>. QED BY <1>1, <1>2, CollectorRuns, PTL

-----------------------------------------------------------------------------
(* Types.  The writer's fields are the ones the parts do not type. *)

Writer == [status: 100 .. 599, written: Nat, wrote: BOOLEAN]
WriterTyped == cw \in [Requests -> Writer]

LEMMA WriterKeepsType ==
    ASSUME NEW w \in Writer,
           NEW code \in 100 .. 599, NEW n \in Nat
    PROVE  WriteHeader(w, code) \in Writer /\ Write(w, n) \in Writer
BY DEF WriteHeader, Write, Writer

LEMMA HandlerTyped ==
    ASSUME WriterTyped, NEW r \in Requests, Handle(r)
    PROVE  WriterTyped'
<1>1. CASE Refuse(r)
  <2>0. 404 \in 100 .. 599 /\ 1 \in Nat
      OBVIOUS
  <2>1. cw' = [cw EXCEPT ![r] = Write(WriteHeader(cw[r], 404), 1)]
      BY <1>1 DEF Refuse, Deny, Denial
  <2>2. WriteHeader(cw[r], 404) \in Writer
      BY <2>0, WriterKeepsType DEF WriterTyped
  <2>3. Write(WriteHeader(cw[r], 404), 1) \in Writer
      BY <2>0, <2>2, WriterKeepsType
  <2>. QED BY <2>1, <2>3 DEF WriterTyped
<1>2. CASE AnswerPreflight(r)
  <2>0. 204 \in 100 .. 599 /\ 0 \in Nat
      OBVIOUS
  <2>1. cw' = [cw EXCEPT ![r] = WriteHeader(cw[r], 204)]
      BY <1>2 DEF AnswerPreflight, PreflightReply
  <2>2. WriteHeader(cw[r], 204) \in Writer
      BY <2>0, WriterKeepsType DEF WriterTyped
  <2>. QED BY <2>1, <2>2 DEF WriterTyped
<1>3. CASE Resolve(r) \/ Forward(r) \/ Close(r) \/ Record(r)
    BY <1>3 DEF Resolve, Forward, Close, Record, own, WriterTyped
<1>. QED BY <1>1, <1>2, <1>3 DEF Handle

LEMMA RelayTyped ==
    ASSUME Sound, Sound', WriterInv, WriterInv', WriterTyped, NEW r \in Requests, Relay(r)
    PROVE  WriterTyped'
<1> DEFINE H(c) == IF c # out[r].codes THEN WriteHeader(cw[r], Last(c)) ELSE cw[r]
           W(c, n) == IF n > 0 THEN Write(H(c), n) ELSE H(c)
<1>1. cw' = [cw EXCEPT ![r] = W(out'[r].codes, out'[r].sent - out[r].sent)]
    BY Zenon DEF Relay, Relayed, Counted
<1>2. /\ out[r].codes \in Seq(Finals) /\ out[r].sent \in Int /\ out'[r].sent \in Int
      /\ out'[r].codes = out[r].codes \/ \E code \in Finals : out'[r].codes = Append(out[r].codes, code)
    BY RelayCodes DEF WriterInv, ToldOf, Told
<1>3. Finals \subseteq 100 .. 599
    BY PartsAsAssumed DEF Finals, PP!ProxyConstants
<1>4. H(out'[r].codes) \in Writer
  <2>1. cw[r] \in Writer
      BY DEF WriterTyped
  <2>2. CASE out'[r].codes = out[r].codes
      BY <2>1, <2>2
  <2>3. ASSUME NEW code \in Finals, out'[r].codes = Append(out[r].codes, code)
        PROVE  H(out'[r].codes) \in Writer
    <3>1. Last(out'[r].codes) = code
        BY <1>2, <2>3 DEF Last
    <3>2. WriteHeader(cw[r], code) \in Writer
      <4>1. code \in 100 .. 599 /\ 0 \in Nat
          BY <1>3, <2>3
      <4>. QED BY <2>1, <4>1, WriterKeepsType
    <3>. QED BY <2>1, <3>1, <3>2
  <2>. QED BY <1>2, <2>2, <2>3
<1>5. ASSUME NEW n \in Int PROVE W(out'[r].codes, n) \in Writer
  <2>1. ASSUME NEW w \in Writer, n > 0 PROVE Write(w, n) \in Writer
    <3>1. n \in Nat /\ 404 \in 100 .. 599
        BY <1>5, <2>1
    <3>. QED BY <3>1, WriterKeepsType
  <2> HIDE DEF H
  <2>. QED BY <1>4, <2>1
<1>6. out'[r].sent - out[r].sent \in Int
    BY <1>2
<1> HIDE DEF H, W
<1>. QED BY <1>1, <1>5, <1>6 DEF WriterTyped

LEMMA TypedStep == Joint /\ Joint' /\ WriterTyped /\ [Next]_vars => WriterTyped'
<1> SUFFICES ASSUME Joint, Joint', WriterTyped, [Next]_vars PROVE WriterTyped'
    OBVIOUS
<1>1. CASE UNCHANGED vars \/ AllOver
    BY <1>1 DEF AllOver, vars, own, WriterTyped
<1>2. ASSUME NEW r \in Requests, NEW a \in Asks, ServeStatus(r, a) \/ Arrive(r, a) PROVE WriterTyped'
    BY <1>2 DEF ServeStatus, Arrive, WriterTyped
<1>. QED BY <1>1, <1>2, HandlerTyped, RelayTyped DEF Next, Joint

\* Types, of the server and of the parts it uses.
THEOREM TypeCorrect == Spec => []TypeOK
<1>1. Init => WriterTyped
    BY DEF Init, NewWriter, Writer, WriterTyped
<1>2. Spec => []WriterTyped
    BY <1>1, TypedStep, JointInvariant, PTL DEF Spec
<1>3. MP!TypeOK => M!TypeOK
    BY DEF MP!TypeOK, M!TypeOK, MP!StatusClasses, M!StatusClasses, MP!Event, M!Event, MP!Bucket, M!Bucket,
           MP!Recorder, M!Recorder, MP!Ending, M!Ending
<1>4. MP!Spec => []MP!TypeOK
    BY PartsAsAssumed, MP!TypeCorrect
<1>5. Joint /\ WriterTyped /\ M!TypeOK /\ P!TypeOK => TypeOK
  <2> SUFFICES ASSUME Joint, WriterTyped, M!TypeOK, P!TypeOK PROVE TypeOK
      OBVIOUS
  <2>1. cfg \in Configs /\ \A r \in Requests : asked[r] = NoAsk \/ asked[r] \in Asks
      BY DEF Joint, Sound, ServerInv, SlotOf, Slot
  <2>2. reply \in [Requests -> {NoReply, Denial, GoNotFound, Page, NoSuchPage, PreflightReply}]
    <3>1. \A r \in Requests : reply[r] \in {NoReply, Denial, GoNotFound, Page, NoSuchPage, PreflightReply}
        BY DEF Joint, Sound, AccountInv, AccountOf, Account, Answers
    <3>. QED BY <3>1 DEF Joint, Sound, ServerInv
  <2>3. entry \in [Requests -> Nat]
    <3>1. Len(log) \in Nat
        BY DEF Joint, MP!MetricsInv, MP!TypeOK
    <3>. QED BY <3>1 DEF Joint, LedgerInv
  <2>. QED BY <2>1, <2>2, <2>3 DEF TypeOK, WriterTyped, Writer
<1>. QED BY <1>2, <1>3, <1>4, <1>5, JointInvariant, CollectorRuns, ExchangesSafe, PTL

-----------------------------------------------------------------------------
(* Where an exchange is aimed: at what its request names. *)

\* Once it is begun, an exchange is about the target of its request.
Aimed(a, at, sent) == at # "idle" => sent # <<>> /\ sent[1].url.host = TargetOf(cfg, a).host
AimedOf(r) == Aimed(asked[r], pc[r], trail[r])
AimedInv == \A r \in Requests : AimedOf(r)

LEMMA InitiallyAimed == Init => AimedInv
<1> SUFFICES ASSUME Init, NEW r \in Requests PROVE AimedOf(r)
    BY DEF AimedInv
<1>1. pc[r] = "idle"
    BY DEF Init, P!Init
<1>. QED BY <1>1 DEF AimedOf, Aimed

LEMMA OneAimed ==
    ASSUME AimedInv, NEW r \in Requests, Alone(r), Aimed(asked'[r], pc'[r], trail'[r])
    PROVE  AimedInv'
<1> SUFFICES ASSUME NEW x \in Requests PROVE AimedOf(x)'
    BY DEF AimedInv
<1>1. CASE x = r
    BY <1>1 DEF AimedOf, Aimed, Alone
<1>2. CASE x # r
  <2>1. /\ asked'[x] = asked[x] /\ pc'[x] = pc[x] /\ trail'[x] = trail[x] /\ AimedOf(x) /\ cfg' = cfg
      BY <1>2 DEF AimedInv, Alone
  <2>. QED BY <2>1 DEF AimedOf, Aimed
<1>. QED BY <1>1, <1>2

LEMMA SameAim ==
    ASSUME AimedInv, UNCHANGED <<cfg, asked, pc, trail>> PROVE AimedInv'
BY DEF AimedInv, AimedOf, Aimed

LEMMA FirstSent ==
    ASSUME NEW S, NEW s \in Seq(S), NEW x \in S
    PROVE  /\ Append(s, x) # <<>>
           /\ Append(s, x)[1] = IF s = <<>> THEN x ELSE s[1]
<1>1. /\ Append(s, x) \in Seq(S) /\ Len(Append(s, x)) = Len(s) + 1 /\ Len(s) \in Nat
      /\ Append(s, x)[Len(s) + 1] = x
      /\ \A i \in 1 .. Len(s) : Append(s, x)[i] = s[i]
    OBVIOUS
<1>2. s = <<>> <=> Len(s) = 0
    OBVIOUS
<1>3. Append(s, x) # <<>>
    BY <1>1
<1>4. Append(s, x)[1] = IF s = <<>> THEN x ELSE s[1]
    BY <1>1, <1>2
<1>. QED BY <1>3, <1>4

LEMMA ForwardAimed == ASSUME Sound, AimedInv, NEW r \in Requests, Forward(r) PROVE AimedInv'
<1> DEFINE host == TargetOf(cfg, asked[r]).host
           header == P!Rewrite(HeaderNames, cred)
           x == [url |-> [scheme |-> "https", host |-> host], header |-> header]
<1>1. pc[r] = "idle" /\ trail[r] = <<>> /\ UNCHANGED <<cfg, asked, reply, rec>>
    BY DEF Forward, Serving, own, collectorVars, Sound, ServerInv, SlotOf, Slot
<1>2. trail' = [trail EXCEPT ![r] = Append(@, x)] /\ pc' = [pc EXCEPT ![r] = "sent"]
    BY DEF Forward, P!Begin, P!Send
<1>3. x.url.host = host
    OBVIOUS
<1> HIDE DEF x
<1>4. Append(<<>>, x) # <<>> /\ Append(<<>>, x)[1] = x
  <2>1. <<>> \in Seq({x}) /\ x \in {x}
      OBVIOUS
  <2>. QED BY <2>1, FirstSent, Zenon
<1>5. trail'[r] = Append(<<>>, x)
    BY <1>1, <1>2 DEF Sound, ServerInv
<1>6. Alone(r)
    BY <1>1, <1>2 DEF Alone, Sound, ServerInv
<1>7. Aimed(asked'[r], pc'[r], trail'[r])
    BY <1>1, <1>3, <1>4, <1>5, Zenon DEF Aimed
<1>. QED BY <1>6, <1>7, OneAimed

LEMMA HandlerAimed == ASSUME Sound, AimedInv, NEW r \in Requests, Handle(r) PROVE AimedInv'
<1>1. CASE Forward(r)
    BY <1>1, ForwardAimed
<1>2. CASE Refuse(r) \/ AnswerPreflight(r)
    BY <1>2, SameAim DEF Refuse, Deny, AnswerPreflight, exchangeVars
<1>3. CASE Resolve(r) \/ Close(r) \/ Record(r)
    BY <1>3, SameAim DEF Resolve, Close, Record, own, exchangeVars
<1>. QED BY <1>1, <1>2, <1>3 DEF Handle

\* No exchange has begun before its request arrives.
LEMMA ArrivalAimed ==
    ASSUME Sound, AimedInv, NEW r \in Requests, NEW a \in Asks, ServeStatus(r, a) \/ Arrive(r, a)
    PROVE  AimedInv'
<1>1. /\ asked[r] = NoAsk /\ asked' = [asked EXCEPT ![r] = a] /\ UNCHANGED <<cfg, pc, trail>>
    BY DEF ServeStatus, Arrive, Arriving, exchangeVars
<1>2. pc[r] = "idle"
    BY <1>1 DEF Sound, ServerInv, SlotOf, Slot
<1> SUFFICES ASSUME NEW x \in Requests PROVE AimedOf(x)'
    BY DEF AimedInv
<1>3. CASE x = r
    BY <1>1, <1>2, <1>3 DEF AimedOf, Aimed
<1>4. CASE x # r
  <2>1. asked'[x] = asked[x] /\ AimedOf(x)
      BY <1>1, <1>4 DEF Sound, ServerInv, AimedInv
  <2>. QED BY <1>1, <2>1 DEF AimedOf, Aimed
<1>. QED BY <1>3, <1>4

\* The first request stays the first, however many redirects are followed.
LEMMA RelayAimed ==
    ASSUME Sound, Sound', AimedInv, NEW r \in Requests, Relay(r) PROVE AimedInv'
<1>1. /\ pc[r] # "idle" /\ UNCHANGED <<cfg, asked>> /\ Alone(r)
    BY RelayMoves
<1>2. trail[r] # <<>> /\ trail[r][1].url.host = TargetOf(cfg, asked[r]).host
    BY <1>1 DEF AimedInv, AimedOf, Aimed
<1>3. trail'[r] # <<>> /\ trail'[r][1] = trail[r][1]
  <2>1. trail = [x \in Requests |-> trail[x]] /\ P!Step(r)
      BY DEF Sound, ServerInv, Relay
  <2>2. CASE P!FollowHop(r)
    <3> DEFINE q == P!NextRequest(r)
               x == [url |-> q.url, header |-> q.header]
    <3>1. P!Send(r, q)
        BY <2>2 DEF P!FollowHop
    <3> HIDE DEF q
    <3>2. trail'[r] = Append(trail[r], x)
        BY <2>1, <3>1 DEF P!Send
    <3>3. PICK S : trail[r] \in Seq(S)
        BY DEF Sound, PP!DeliveryInv, PP!ProxyInv, PP!TypeOK
    <3> HIDE DEF x
    <3> DEFINE T == S \cup {x}
    <3>4. trail[r] \in Seq(T) /\ x \in T
        BY <3>3
    <3> HIDE DEF T
    <3>5. Append(trail[r], x) # <<>> /\ Append(trail[r], x)[1] = trail[r][1]
        BY <1>2, <3>4, FirstSent
    <3>. QED BY <3>2, <3>5, Zenon
  <2>3. ASSUME trail' = trail PROVE trail'[r] # <<>> /\ trail'[r][1] = trail[r][1]
      BY <1>2, <2>3
  <2>4. CASE P!Upload(r) \/ P!Informational(r) \/ P!CopyChunk(r) \/ P!Hangup(r) \/ P!Answered(r)
      BY <2>3, <2>4 DEF P!Upload, P!Informational, P!CopyChunk, P!Hangup, P!Answered, P!Respond
  <2>5. CASE P!TransportError(r) \/ P!HeaderTimeout(r) \/ P!Cancelled(r) \/ P!RefuseHop(r)
      BY <2>3, <2>5 DEF P!TransportError, P!HeaderTimeout, P!Cancelled, P!RefuseHop
  <2>6. CASE P!ReturnResponse(r) \/ P!Deliver(r) \/ P!DeliverOversized(r)
      BY <2>3, <2>6 DEF P!ReturnResponse, P!Deliver, P!DeliverOversized
  <2>7. CASE P!FinishCopy(r) \/ P!AbortCopy(r) \/ P!HandleError(r)
      BY <2>3, <2>7 DEF P!FinishCopy, P!AbortCopy, P!End, P!HandleError
  <2>8. \A method, host, names : ~P!Begin(r, method, host, names)
      BY <1>1 DEF P!Begin
  <2>. QED BY <2>1, <2>2, <2>4, <2>5, <2>6, <2>7, <2>8 DEF P!Step
<1>4. Aimed(asked'[r], pc'[r], trail'[r])
    BY <1>1, <1>2, <1>3, Zenon DEF Aimed
<1>. QED BY <1>1, <1>4, OneAimed

LEMMA AimedStep == Sound /\ Sound' /\ AimedInv /\ [Next]_vars => AimedInv'
<1> SUFFICES ASSUME Sound, Sound', AimedInv, [Next]_vars PROVE AimedInv'
    OBVIOUS
<1>1. CASE UNCHANGED vars \/ AllOver
    BY <1>1, SameAim DEF AllOver, vars, own, exchangeVars
<1>. QED BY <1>1, ArrivalAimed, HandlerAimed, RelayAimed DEF Next

LEMMA AimedAlways == Spec => [](Sound /\ AimedInv)
<1>1. Init => Sound /\ AimedInv
    BY SoundInit, InitiallyAimed
<1>2. (Sound /\ AimedInv) /\ [Next]_vars => (Sound /\ AimedInv)'
    BY SoundStep, AimedStep
<1>. QED BY <1>1, <1>2, PTL DEF Spec

\* However a client spells its URL, encoded, collapsed, without its scheme or its
\* host, the target is the thing that was meant, and the first request to GitHub
\* goes to its host and no other.
THEOREM NamedCorrect == Spec => []ServesWhatIsNamed
<1>1. Sound /\ AimedInv => ServesWhatIsNamed
  <2> SUFFICES ASSUME Sound, AimedInv, NEW r \in Requests, asked[r] # NoAsk, UnderPrefix(cfg, asked[r]),
                      NEW thing \in Meanings(r)
               PROVE  /\ Is(TargetOf(cfg, asked[r]), thing)
                      /\ trail[r] # <<>> => trail[r][1].url.host = thing.host
      BY DEF ServesWhatIsNamed
  <2>1. cfg \in Configs /\ asked[r] \in Asks /\ (pc[r] = "idle" => trail[r] = <<>>)
      BY DEF Sound, ServerInv, SlotOf, Slot
  <2>2. Is(TargetOf(cfg, asked[r]), thing)
      BY <2>1, TargetIsMeant
  <2>3. thing.host = TargetOf(cfg, asked[r]).host
      BY <2>2, TargetsOnGitHub, SameHost, Zenon DEF TargetOf, HasHost
  <2>4. trail[r] # <<>> => trail[r][1].url.host = TargetOf(cfg, asked[r]).host
      BY <2>1 DEF AimedInv, AimedOf, Aimed
  <2>. QED BY <2>2, <2>3, <2>4
<1>. QED BY <1>1, AimedAlways, PTL

\* Whatever is asked, the first request goes to one of the hosts that ghurl lists, by
\* https: nothing else reaches the network (ghurl.go:146-148).
ReachesGitHubFirst ==
    \A r \in Requests :
        trail[r] # <<>> => /\ trail[r][1].url.scheme = "https"
                          /\ trail[r][1].url.host \in SupportedHosts \ {"www.github.com"}

THEOREM RelaysGitHubOnly == Spec => []ReachesGitHubFirst
<1>1. Sound /\ AimedInv /\ P!RedirectsConfined => ReachesGitHubFirst
  <2> SUFFICES ASSUME Sound, AimedInv, P!RedirectsConfined, NEW r \in Requests, trail[r] # <<>>
               PROVE  /\ trail[r][1].url.scheme = "https"
                      /\ trail[r][1].url.host \in SupportedHosts \ {"www.github.com"}
      BY DEF ReachesGitHubFirst
  <2>1. /\ pc[r] # "idle" /\ cfg \in Configs /\ asked[r] \in Asks /\ Reason(cfg, asked[r]) = None
      BY DEF Sound, ServerInv, SlotOf, Slot
  <2>2. trail[r][1].url.host = TargetOf(cfg, asked[r]).host
      BY <2>1 DEF AimedInv, AimedOf, Aimed
  <2>3. trail[r][1].url.scheme = "https"
      BY DEF P!RedirectsConfined
  <2>. QED BY <2>1, <2>2, <2>3, ServedHost
<1>. QED BY <1>1, AimedAlways, ExchangesSafe, PTL
=============================================================================
