----------------------------- MODULE ProxyProofs -----------------------------
(***************************************************************************)
(* Theorems about a proxied exchange, for every set of exchanges, hosts    *)
(* and credentials and every MaxRedirects: what it sends to GitHub, what   *)
(* it answers the client, and that it implements Exchange.                 *)
(***************************************************************************)
EXTENDS Proxy, TLAPS

-----------------------------------------------------------------------------
(* Types of what the code computes. *)

LEMMA NextURLType ==
    ASSUME NEW url \in URL, NEW loc \in Location, loc.kind \in {"relative", "absolute"}
    PROVE  Resolve(url, loc) \in URL
BY DEF Resolve, Location

LEMMA RewriteType ==
    ASSUME NEW names, NEW c \in Credentials \cup {None}
    PROVE  Rewrite(names, c) \in Header
BY DEF Rewrite, Header

LEMMA NextHeaderType ==
    ASSUME NEW header \in Header, NEW prev, NEW next
    PROVE  NextHeader(prev, next, header) \in Header
BY DEF NextHeader, Header

LEMMA NoResponseType == NoResponse \in Response
BY DEF NoResponse, NoLocation, Response, Location

-----------------------------------------------------------------------------
(***************************************************************************)
(* The inductive invariant for the types: a response that is looked at is  *)
(* one that GitHub gave.                                                   *)
(***************************************************************************)
AnswerPresent ==
    \A r \in Requests :
        pc[r] \in {"received", "returned", "streaming"} => resp[r].code \in Codes

ProxyInv == TypeOK /\ AnswerPresent

LEMMA ProxyInit == Init => ProxyInv
<1> SUFFICES ASSUME Init PROVE ProxyInv
    OBVIOUS
<1> USE DEF Init
<1>1. NoRequest \in Request
    BY DEF NoRequest, Request, ForwardedMethods, Header
<1>2. NoResponse \in Response
    BY NoResponseType
<1>3. NothingOut \in Output
    BY DEF NothingOut, Output, Statuses, ClientLocation, Endings
<1>4. /\ pc \in [Requests -> PCs] /\ req \in [Requests -> Request]
      /\ resp \in [Requests -> Response] /\ out \in [Requests -> Output]
      /\ bodies \in [Requests -> SUBSET Nat]
      /\ trail \in [Requests -> Seq([url: URL, header: Header])]
    BY <1>1, <1>2, <1>3 DEF PCs
<1>5. TypeOK
    BY <1>4 DEF TypeOK
<1>6. AnswerPresent
    BY DEF AnswerPresent
<1>. QED BY <1>5, <1>6 DEF ProxyInv

\* Sending a well-typed request.
LEMMA SendType ==
    ASSUME TypeOK, NEW r \in Requests, NEW q \in Request, q.url \in URL, Send(r, q)
    PROVE  /\ pc' \in [Requests -> PCs]
           /\ req' \in [Requests -> Request]
           /\ trail' \in [Requests -> Seq([url: URL, header: Header])]
           /\ \A x \in Requests : pc'[x] # "idle" => req'[x].url \in URL
<1> USE DEF TypeOK, Send
<1>1. pc' \in [Requests -> PCs]
    BY DEF PCs
<1>2. req' \in [Requests -> Request]
    OBVIOUS
<1> DEFINE Entry == [url: URL, header: Header]
           entry == [url |-> q.url, header |-> q.header]
<1>3. entry \in Entry
    BY DEF Request
<1>4. trail' \in [Requests -> Seq(Entry)]
  <2>1. trail \in [Requests -> Seq(Entry)] /\ trail' = [trail EXCEPT ![r] = Append(trail[r], entry)]
      OBVIOUS
  <2> HIDE DEF Entry, entry
  <2>2. Append(trail[r], entry) \in Seq(Entry)
      BY <1>3, <2>1
  <2>. QED BY <2>1, <2>2
<1>5. \A x \in Requests : pc'[x] # "idle" => req'[x].url \in URL
    OBVIOUS
<1>. QED BY <1>1, <1>2, <1>4, <1>5

LEMMA BeginStep ==
    ASSUME ProxyInv, NEW r \in Requests, NEW method \in ForwardedMethods, NEW host \in ProxyableHosts,
           NEW names, Begin(r, method, host, names)
    PROVE  ProxyInv'
<1> DEFINE q == [method |-> method, cred |-> cred, hops |-> 1,
                 url |-> [scheme |-> "https", host |-> host],
                 header |-> Rewrite(names, cred)]
<1>1. q.url \in URL
    BY ProxyConstants DEF URL, Schemes
<1>2. q \in Request
    BY <1>1, RewriteType DEF Request, ProxyInv, TypeOK
<1>3. Send(r, q)
    BY DEF Begin
<1> HIDE DEF q
<1>4. TypeOK'
  <2>1. uploading' \subseteq Requests
      BY DEF Begin, ProxyInv, TypeOK
  <2>. QED BY <1>1, <1>2, <1>3, <2>1, SendType DEF Begin, ProxyInv, TypeOK
<1>5. AnswerPresent'
    BY <1>3 DEF Begin, Send, ProxyInv, TypeOK, AnswerPresent
<1>. QED BY <1>4, <1>5 DEF ProxyInv

LEMMA FollowStep ==
    ASSUME ProxyInv, NEW r \in Requests, FollowHop(r)
    PROVE  ProxyInv'
<1> DEFINE q == NextRequest(r)
<1>1. req[r] \in Request /\ req[r].url \in URL /\ resp[r].loc \in Location
    BY DEF ProxyInv, TypeOK, FollowHop, Response
<1>2. NextURL(r) \in URL
    BY <1>1, NextURLType DEF NextURL, FollowHop, Follows
<1>3. NextHeader(req[r].url, NextURL(r), req[r].header) \in Header
    BY <1>1, NextHeaderType DEF Request
<1>5. q \in Request /\ q.url \in URL
    BY <1>1, <1>2, <1>3 DEF Request, NextRequest
<1>6. Send(r, q)
    BY DEF FollowHop
<1> HIDE DEF q
<1>7. TypeOK'
  <2>1. resp' \in [Requests -> Response]
      BY NoResponseType DEF FollowHop, ProxyInv, TypeOK
  <2>. QED BY <1>5, <1>6, <2>1, SendType DEF FollowHop, Closed, ProxyInv, TypeOK
<1>8. AnswerPresent'
  <2>1. pc' = [pc EXCEPT ![r] = "sent"] /\ resp' = [resp EXCEPT ![r] = NoResponse]
      BY <1>6 DEF FollowHop, Send
  <2>. QED BY <2>1 DEF ProxyInv, TypeOK, AnswerPresent
<1>. QED BY <1>7, <1>8 DEF ProxyInv

\* Steps that neither send, answer nor write: the goroutine moves on, a body is
\* closed, the environment changes.
LEMMA MoveStep ==
    ASSUME ProxyInv, NEW r \in Requests, NEW to \in PCs, pc' = [pc EXCEPT ![r] = to],
           pc[r] # "idle", to = "returned" => pc[r] = "received",
           to \notin {"received", "streaming"},
           bodies' \in [Requests -> SUBSET Nat], UNCHANGED <<cred, req, uploading, gone, trail>>,
           resp' \in {resp, [resp EXCEPT ![r] = NoResponse]}, to = "returned" => resp' = resp,
           out' \in [Requests -> Output]
    PROVE  ProxyInv'
<1>1. TypeOK'
  <2>1. resp' \in [Requests -> Response]
      BY NoResponseType DEF ProxyInv, TypeOK
  <2>. QED BY <2>1 DEF ProxyInv, TypeOK
<1>2. AnswerPresent'
    BY DEF ProxyInv, TypeOK, AnswerPresent
<1>. QED BY <1>1, <1>2 DEF ProxyInv

\* Writing one status.
LEMMA CodesType ==
    ASSUME TypeOK, NEW r \in Requests, NEW code \in 100 .. 599
    PROVE  Append(out[r].codes, code) \in Statuses
<1>1. out[r].codes \in Statuses
    BY DEF TypeOK, Output
<1>. QED BY <1>1 DEF Statuses

LEMMA AnswerType ==
    ASSUME TypeOK, NEW r \in Requests, NEW code \in 100 .. 599, NEW loc \in ClientLocation,
           NEW sent \in Nat, NEW ended \in Endings, Answer(r, code, loc, sent, ended)
    PROVE  out' \in [Requests -> Output]
<1>1. Append(out[r].codes, code) \in Statuses
    BY CodesType
<1>2. [codes |-> Append(out[r].codes, code), loc |-> loc, sent |-> sent, ended |-> ended] \in Output
    BY <1>1 DEF Output
<1>. QED BY <1>2 DEF Answer, TypeOK

LEMMA EndedType ==
    ASSUME TypeOK, NEW r \in Requests, NEW how \in Endings, out' = [out EXCEPT ![r].ended = how]
    PROVE  out' \in [Requests -> Output]
BY DEF TypeOK, Output

LEMMA HandedBackType ==
    ASSUME TypeOK, NEW r \in Requests, pc[r] # "idle"
    PROVE  HandedBack(r) \in ClientLocation
<1>1. resp[r].loc \in Location /\ req[r].url \in URL
    BY DEF TypeOK, Response
<1>2. resp[r].loc.url \in URL \cup {NoURL}
    BY <1>1 DEF Location
<1>3. CASE resp[r].loc.kind \in {"relative", "absolute"}
  <2>1. NextURL(r) \in URL
      BY <1>1, <1>3, NextURLType DEF NextURL
  <2>. QED BY <1>2, <1>3, <2>1 DEF HandedBack, ClientLocation
<1>4. CASE resp[r].loc.kind \notin {"relative", "absolute"}
  <2>1. resp[r].loc.kind \in {"absent", "malformed"}
      BY <1>1, <1>4 DEF Location
  <2>. QED BY <1>2, <2>1 DEF HandedBack, ClientLocation
<1>. QED BY <1>3, <1>4

LEMMA RespondStep ==
    ASSUME ProxyInv, NEW r \in Requests, NEW code \in Codes, NEW loc \in Location,
           NEW length \in Lengths, NEW body \in 0 .. MaxBody, Respond(r, code, loc, length, body)
    PROVE  ProxyInv'
<1> DEFINE a == [code |-> code, loc |-> loc, length |-> length, declared |-> length,
                 body |-> body, read |-> 0]
<1>1. a \in Response /\ a.code \in Codes
    BY ProxyConstants DEF Response
<1>2. resp' = [resp EXCEPT ![r] = a]
    BY DEF Respond
<1>3. req[r].hops \in Nat
    BY DEF ProxyInv, TypeOK, Request
<1> HIDE DEF a
<1>4. TypeOK'
    BY ZenonT(40), <1>1, <1>2, <1>3 DEF Respond, ProxyInv, TypeOK, PCs
<1>5. AnswerPresent'
    BY <1>1, <1>2 DEF Respond, ProxyInv, TypeOK, AnswerPresent
<1>. QED BY <1>4, <1>5 DEF ProxyInv

LEMMA InformationalStep ==
    ASSUME ProxyInv, NEW r \in Requests, Informational(r)
    PROVE  ProxyInv'
<1> DEFINE codes == Append(out[r].codes, 103)
<1>1. codes \in Statuses
    BY CodesType DEF ProxyInv
<1>2. out' = [out EXCEPT ![r].codes = codes]
    BY DEF Informational
<1> HIDE DEF codes
<1>3. out' \in [Requests -> Output]
    BY <1>1, <1>2 DEF ProxyInv, TypeOK, Output
<1>4. TypeOK'
    BY <1>3 DEF Informational, ProxyInv, TypeOK
<1>. QED BY <1>4 DEF Informational, ProxyInv, AnswerPresent

LEMMA DeliverStep ==
    ASSUME ProxyInv, NEW r \in Requests, Deliver(r)
    PROVE  ProxyInv'
<1>1. resp[r].code \in 100 .. 599
  <2>1. resp[r].code \in Codes
      BY DEF Deliver, ProxyInv, AnswerPresent
  <2>2. resp[r].code \in 200 .. 599
      BY <2>1, ProxyConstants
  <2>. QED BY <2>2
<1>2. HandedBack(r) \in ClientLocation
    BY HandedBackType DEF Deliver, ProxyInv
<1>3. out' \in [Requests -> Output]
    BY <1>1, <1>2, AnswerType DEF Deliver, ProxyInv, Endings
<1>4. TypeOK'
    BY <1>3 DEF Deliver, ProxyInv, TypeOK, PCs
<1>5. AnswerPresent'
    BY DEF Deliver, ProxyInv, TypeOK, AnswerPresent
<1>. QED BY <1>4, <1>5 DEF ProxyInv

LEMMA DeliverOversizedStep ==
    ASSUME ProxyInv, NEW r \in Requests, DeliverOversized(r)
    PROVE  ProxyInv'
<1>1. [base |-> "direct", url |-> req[r].url] \in ClientLocation
    BY DEF DeliverOversized, ProxyInv, TypeOK, ClientLocation
<1>2. out' \in [Requests -> Output]
  <2>1. Answer(r, 302, [base |-> "direct", url |-> req[r].url], 0, "no")
      BY DEF DeliverOversized
  <2>2. 302 \in 100 .. 599 /\ 0 \in Nat /\ "no" \in Endings /\ TypeOK
      BY DEF Endings, ProxyInv
  <2>. QED BY <1>1, <2>1, <2>2, AnswerType
<1> DEFINE a == [resp[r] EXCEPT !.length = 0, !.body = 0]
<1>3. a \in Response /\ a.code = resp[r].code
    BY DEF ProxyInv, TypeOK, Response
<1>4. resp' = [resp EXCEPT ![r] = a]
    BY DEF DeliverOversized
<1> HIDE DEF a
<1>5. TypeOK'
  <2>1. pc' \in [Requests -> PCs] /\ resp' \in [Requests -> Response]
    <3>1. pc' \in [Requests -> PCs]
        BY DEF DeliverOversized, ProxyInv, TypeOK, PCs
    <3>2. resp \in [Requests -> Response]
        BY DEF ProxyInv, TypeOK
    <3>. QED BY <1>3, <1>4, <3>1, <3>2
  <2>2. bodies' \in [Requests -> SUBSET Nat]
      BY DEF DeliverOversized, Closed, ProxyInv, TypeOK
  <2>3. /\ UNCHANGED <<cred, req, uploading, gone, trail>>
        /\ \A x \in Requests : pc'[x] # "idle" => pc[x] # "idle"
      BY DEF DeliverOversized, ProxyInv, TypeOK
  <2>. QED BY <1>2, <2>1, <2>2, <2>3 DEF ProxyInv, TypeOK
<1>6. AnswerPresent'
    BY <1>3, <1>4 DEF DeliverOversized, ProxyInv, TypeOK, AnswerPresent
<1>. QED BY <1>5, <1>6 DEF ProxyInv

LEMMA CopyChunkStep ==
    ASSUME ProxyInv, NEW r \in Requests, CopyChunk(r)
    PROVE  ProxyInv'
<1> DEFINE read == resp[r].read + 1
           sent == out[r].sent + 1
<1>0. /\ read \in Nat /\ resp' = [resp EXCEPT ![r].read = read]
      /\ sent \in Nat /\ out' = [out EXCEPT ![r].sent = sent]
    BY DEF CopyChunk, ProxyInv, TypeOK, Response, Output
<1> HIDE DEF read, sent
<1>1. resp' \in [Requests -> Response] /\ \A x \in Requests : resp'[x].code = resp[x].code
    BY <1>0 DEF ProxyInv, TypeOK, Response
<1>2. out' \in [Requests -> Output]
    BY <1>0 DEF ProxyInv, TypeOK, Output
<1>3. TypeOK'
    BY <1>1, <1>2 DEF CopyChunk, ProxyInv, TypeOK
<1>4. AnswerPresent'
    BY <1>1 DEF CopyChunk, ProxyInv, AnswerPresent
<1>. QED BY <1>3, <1>4 DEF ProxyInv

LEMMA EndStep ==
    ASSUME ProxyInv, NEW r \in Requests, pc[r] = "streaming",
           NEW how \in {"complete", "aborted"}, End(r, how)
    PROVE  ProxyInv'
<1>1. out' \in [Requests -> Output]
    BY EndedType DEF End, ProxyInv, Endings
<1>2. bodies' \in [Requests -> SUBSET Nat]
    BY DEF End, Closed, ProxyInv, TypeOK
<1>. QED BY <1>1, <1>2, MoveStep DEF End, PCs

LEMMA HandleErrorOut ==
    ASSUME ProxyInv, NEW r \in Requests, HandleError(r)
    PROVE  out' \in [Requests -> Output]
<1>1. CASE out' = [out EXCEPT ![r].ended = "silent"]
    BY <1>1, EndedType DEF ProxyInv, Endings
<1>2. CASE Answer(r, 502, NothingOut.loc, 1, "complete")
  <2>1. NothingOut.loc \in ClientLocation
      BY DEF NothingOut, ClientLocation
  <2>2. 502 \in 100 .. 599 /\ 1 \in Nat /\ "complete" \in Endings /\ TypeOK
      BY DEF Endings, ProxyInv
  <2>. QED BY <1>2, <2>1, <2>2, AnswerType
<1>. QED BY <1>1, <1>2 DEF HandleError

\* Every step of an exchange keeps the invariant, one lemma or one line each.
LEMMA ExchangeStep ==
    ASSUME ProxyInv, NEW r \in Requests, Step(r)
    PROVE  ProxyInv'
<1> USE DEF PCs
<1>0. out \in [Requests -> Output] /\ bodies \in [Requests -> SUBSET Nat]
    BY DEF ProxyInv, TypeOK
<1>1. ASSUME NEW method \in ForwardedMethods, NEW host \in ProxyableHosts, NEW names \in {{}, HeaderNames},
             Begin(r, method, host, names)
      PROVE  ProxyInv'
    BY <1>1, BeginStep
<1>2. CASE Upload(r)
    BY <1>2 DEF Upload, ProxyInv, TypeOK, AnswerPresent
<1>3. CASE Informational(r)
    BY <1>3, InformationalStep
<1>4. CASE Answered(r)
    BY <1>4, RespondStep DEF Answered
<1>5. CASE TransportError(r)
    BY <1>0, <1>5, MoveStep DEF TransportError
<1>6. CASE HeaderTimeout(r)
    BY <1>5, <1>6 DEF HeaderTimeout
<1>7. CASE Cancelled(r)
    BY <1>5, <1>7 DEF Cancelled
<1>8. CASE ReturnResponse(r)
    BY <1>0, <1>8, MoveStep DEF ReturnResponse
<1>9. CASE RefuseHop(r)
  <2>1. bodies' \in [Requests -> SUBSET Nat]
      BY <1>0, <1>9 DEF RefuseHop, Closed
  <2>. QED BY <1>0, <1>9, <2>1, MoveStep DEF RefuseHop
<1>10. CASE FollowHop(r)
    BY <1>10, FollowStep
<1>11. CASE Deliver(r)
    BY <1>11, DeliverStep
<1>12. CASE DeliverOversized(r)
    BY <1>12, DeliverOversizedStep
<1>13. CASE CopyChunk(r)
    BY <1>13, CopyChunkStep
<1>14. CASE FinishCopy(r)
    BY <1>14, EndStep DEF FinishCopy
<1>15. CASE AbortCopy(r)
    BY <1>15, EndStep DEF AbortCopy
<1>16. CASE HandleError(r)
    BY <1>0, <1>16, HandleErrorOut, MoveStep DEF HandleError
<1>17. CASE Hangup(r)
    BY <1>17 DEF Hangup, ProxyInv, TypeOK, AnswerPresent
<1>. QED BY <1>1, <1>2, <1>3, <1>4, <1>5, <1>6, <1>7, <1>8, <1>9, <1>10, <1>11, <1>12,
            <1>13, <1>14, <1>15, <1>16, <1>17 DEF Step

LEMMA ProxyStep == ProxyInv /\ [Next]_vars => ProxyInv'
<1> SUFFICES ASSUME ProxyInv, [Next]_vars PROVE ProxyInv'
    OBVIOUS
<1>1. CASE \E r \in Requests : Step(r)
    BY <1>1, ExchangeStep
<1>2. CASE Rotate
    BY <1>2 DEF Rotate, ProxyInv, TypeOK, AnswerPresent
<1>3. CASE UNCHANGED vars
    BY <1>3 DEF vars, ProxyInv, TypeOK, AnswerPresent
<1>. QED BY <1>1, <1>2, <1>3 DEF Next, AllDone

\* Every reachable state is well typed: however many redirects an exchange goes
\* through, with relative and absolute Locations mixed, it is at a real URL, and
\* nothing but a status GitHub gave, a 1xx, a 302 or a 502 is written.
THEOREM TypeCorrect == Spec => []TypeOK
<1>. QED BY ProxyInit, ProxyStep, PTL DEF Spec, ProxyInv

-----------------------------------------------------------------------------
(* Response bodies. *)

\* BodiesReleased is inductive over the type invariant: a body is opened only by
\* an answer, which finds none open, and every way on from there either keeps
\* it as the one body of the current hop or closes it.
LEMMA ClosedIsEmpty ==
    ASSUME ProxyInv, BodiesReleased, NEW r \in Requests
    PROVE  Closed(r) = [bodies EXCEPT ![r] = {}]
<1>1. bodies[r] \ {req[r].hops} = {}
    BY DEF BodiesReleased
<1>. QED BY <1>1 DEF Closed

LEMMA SendWithoutBody ==
    ASSUME ProxyInv, BodiesReleased, NEW r \in Requests, NEW q, Send(r, q),
           bodies' = [bodies EXCEPT ![r] = {}]
    PROVE  BodiesReleased'
BY DEF ProxyInv, TypeOK, BodiesReleased, Send

LEMMA BodiesStep ==
    ASSUME ProxyInv, BodiesReleased, [Next]_vars
    PROVE  BodiesReleased'
<1> USE DEF BodiesReleased
<1>1. ASSUME NEW r \in Requests, Step(r)
      PROVE  BodiesReleased'
  <2> USE <1>1 DEF ProxyInv, TypeOK
  <2>0. Closed(r) = [bodies EXCEPT ![r] = {}]
      BY ClosedIsEmpty
  <2>1. ASSUME NEW method \in ForwardedMethods, NEW host \in ProxyableHosts, NEW names,
               Begin(r, method, host, names)
        PROVE  BodiesReleased'
    <3>1. bodies' = [bodies EXCEPT ![r] = {}]
        BY <2>1 DEF Begin
    <3>. QED BY <2>1, <3>1, SendWithoutBody DEF Begin
  <2>2. CASE FollowHop(r)
      BY <2>0, <2>2, SendWithoutBody DEF FollowHop
  <2>3. CASE Answered(r)
    <3>1. bodies' = [bodies EXCEPT ![r] = {req[r].hops}] /\ req' = req
             /\ pc' = [pc EXCEPT ![r] = "received"]
        BY <2>3 DEF Answered, Respond
    <3>. QED BY <3>1
  <2>4. CASE RefuseHop(r)
      BY <2>0, <2>4 DEF RefuseHop
  <2>8. CASE DeliverOversized(r)
      BY <2>0, <2>8 DEF DeliverOversized
  <2>9. CASE FinishCopy(r) \/ AbortCopy(r)
    <3>1. bodies' = [bodies EXCEPT ![r] = {}] /\ req' = req /\ pc' = [pc EXCEPT ![r] = "done"]
        BY <2>0, <2>9 DEF FinishCopy, AbortCopy, End
    <3>. QED BY <3>1
  <2>5. CASE TransportError(r) \/ HeaderTimeout(r) \/ Cancelled(r) \/ ReturnResponse(r)
      BY <2>5 DEF TransportError, HeaderTimeout, Cancelled, ReturnResponse
  <2>6. CASE Deliver(r) \/ HandleError(r)
      BY <2>6 DEF Deliver, HandleError
  <2>7. CASE Upload(r) \/ Informational(r) \/ CopyChunk(r) \/ Hangup(r)
    <3>1. bodies' = bodies /\ req' = req /\ pc' = pc
        BY <2>7 DEF Upload, Informational, CopyChunk, Hangup
    <3>. QED BY <3>1
  <2>. QED BY <2>1, <2>2, <2>3, <2>4, <2>5, <2>6, <2>7, <2>8, <2>9 DEF Step
<1>2. CASE Rotate
    BY <1>2 DEF Rotate
<1>3. CASE UNCHANGED vars
    BY <1>3 DEF vars
<1>. QED BY <1>1, <1>2, <1>3 DEF Next, AllDone

\* At most one response body is open, the current hop's, and none while a hop is
\* awaited or once the exchange is over.
THEOREM BodiesCorrect == Spec => []BodiesReleased
<1>1. Init => BodiesReleased
    BY DEF Init, BodiesReleased
<1>. QED BY <1>1, ProxyInit, ProxyStep, BodiesStep, PTL DEF Spec

-----------------------------------------------------------------------------
(***************************************************************************)
(* The chain of hops.  What was sent is judged from the request in hand,   *)
(* so the invariant ties the two: the trail has one entry per hop and its  *)
(* last entry is the request of the current hop.                           *)
(***************************************************************************)
TrailMatches ==
    \A r \in Requests :
        /\ Len(trail[r]) = req[r].hops
        /\ pc[r] = "idle" <=> req[r].hops = 0
        /\ req[r].hops > 0 =>
              trail[r][req[r].hops] = [url |-> req[r].url, header |-> req[r].header]

ChainInv == ProxyInv /\ TrailMatches /\ RedirectsConfined /\ CredentialStaysHome

\* The three, one exchange and one hop at a time.
Matches(r) ==
    /\ Len(trail[r]) = req[r].hops
    /\ pc[r] = "idle" <=> req[r].hops = 0
    /\ req[r].hops > 0 =>
          trail[r][req[r].hops] = [url |-> req[r].url, header |-> req[r].header]

ConfinedChain(r) ==
    /\ Len(trail[r]) <= 1 + MaxRedirects
    /\ req[r].method = "POST" => Len(trail[r]) <= 1
    /\ trail[r] # <<>> => /\ trail[r][1].url.scheme = "https"
                        /\ trail[r][1].url.host \in ProxyableHosts
    /\ \A i \in 2 .. Len(trail[r]) : Permitted(trail[r][i].url)

CredentialHome(r, i) ==
    LET sent == trail[r][i].header IN
    /\ sent["Authorization"] \in {None, req[r].cred}
    /\ sent["Authorization"] # None =>
          \A j \in 1 .. i : trail[r][j].url.host = trail[r][1].url.host
    /\ \A h \in PrivateHeaders \cup {"Authorization"} : sent[h] # Client

\* What Send does to the trail of its exchange, and to the others.
LEMMA SendTrail ==
    ASSUME TypeOK, TrailMatches, NEW r \in Requests, NEW q \in Request, q.url \in URL, Send(r, q),
           q.hops = req[r].hops + 1
    PROVE  /\ \A x \in Requests \ {r} : trail'[x] = trail[x] /\ req'[x] = req[x] /\ pc'[x] = pc[x]
           /\ req'[r] = q /\ pc'[r] = "sent"
           /\ Len(trail'[r]) = q.hops
           /\ \A i \in 1 .. req[r].hops : trail'[r][i] = trail[r][i]
           /\ trail'[r][q.hops] = [url |-> q.url, header |-> q.header]
<1> DEFINE Entry == [url: URL, header: Header]
           entry == [url |-> q.url, header |-> q.header]
<1>1. /\ trail \in [Requests -> Seq(Entry)] /\ entry \in Entry
      /\ trail' = [trail EXCEPT ![r] = Append(trail[r], entry)]
      /\ req[r].hops \in Nat /\ Len(trail[r]) = req[r].hops
    BY DEF TypeOK, Send, Request, TrailMatches
<1>2. req' = [req EXCEPT ![r] = q] /\ pc' = [pc EXCEPT ![r] = "sent"]
    BY DEF Send
<1>3. req \in [Requests -> Request] /\ pc \in [Requests -> PCs]
    BY DEF TypeOK
<1> HIDE DEF Entry, entry
<1>4. /\ Len(trail'[r]) = q.hops /\ trail'[r][q.hops] = entry
      /\ \A i \in 1 .. req[r].hops : trail'[r][i] = trail[r][i]
    BY <1>1
<1>. QED BY <1>1, <1>2, <1>3, <1>4 DEF entry

\* A step that sends nothing leaves the chain alone.
LEMMA OtherSteps ==
    ASSUME ProxyInv, NEW r \in Requests, Step(r)
    PROVE  \/ \E method \in ForwardedMethods, host \in ProxyableHosts, names \in {{}, HeaderNames} :
                 Begin(r, method, host, names)
           \/ FollowHop(r)
           \/ /\ UNCHANGED <<req, trail>>
              /\ \A x \in Requests : pc'[x] = "idle" <=> pc[x] = "idle"
<1> USE DEF ProxyInv, TypeOK
<1>1. CASE Upload(r) \/ Informational(r) \/ CopyChunk(r) \/ Hangup(r)
    BY <1>1 DEF Upload, Informational, CopyChunk, Hangup
<1>2. CASE Answered(r)
    BY <1>2 DEF Answered, Respond
<1>3. CASE TransportError(r) \/ HeaderTimeout(r) \/ Cancelled(r) \/ ReturnResponse(r) \/ RefuseHop(r)
    BY <1>3 DEF TransportError, HeaderTimeout, Cancelled, ReturnResponse, RefuseHop
<1>4. CASE Deliver(r) \/ DeliverOversized(r) \/ HandleError(r)
    BY <1>4 DEF Deliver, DeliverOversized, HandleError
<1>5. CASE FinishCopy(r) \/ AbortCopy(r)
    BY <1>5 DEF FinishCopy, AbortCopy, End
<1>. QED BY <1>1, <1>2, <1>3, <1>4, <1>5 DEF Step

LEMMA FirstHop ==
    ASSUME ChainInv, NEW r \in Requests, NEW method \in ForwardedMethods, NEW host \in ProxyableHosts,
           NEW names, Begin(r, method, host, names)
    PROVE  TrailMatches' /\ RedirectsConfined' /\ CredentialStaysHome'
<1> DEFINE q == [method |-> method, cred |-> cred, hops |-> 1,
                 url |-> [scheme |-> "https", host |-> host],
                 header |-> Rewrite(names, cred)]
<1>1. q.url \in URL
    BY ProxyConstants DEF URL, Schemes
<1>2. q \in Request
    BY <1>1, RewriteType DEF Request, ChainInv, ProxyInv, TypeOK
<1>3. /\ q.hops = 1 /\ q.url.scheme = "https" /\ q.url.host \in ProxyableHosts
      /\ q.header["Authorization"] = q.cred
      /\ \A h \in PrivateHeaders \cup {"Authorization"} : q.header[h] # Client
    BY ProxyConstants DEF Rewrite, ChainInv, ProxyInv, TypeOK
<1>4. Send(r, q)
    BY DEF Begin
<1> HIDE DEF q
<1>5. req[r].hops = 0
    BY DEF Begin, ChainInv, TrailMatches
<1>6. /\ \A x \in Requests \ {r} : trail'[x] = trail[x] /\ req'[x] = req[x] /\ pc'[x] = pc[x]
      /\ req'[r] = q /\ pc'[r] = "sent"
      /\ Len(trail'[r]) = 1
      /\ trail'[r][1] = [url |-> q.url, header |-> q.header]
  <2>1. q.hops = req[r].hops + 1
      BY <1>3, <1>5
  <2>2. /\ \A x \in Requests \ {r} : trail'[x] = trail[x] /\ req'[x] = req[x] /\ pc'[x] = pc[x]
        /\ req'[r] = q /\ pc'[r] = "sent"
        /\ Len(trail'[r]) = q.hops
        /\ trail'[r][q.hops] = [url |-> q.url, header |-> q.header]
      BY <1>1, <1>2, <1>4, <2>1, SendTrail DEF ChainInv, ProxyInv
  <2>. QED BY <1>3, <2>2
<1>7. trail \in [Requests -> Seq([url: URL, header: Header])]
      /\ trail' \in [Requests -> Seq([url: URL, header: Header])]
    BY <1>1, <1>2, <1>4, SendType DEF ChainInv, ProxyInv, TypeOK
<1>8. TrailMatches'
  <2> SUFFICES ASSUME NEW x \in Requests
               PROVE  Matches(x)'
      BY DEF TrailMatches, Matches
  <2>1. CASE x = r
    <3>1. req'[r].hops = 1 /\ pc'[r] # "idle" /\ Len(trail'[r]) = 1
        BY <1>3, <1>6
    <3>2. trail'[r][1] = [url |-> req'[r].url, header |-> req'[r].header]
        BY <1>6
    <3>. QED BY <2>1, <3>1, <3>2 DEF Matches
  <2>2. CASE x # r
      BY <1>6, <2>2 DEF Matches, ChainInv, TrailMatches
  <2>. QED BY <2>1, <2>2
<1>9. RedirectsConfined'
  <2> SUFFICES ASSUME NEW x \in Requests
               PROVE  ConfinedChain(x)'
      BY DEF RedirectsConfined, ConfinedChain
  <2>1. CASE x = r
    <3>1. trail'[r][1].url.scheme = "https" /\ trail'[r][1].url.host \in ProxyableHosts
        BY <1>3, <1>6
    <3>2. \A i \in 2 .. Len(trail'[r]) : FALSE
        BY <1>6
    <3>3. Len(trail'[r]) <= 1 + MaxRedirects /\ Len(trail'[r]) <= 1
        BY <1>6, ProxyConstants
    <3>. QED BY <2>1, <3>1, <3>2, <3>3 DEF ConfinedChain
  <2>2. CASE x # r
      BY <1>6, <2>2 DEF ConfinedChain, ChainInv, RedirectsConfined
  <2>. QED BY <2>1, <2>2
<1>10. CredentialStaysHome'
  <2> SUFFICES ASSUME NEW x \in Requests, NEW i \in DOMAIN trail'[x]
               PROVE  CredentialHome(x, i)'
      BY DEF CredentialStaysHome, CredentialHome
  <2>1. CASE x = r
    <3>1. i = 1
        BY <1>6, <1>7, <2>1
    <3>. QED BY <1>3, <1>6, <2>1, <3>1 DEF CredentialHome
  <2>2. CASE x # r
      BY <1>6, <2>2 DEF CredentialHome, ChainInv, CredentialStaysHome
  <2>. QED BY <2>1, <2>2
<1>. QED BY <1>8, <1>9, <1>10

LEMMA NextHop ==
    ASSUME ChainInv, NEW r \in Requests, FollowHop(r)
    PROVE  TrailMatches' /\ RedirectsConfined' /\ CredentialStaysHome'
<1> DEFINE q == NextRequest(r)
           n == req[r].hops
<1>1. req[r] \in Request /\ req[r].url \in URL /\ resp[r].loc \in Location
    BY DEF ChainInv, ProxyInv, TypeOK, FollowHop, Response
<1>2. NextURL(r) \in URL
    BY <1>1, NextURLType DEF NextURL, FollowHop, Follows
<1>3. NextHeader(req[r].url, NextURL(r), req[r].header) \in Header
    BY <1>1, NextHeaderType DEF Request
<1>4. /\ q \in Request /\ q.url = NextURL(r) /\ q.hops = n + 1 /\ q.cred = req[r].cred
      /\ q.method = req[r].method
      /\ q.header = NextHeader(req[r].url, NextURL(r), req[r].header)
    BY <1>1, <1>2, <1>3 DEF Request, NextRequest
<1>5. Send(r, q)
    BY DEF FollowHop
<1>6. n \in Nat /\ n >= 1 /\ n <= MaxRedirects
  <2>1. n \in Nat
      BY <1>1 DEF Request
  <2>2. n <= MaxRedirects
      BY DEF FollowHop, Follows
  <2>3. n # 0
      BY DEF FollowHop, ChainInv, TrailMatches
  <2> HIDE DEF n
  <2>. QED BY <2>1, <2>2, <2>3
<1>7. q.method # "POST" /\ Permitted(q.url)
    BY <1>4 DEF FollowHop, Follows
<1>8. /\ Len(trail[r]) = n
      /\ trail[r][n] = [url |-> req[r].url, header |-> req[r].header]
    BY <1>6 DEF ChainInv, TrailMatches
<1>9. /\ \A x \in Requests \ {r} : trail'[x] = trail[x] /\ req'[x] = req[x] /\ pc'[x] = pc[x]
      /\ req'[r] = q /\ pc'[r] = "sent"
      /\ Len(trail'[r]) = n + 1
      /\ \A i \in 1 .. n : trail'[r][i] = trail[r][i]
      /\ trail'[r][n + 1] = [url |-> q.url, header |-> q.header]
    BY <1>2, <1>4, <1>5, SendTrail DEF ChainInv, ProxyInv
<1>10. trail \in [Requests -> Seq([url: URL, header: Header])]
       /\ trail' \in [Requests -> Seq([url: URL, header: Header])]
    BY <1>2, <1>4, <1>5, SendType DEF ChainInv, ProxyInv, TypeOK
<1>11. /\ q.header["Authorization"] \in {None, req[r].header["Authorization"]}
       /\ q.header["Authorization"] # None => q.url.host = req[r].url.host
       /\ \A h \in HeaderNames \ {"Authorization"} : q.header[h] = req[r].header[h]
    BY <1>1, <1>4, ProxyConstants DEF NextHeader, Request, Header
<1> HIDE DEF q, n
<1>12. TrailMatches'
  <2> SUFFICES ASSUME NEW x \in Requests
               PROVE  Matches(x)'
      BY DEF TrailMatches, Matches
  <2>1. CASE x = r
      BY <1>4, <1>6, <1>9, <2>1 DEF Matches
  <2>2. CASE x # r
      BY <1>9, <2>2 DEF Matches, ChainInv, TrailMatches
  <2>. QED BY <2>1, <2>2
<1>13. RedirectsConfined'
  <2> SUFFICES ASSUME NEW x \in Requests
               PROVE  ConfinedChain(x)'
      BY DEF RedirectsConfined, ConfinedChain
  <2>1. CASE x = r
    <3>1. /\ trail[r] # <<>>
          /\ trail[r][1].url.scheme = "https" /\ trail[r][1].url.host \in ProxyableHosts
          /\ \A i \in 2 .. n : Permitted(trail[r][i].url)
        BY <1>6, <1>8 DEF ChainInv, RedirectsConfined
    <3>2. \A i \in 2 .. n + 1 : Permitted(trail'[r][i].url)
        BY <1>6, <1>7, <1>9, <3>1
    <3>3. trail'[r][1] = trail[r][1]
        BY <1>6, <1>9
    <3>. QED BY <1>6, <1>7, <1>9, <2>1, <3>1, <3>2, <3>3, ProxyConstants DEF ConfinedChain
  <2>2. CASE x # r
      BY <1>9, <2>2 DEF ConfinedChain, ChainInv, RedirectsConfined
  <2>. QED BY <2>1, <2>2
<1>14. CredentialStaysHome'
  <2> SUFFICES ASSUME NEW x \in Requests, NEW i \in DOMAIN trail'[x]
               PROVE  CredentialHome(x, i)'
      BY DEF CredentialStaysHome, CredentialHome
  <2>1. CASE x = r /\ i \in 1 .. n
    <3>0. i \in DOMAIN trail[r]
        BY <1>8, <1>10, <2>1
    <3>1. CredentialHome(r, i)
        BY <3>0 DEF ChainInv, CredentialStaysHome, CredentialHome
    <3>2. \A j \in 1 .. i : trail'[r][j] = trail[r][j]
        BY <1>6, <1>9, <2>1
    <3>. QED BY SMTT(20), <1>4, <1>6, <1>9, <2>1, <3>1, <3>2 DEF CredentialHome
  <2>2. CASE x = r /\ i = n + 1
    <3>0. n \in DOMAIN trail[r]
        BY <1>6, <1>8, <1>10
    <3>1. CredentialHome(r, n)
        BY <3>0 DEF ChainInv, CredentialStaysHome, CredentialHome
    <3>2. /\ req[r].header["Authorization"] \in {None, req[r].cred}
          /\ \A h \in PrivateHeaders \cup {"Authorization"} : req[r].header[h] # Client
          /\ req[r].header["Authorization"] # None =>
                \A j \in 1 .. n : trail[r][j].url.host = trail[r][1].url.host
        BY <1>8, <3>1 DEF CredentialHome
    <3>3. /\ q.header["Authorization"] \in {None, q.cred}
          /\ \A h \in PrivateHeaders \cup {"Authorization"} : q.header[h] # Client
        BY <1>4, <1>11, <3>2, ProxyConstants
    <3>4. ASSUME q.header["Authorization"] # None
          PROVE  \A j \in 1 .. n + 1 : trail'[r][j].url.host = trail'[r][1].url.host
      <4>1. /\ req[r].url.host = trail[r][1].url.host
            /\ \A j \in 1 .. n : trail[r][j].url.host = trail[r][1].url.host
          BY <1>6, <1>8, <1>11, <3>2, <3>4
      <4>. QED BY SMTT(20), <1>6, <1>9, <1>11, <3>4, <4>1
    <3>. QED BY <1>9, <2>2, <3>3, <3>4 DEF CredentialHome
  <2>3. CASE x # r
      BY <1>9, <2>3 DEF CredentialHome, ChainInv, CredentialStaysHome
  <2>4. x = r => i \in 1 .. n \/ i = n + 1
      BY <1>6, <1>9, <1>10
  <2>. QED BY <2>1, <2>2, <2>3, <2>4
<1>. QED BY <1>12, <1>13, <1>14

LEMMA ChainInit == Init => ChainInv
<1> SUFFICES ASSUME Init PROVE ChainInv
    OBVIOUS
<1>1. TrailMatches /\ RedirectsConfined /\ CredentialStaysHome
    BY ProxyConstants DEF Init, NoRequest, TrailMatches, RedirectsConfined, CredentialStaysHome
<1>. QED BY <1>1, ProxyInit DEF ChainInv

LEMMA ChainStep == ChainInv /\ [Next]_vars => ChainInv'
<1> SUFFICES ASSUME ChainInv, [Next]_vars PROVE ChainInv'
    OBVIOUS
<1>1. ProxyInv'
    BY ProxyStep DEF ChainInv
<1>2. ASSUME UNCHANGED <<req, trail>>, \A x \in Requests : pc'[x] = "idle" <=> pc[x] = "idle"
      PROVE  TrailMatches' /\ RedirectsConfined' /\ CredentialStaysHome'
    BY <1>2 DEF ChainInv, TrailMatches, RedirectsConfined, CredentialStaysHome
<1>3. ASSUME NEW r \in Requests, Step(r)
      PROVE  TrailMatches' /\ RedirectsConfined' /\ CredentialStaysHome'
    BY <1>2, <1>3, OtherSteps, FirstHop, NextHop DEF ChainInv
<1>4. ASSUME Rotate \/ UNCHANGED vars
      PROVE  TrailMatches' /\ RedirectsConfined' /\ CredentialStaysHome'
    BY <1>2, <1>4 DEF Rotate, vars
<1>5. TrailMatches' /\ RedirectsConfined' /\ CredentialStaysHome'
    BY <1>3, <1>4 DEF Next, AllDone
<1>. QED BY <1>1, <1>5 DEF ChainInv

\* The target over TLS first, then only redirect hosts, at most MaxRedirects of
\* them, and a POST is sent once.
THEOREM ConfinementCorrect == Spec => []RedirectsConfined
<1>. QED BY ChainInit, ChainStep, PTL DEF Spec, ChainInv

\* The credential is the one read when the exchange began, it is on a hop only
\* if the chain never left the target's host, and no private field of the client
\* goes out on any hop.
THEOREM CredentialCorrect == Spec => []CredentialStaysHome
<1>. QED BY ChainInit, ChainStep, PTL DEF Spec, ChainInv

-----------------------------------------------------------------------------
(***************************************************************************)
(* The inductive invariant.  Before the answer the client has 1xx codes at *)
(* most; what is read of a body is what was written, and no more than      *)
(* there is; a body is as long as it was declared to be, and empty once it *)
(* is streamed although it was declared longer than the limit.             *)
(***************************************************************************)
Unanswered(r) ==
    /\ out[r].sent = 0 /\ out[r].ended = "no"
    /\ \A i \in DOMAIN out[r].codes : out[r].codes[i] < 200

Measured(r) ==
    /\ resp[r].body \in 0 .. MaxBody
    /\ resp[r].read \in 0 .. resp[r].body
    /\ resp[r].body > 0 => resp[r].length \in {-1, resp[r].body}
    /\ pc[r] \in {"received", "returned"} => resp[r].read = 0

Declared(r) ==
    /\ pc[r] \in {"idle", "sent", "failed"} => resp[r].declared = 0
    /\ pc[r] \in {"received", "returned"} => resp[r].declared = resp[r].length

Oversize(r) == SizeLimit > 0 /\ resp[r].declared > SizeLimit

Streamed(r) ==
    /\ out[r].ended = "no" /\ out[r].sent = resp[r].read
    /\ Oversize(r) => resp[r].body = 0

Within(r) == Oversize(r) => out[r].sent = 0

Delivery(r) ==
    /\ Measured(r)
    /\ Declared(r)
    /\ pc[r] \notin {"streaming", "done"} => Unanswered(r)
    /\ pc[r] = "streaming" => Streamed(r)
    /\ pc[r] = "done" => Within(r)

DeliveryInv == ProxyInv /\ \A r \in Requests : Delivery(r)

\* What the steps of one exchange leave alone of the others.
Apart(r) ==
    \A x \in Requests \ {r} :
        /\ pc'[x] = pc[x] /\ resp'[x] = resp[x] /\ out'[x] = out[x]
        /\ trail'[x] = trail[x]

LEMMA StepApart ==
    ASSUME ProxyInv, NEW r \in Requests, Step(r)
    PROVE  Apart(r)
<1> USE DEF ProxyInv, TypeOK, Apart
<1>1. CASE Upload(r) \/ Informational(r) \/ CopyChunk(r) \/ Hangup(r)
    BY <1>1 DEF Upload, Informational, CopyChunk, Hangup
<1>2. CASE Answered(r)
    BY <1>2 DEF Answered, Respond
<1>3. CASE TransportError(r) \/ HeaderTimeout(r) \/ Cancelled(r) \/ ReturnResponse(r) \/ RefuseHop(r)
    BY <1>3 DEF TransportError, HeaderTimeout, Cancelled, ReturnResponse, RefuseHop
<1>4. CASE Deliver(r) \/ DeliverOversized(r) \/ HandleError(r)
    BY <1>4 DEF Deliver, DeliverOversized, HandleError, Answer
<1>5. CASE FinishCopy(r) \/ AbortCopy(r)
    BY <1>5 DEF FinishCopy, AbortCopy, End
<1>6. CASE FollowHop(r)
    BY <1>6 DEF FollowHop, Send
<1>7. ASSUME NEW method \in ForwardedMethods, NEW host \in ProxyableHosts, NEW names \in {{}, HeaderNames},
             Begin(r, method, host, names)
      PROVE  Apart(r)
    BY <1>7 DEF Begin, Send
<1>. QED BY <1>1, <1>2, <1>3, <1>4, <1>5, <1>6, <1>7 DEF Step

LEMMA OthersDelivery ==
    ASSUME DeliveryInv, NEW r \in Requests, Apart(r), Delivery(r)'
    PROVE  \A x \in Requests : Delivery(x)'
<1> TAKE x \in Requests
<1>1. CASE x = r
    BY <1>1
<1>2. CASE x # r
    BY <1>2 DEF Apart, DeliveryInv, Delivery, Measured, Declared, Oversize, Unanswered, Streamed, Within
<1>. QED BY <1>1, <1>2

LEMMA DeliveryInit == Init => DeliveryInv
<1> SUFFICES ASSUME Init PROVE DeliveryInv
    OBVIOUS
<1>1. ASSUME NEW r \in Requests PROVE Delivery(r)
  <2>1. pc[r] = "idle" /\ resp[r] = NoResponse /\ out[r] = NothingOut
      BY DEF Init
  <2>2. Measured(r)
      BY <2>1, ProxyConstants DEF Measured, NoResponse
  <2>3. Unanswered(r)
      BY <2>1 DEF Unanswered, NothingOut
  <2>4. Declared(r)
      BY <2>1 DEF Declared, NoResponse
  <2>. QED BY <2>1, <2>2, <2>3, <2>4 DEF Delivery
<1>. QED BY <1>1, ProxyInit DEF DeliveryInv

\* Steps before the answer that touch neither it nor the response, or drop the
\* response.
LEMMA Waiting ==
    ASSUME DeliveryInv, NEW r \in Requests, pc[r] \notin {"streaming", "done"},
           pc'[r] \in {"sent", "failed", "returned"}, out'[r] = out[r],
           \/ pc'[r] = "returned" /\ pc[r] = "received" /\ resp'[r] = resp[r]
           \/ pc'[r] # "returned" /\ pc[r] \in {"idle", "sent"} /\ resp'[r] = resp[r]
           \/ pc'[r] # "returned" /\ resp'[r] = NoResponse
    PROVE  Delivery(r)'
<1>1. Measured(r)' /\ Declared(r)'
    BY ProxyConstants DEF DeliveryInv, Delivery, Measured, Declared, NoResponse
<1>2. Unanswered(r)'
    BY DEF DeliveryInv, Delivery, Unanswered
<1>. QED BY <1>1, <1>2 DEF Delivery

\* Steps that change nothing of it.
LEMMA SameDelivery ==
    ASSUME DeliveryInv, NEW r \in Requests, pc' = pc, resp' = resp, out' = out
    PROVE  Delivery(r)'
BY DEF DeliveryInv, Delivery, Measured, Declared, Oversize, Unanswered, Streamed, Within

LEMMA InformationalDelivery ==
    ASSUME DeliveryInv, NEW r \in Requests, Informational(r)
    PROVE  Delivery(r)'
<1> DEFINE codes == Append(out[r].codes, 103)
<1>1. out[r].codes \in Statuses /\ out[r] \in Output
    BY DEF DeliveryInv, ProxyInv, TypeOK, Output
<1>2. Unanswered(r) /\ pc[r] = "sent"
    BY DEF Informational, DeliveryInv, Delivery
<1>3. \A i \in DOMAIN codes : codes[i] < 200
    BY <1>1, <1>2 DEF Statuses, Unanswered
<1>4. out' = [out EXCEPT ![r].codes = codes] /\ pc' = pc /\ resp' = resp
    BY DEF Informational
<1> HIDE DEF codes
<1>5. out'[r].codes = codes /\ out'[r].sent = out[r].sent /\ out'[r].ended = out[r].ended
    BY <1>1, <1>4 DEF DeliveryInv, ProxyInv, TypeOK, Output
<1>6. Unanswered(r)'
    BY <1>2, <1>3, <1>5 DEF Unanswered
<1>. QED BY <1>2, <1>4, <1>6 DEF DeliveryInv, Delivery, Measured, Declared

LEMMA RespondDelivery ==
    ASSUME DeliveryInv, NEW r \in Requests, NEW code \in Codes, NEW loc \in Location,
           NEW length \in Lengths, NEW body \in 0 .. MaxBody, Respond(r, code, loc, length, body)
    PROVE  Delivery(r)'
<1>1. /\ resp'[r] = [code |-> code, loc |-> loc, length |-> length, declared |-> length,
                       body |-> body, read |-> 0]
      /\ pc'[r] = "received" /\ out'[r] = out[r] /\ pc[r] = "sent"
    BY DEF Respond, DeliveryInv, ProxyInv, TypeOK
<1>2. body > 0 => length \in {-1, body}
    BY DEF Respond, PossibleAnswer
<1>3. Measured(r)'
    BY <1>1, <1>2, ProxyConstants DEF Measured
<1>4. Declared(r)'
    BY <1>1 DEF Declared
<1>. QED BY <1>1, <1>3, <1>4 DEF DeliveryInv, Delivery, Unanswered

LEMMA DeliverDelivery ==
    ASSUME DeliveryInv, NEW r \in Requests, Deliver(r)
    PROVE  Delivery(r)'
<1>1. /\ pc[r] = "returned" /\ pc'[r] = "streaming" /\ resp' = resp
      /\ out'[r].sent = 0 /\ out'[r].ended = "no"
    BY DEF Deliver, Answer, DeliveryInv, ProxyInv, TypeOK
<1>2. Measured(r) /\ resp[r].read = 0 /\ resp[r].declared = resp[r].length
    BY <1>1 DEF DeliveryInv, Delivery, Measured, Declared
<1>3. ~Oversize(r)
    BY <1>2 DEF Deliver, Oversized, Oversize
<1>4. Measured(r)' /\ Declared(r)' /\ Streamed(r)'
    BY <1>1, <1>2, <1>3 DEF Measured, Declared, Streamed, Oversize
<1>. QED BY <1>1, <1>4 DEF Delivery

\* Nothing of the body is left, and nothing of it has been read.
LEMMA OversizedEffect ==
    ASSUME DeliveryInv, NEW r \in Requests, DeliverOversized(r)
    PROVE  resp'[r].length = 0 /\ resp'[r].body = 0 /\ resp'[r].read = 0
<1>1. pc[r] = "returned" /\ resp[r].read = 0
    BY DEF DeliverOversized, DeliveryInv, Delivery, Measured
<1>2. resp'[r] = [resp[r] EXCEPT !.length = 0, !.body = 0]
    BY DEF DeliverOversized, DeliveryInv, ProxyInv, TypeOK
<1>3. resp[r] \in Response
    BY DEF DeliveryInv, ProxyInv, TypeOK
<1>. QED BY <1>1, <1>2, <1>3 DEF Response

LEMMA DeliverOversizedDelivery ==
    ASSUME DeliveryInv, NEW r \in Requests, DeliverOversized(r)
    PROVE  Delivery(r)'
<1>1. /\ pc'[r] = "streaming"
      /\ out'[r].sent = 0 /\ out'[r].ended = "no"
    BY DEF DeliverOversized, Answer, DeliveryInv, ProxyInv, TypeOK
<1>2. resp'[r].length = 0 /\ resp'[r].body = 0 /\ resp'[r].read = 0
    BY OversizedEffect
<1>3. Measured(r)' /\ Declared(r)' /\ Streamed(r)'
    BY <1>1, <1>2, ProxyConstants DEF Measured, Declared, Streamed
<1>. QED BY <1>1, <1>3 DEF Delivery

\* One chunk is read and written, nothing else of the exchange changes.
LEMMA CopyChunkEffect ==
    ASSUME DeliveryInv, NEW r \in Requests, CopyChunk(r)
    PROVE  /\ pc' = pc /\ pc[r] = "streaming" /\ resp[r].read < resp[r].body
           /\ resp[r].read \in Nat /\ out[r].sent \in Nat
           /\ resp'[r].read = resp[r].read + 1 /\ out'[r].sent = out[r].sent + 1
           /\ resp'[r].body = resp[r].body /\ resp'[r].length = resp[r].length
           /\ resp'[r].declared = resp[r].declared
           /\ resp'[r].loc = resp[r].loc /\ resp'[r].code = resp[r].code
           /\ out'[r].ended = out[r].ended /\ out'[r].codes = out[r].codes
           /\ out'[r].loc = out[r].loc
<1> DEFINE read == resp[r].read + 1
           sent == out[r].sent + 1
<1>1. /\ resp' = [resp EXCEPT ![r].read = read] /\ out' = [out EXCEPT ![r].sent = sent]
      /\ resp[r] \in Response /\ out[r] \in Output
      /\ resp \in [Requests -> Response] /\ out \in [Requests -> Output]
    BY DEF CopyChunk, DeliveryInv, ProxyInv, TypeOK
<1>2. /\ pc' = pc /\ pc[r] = "streaming" /\ resp[r].read < resp[r].body
      /\ resp[r].read \in Nat /\ out[r].sent \in Nat
    BY <1>1 DEF CopyChunk, Response, Output
<1> HIDE DEF read, sent
<1>3. /\ resp'[r].read = read /\ resp'[r].body = resp[r].body /\ resp'[r].length = resp[r].length
      /\ resp'[r].declared = resp[r].declared
      /\ resp'[r].loc = resp[r].loc /\ resp'[r].code = resp[r].code
    BY <1>1 DEF Response
<1>4. /\ out'[r].sent = sent /\ out'[r].ended = out[r].ended /\ out'[r].codes = out[r].codes
      /\ out'[r].loc = out[r].loc
    BY <1>1 DEF Output
<1>. QED BY <1>2, <1>3, <1>4 DEF read, sent

LEMMA CopyChunkDelivery ==
    ASSUME DeliveryInv, NEW r \in Requests, CopyChunk(r)
    PROVE  Delivery(r)'
<1>1. Measured(r) /\ Streamed(r)
    BY CopyChunkEffect DEF DeliveryInv, Delivery
<1>2. Measured(r)' /\ Declared(r)'
    BY <1>1, CopyChunkEffect, ProxyConstants DEF Measured, Declared
<1>3. Streamed(r)'
    BY <1>1, CopyChunkEffect DEF Streamed, Oversize
<1>. QED BY <1>2, <1>3, CopyChunkEffect DEF Delivery

LEMMA EndEffect ==
    ASSUME DeliveryInv, NEW r \in Requests, NEW how, End(r, how)
    PROVE  /\ pc'[r] = "done" /\ resp' = resp
           /\ out'[r].ended = how /\ out'[r].codes = out[r].codes /\ out'[r].sent = out[r].sent
<1>1. out[r] \in Output /\ out' = [out EXCEPT ![r].ended = how]
    BY DEF End, DeliveryInv, ProxyInv, TypeOK
<1>2. out'[r].ended = how /\ out'[r].codes = out[r].codes /\ out'[r].sent = out[r].sent
    BY <1>1 DEF DeliveryInv, ProxyInv, TypeOK, Output
<1>. QED BY <1>2 DEF End, DeliveryInv, ProxyInv, TypeOK

LEMMA EndDelivery ==
    ASSUME DeliveryInv, NEW r \in Requests, NEW how, End(r, how), pc[r] = "streaming"
    PROVE  Delivery(r)'
<1>1. Measured(r) /\ Streamed(r)
    BY DEF DeliveryInv, Delivery
<1>2. out[r].sent <= resp[r].body /\ out[r].sent \in Nat
    BY <1>1 DEF Measured, Streamed
<1>3. Within(r)
    BY <1>1, <1>2 DEF Streamed, Within
<1>4. Measured(r)' /\ Declared(r)' /\ Within(r)'
    BY <1>1, <1>3, EndEffect DEF Measured, Declared, Within, Oversize
<1>. QED BY <1>4, EndEffect DEF Delivery

LEMMA HandleErrorEffect ==
    ASSUME DeliveryInv, NEW r \in Requests, HandleError(r)
    PROVE  /\ pc[r] = "failed" /\ pc'[r] = "done" /\ resp' = resp
           /\ \/ /\ r \in gone
                 /\ out'[r].codes = out[r].codes /\ out'[r].sent = out[r].sent
                 /\ out'[r].ended = "silent"
              \/ /\ out'[r].codes = Append(out[r].codes, 502)
                 /\ out'[r].sent = 1 /\ out'[r].ended = "complete"
<1>1. out \in [Requests -> Output] /\ pc \in [Requests -> PCs]
    BY DEF DeliveryInv, ProxyInv, TypeOK
<1>2. pc[r] = "failed" /\ pc'[r] = "done" /\ resp' = resp
    BY <1>1 DEF HandleError
<1>3. CASE r \in gone /\ out' = [out EXCEPT ![r].ended = "silent"]
  <2>1. out'[r].codes = out[r].codes /\ out'[r].sent = out[r].sent /\ out'[r].ended = "silent"
      BY <1>1, <1>3 DEF Output
  <2>. QED BY <1>2, <1>3, <2>1
<1>4. CASE Answer(r, 502, NothingOut.loc, 1, "complete")
    BY <1>1, <1>2, <1>4 DEF Answer
<1>. QED BY <1>3, <1>4 DEF HandleError

LEMMA HandleErrorDelivery ==
    ASSUME DeliveryInv, NEW r \in Requests, HandleError(r)
    PROVE  Delivery(r)'
<1>1. Measured(r) /\ resp[r].declared = 0
    BY HandleErrorEffect DEF DeliveryInv, Delivery, Declared
<1>2. Measured(r)' /\ Declared(r)'
    BY <1>1, HandleErrorEffect DEF Measured, Declared
<1>3. Within(r)'
    BY <1>1, HandleErrorEffect, ProxyConstants DEF Within, Oversize
<1>. QED BY <1>2, <1>3, HandleErrorEffect DEF Delivery

\* Every step of an exchange keeps its part of the invariant.
LEMMA ExchangeDelivery ==
    ASSUME DeliveryInv, NEW r \in Requests, Step(r)
    PROVE  Delivery(r)'
<1> USE DEF DeliveryInv, ProxyInv, TypeOK
<1>1. ASSUME NEW method \in ForwardedMethods, NEW host \in ProxyableHosts, NEW names \in {{}, HeaderNames},
             Begin(r, method, host, names)
      PROVE  Delivery(r)'
    BY <1>1, Waiting DEF Begin, Send
<1>2. CASE Upload(r)
    BY <1>2, SameDelivery DEF Upload
<1>3. CASE Informational(r)
    BY <1>3, InformationalDelivery
<1>4. CASE Answered(r)
    BY <1>4, RespondDelivery DEF Answered
<1>5. CASE TransportError(r) \/ HeaderTimeout(r) \/ Cancelled(r)
    BY <1>5, Waiting DEF TransportError, HeaderTimeout, Cancelled
<1>6. CASE ReturnResponse(r) \/ RefuseHop(r)
    BY <1>6, Waiting DEF ReturnResponse, RefuseHop
<1>7. CASE FollowHop(r)
    BY <1>7, Waiting DEF FollowHop, Send
<1>8. CASE Deliver(r)
    BY <1>8, DeliverDelivery
<1>9. CASE DeliverOversized(r)
    BY <1>9, DeliverOversizedDelivery
<1>10. CASE CopyChunk(r)
    BY <1>10, CopyChunkDelivery
<1>11. CASE FinishCopy(r)
    BY <1>11, EndDelivery DEF FinishCopy
<1>12. CASE AbortCopy(r)
    BY <1>12, EndDelivery DEF AbortCopy
<1>13. CASE HandleError(r)
    BY <1>13, HandleErrorDelivery
<1>14. CASE Hangup(r)
    BY <1>14, SameDelivery DEF Hangup
<1>. QED BY <1>1, <1>2, <1>3, <1>4, <1>5, <1>6, <1>7, <1>8, <1>9, <1>10, <1>11, <1>12, <1>13, <1>14
         DEF Step

LEMMA DeliveryStep == DeliveryInv /\ [Next]_vars => DeliveryInv'
<1> SUFFICES ASSUME DeliveryInv, [Next]_vars PROVE DeliveryInv'
    OBVIOUS
<1>1. ProxyInv'
    BY ProxyStep DEF DeliveryInv
<1>2. ASSUME NEW r \in Requests, Step(r) PROVE \A x \in Requests : Delivery(x)'
    BY <1>2, StepApart, ExchangeDelivery, OthersDelivery DEF DeliveryInv
<1>3. ASSUME Rotate \/ UNCHANGED vars PROVE \A x \in Requests : Delivery(x)'
    BY <1>3, SameDelivery DEF Rotate, vars
<1>. QED BY <1>1, <1>2, <1>3 DEF Next, AllDone, DeliveryInv

\* Of a body whose declared length is over the limit no chunk is sent, for every
\* limit and every length, whatever hops came before and however the exchange ends.
THEOREM SizeLimitCorrect == Spec => []DeclaredOversizeNotStreamed
<1>1. DeliveryInv => DeclaredOversizeNotStreamed
  <2> SUFFICES ASSUME DeliveryInv, NEW r \in Requests, Oversize(r) PROVE out[r].sent = 0
      BY DEF DeclaredOversizeNotStreamed, Oversize
  <2>1. CASE pc[r] = "streaming"
      BY <2>1 DEF DeliveryInv, Delivery, Measured, Streamed
  <2>2. CASE pc[r] = "done"
      BY <2>2 DEF DeliveryInv, Delivery, Within
  <2>3. CASE pc[r] \notin {"streaming", "done"}
      BY <2>3 DEF DeliveryInv, Delivery, Unanswered
  <2>. QED BY <2>1, <2>2, <2>3
<1>. QED BY <1>1, DeliveryInit, DeliveryStep, PTL DEF Spec

-----------------------------------------------------------------------------
(* Redirects that are handed back. *)

ComesBack(r) ==
    pc[r] = "streaming" =>
        CASE out[r].loc.base = "self" ->
                /\ out[r].loc.url \in URL
                /\ out[r].loc.url = IF resp[r].loc.kind = "relative"
                                    THEN Last(trail[r]).url ELSE resp[r].loc.url
          [] out[r].loc.base = "direct" ->
                out[r].loc.url = Last(trail[r]).url /\ resp[r].body = 0
          [] out[r].loc.base = "untouched" ->
                ~IsRedirect(Last(out[r].codes)) \/ resp[r].loc.kind = "malformed"
          [] OTHER -> resp[r].loc.kind = "absent"

ReturnInv == DeliveryInv /\ ChainInv /\ \A r \in Requests : ComesBack(r)

\* The last entry of the trail is the request in hand.
LEMMA LastHop ==
    ASSUME ChainInv, NEW r \in Requests, pc[r] # "idle"
    PROVE  Last(trail[r]).url = req[r].url
<1>1. /\ Len(trail[r]) = req[r].hops /\ req[r].hops # 0
      /\ req[r].hops > 0 => trail[r][req[r].hops] = [url |-> req[r].url, header |-> req[r].header]
    BY DEF ChainInv, TrailMatches
<1>2. req[r].hops \in Nat
    BY DEF ChainInv, ProxyInv, TypeOK, Request
<1>3. trail[r][req[r].hops] = [url |-> req[r].url, header |-> req[r].header]
    BY <1>1, <1>2
<1>. QED BY <1>1, <1>3 DEF Last

LEMMA LastAppended ==
    ASSUME NEW S, NEW s \in Seq(S), NEW e \in S
    PROVE  Append(s, e) # <<>> /\ Last(Append(s, e)) = e
BY DEF Last

LEMMA DeliverReturns ==
    ASSUME ReturnInv, NEW r \in Requests, Deliver(r)
    PROVE  ComesBack(r)'
<1>1. /\ pc[r] = "returned" /\ resp' = resp /\ req' = req /\ trail' = trail
      /\ out'[r].codes = Append(out[r].codes, resp[r].code) /\ out'[r].loc = HandedBack(r)
    BY DEF Deliver, Answer, ReturnInv, DeliveryInv, ProxyInv, TypeOK
<1>2. /\ resp[r].loc \in Location /\ req[r].url \in URL
      /\ out[r].codes \in Seq(100 .. 599) /\ resp[r].code \in 100 .. 599
  <2>1. resp[r].code \in 200 .. 599
      BY ZenonT(40), <1>1, ProxyConstants DEF ReturnInv, DeliveryInv, ProxyInv, AnswerPresent
  <2>. QED BY <1>1, <2>1 DEF ReturnInv, DeliveryInv, ProxyInv, TypeOK, Response, Output, Statuses
<1>3. Last(out'[r].codes) = resp[r].code
  <2> DEFINE S == 100 .. 599
  <2>1. out[r].codes \in Seq(S) /\ resp[r].code \in S
      BY <1>2
  <2> HIDE DEF S
  <2>2. Last(Append(out[r].codes, resp[r].code)) = resp[r].code
      BY <2>1, LastAppended
  <2>. QED BY <1>1, <2>2
<1>4. Last(trail'[r]).url = req[r].url
    BY <1>1, LastHop DEF ReturnInv
<1>5. resp[r].loc.kind \in {"absent", "malformed", "relative", "absolute"}
    BY <1>2 DEF Location
<1>6. CASE resp[r].loc.kind = "absent"
    BY <1>1, <1>6 DEF ComesBack, HandedBack
<1>7. CASE resp[r].loc.kind = "malformed" \/ (resp[r].loc.kind # "absent" /\ ~IsRedirect(resp[r].code))
    BY <1>1, <1>3, <1>7 DEF ComesBack, HandedBack
<1>8. CASE resp[r].loc.kind \in {"relative", "absolute"} /\ IsRedirect(resp[r].code)
  <2>1. NextURL(r) \in URL
      BY <1>2, <1>8, NextURLType DEF NextURL
  <2>2. NextURL(r) = IF resp[r].loc.kind = "relative" THEN req[r].url ELSE resp[r].loc.url
      BY DEF NextURL, Resolve
  <2>3. HandedBack(r) = [base |-> "self", url |-> NextURL(r)]
      BY <1>8 DEF HandedBack
  <2>. QED BY <1>1, <1>4, <2>1, <2>2, <2>3 DEF ComesBack
<1>. QED BY <1>5, <1>6, <1>7, <1>8

LEMMA DeliverOversizedReturns ==
    ASSUME ReturnInv, NEW r \in Requests, DeliverOversized(r)
    PROVE  ComesBack(r)'
<1>0. resp'[r].body = 0
    BY OversizedEffect DEF ReturnInv
<1>1. /\ pc[r] = "returned" /\ trail' = trail
      /\ out'[r].loc = [base |-> "direct", url |-> req[r].url]
    BY DEF DeliverOversized, Answer, ReturnInv, DeliveryInv, ProxyInv, TypeOK
<1>2. Last(trail'[r]).url = req[r].url
    BY <1>1, LastHop DEF ReturnInv
<1>. QED BY <1>0, <1>1, <1>2 DEF ComesBack

LEMMA CopyChunkReturns ==
    ASSUME ReturnInv, NEW r \in Requests, CopyChunk(r)
    PROVE  ComesBack(r)'
<1>1. ComesBack(r) /\ DeliveryInv
    BY DEF ReturnInv
<1>2. /\ pc' = pc /\ trail' = trail
      /\ resp'[r].body = resp[r].body /\ resp'[r].loc = resp[r].loc
      /\ out'[r].loc = out[r].loc /\ out'[r].codes = out[r].codes
    BY <1>1, CopyChunkEffect DEF CopyChunk
<1>. QED BY <1>1, <1>2 DEF ComesBack

LEMMA ReturnStep == ReturnInv /\ [Next]_vars => ReturnInv'
<1> SUFFICES ASSUME ReturnInv, [Next]_vars PROVE ReturnInv'
    OBVIOUS
<1>1. DeliveryInv' /\ ChainInv'
    BY DeliveryStep, ChainStep DEF ReturnInv
<1>2. ASSUME NEW r \in Requests, Step(r) PROVE \A x \in Requests : ComesBack(x)'
  <2> TAKE x \in Requests
  <2>1. CASE x # r
    <3>1. pc'[x] = pc[x] /\ resp'[x] = resp[x] /\ out'[x] = out[x] /\ trail'[x] = trail[x]
        BY <1>2, <2>1, StepApart DEF Apart, ReturnInv, DeliveryInv
    <3>. QED BY <3>1 DEF ReturnInv, ComesBack
  <2>2. CASE x = r
    <3> USE DEF ReturnInv, DeliveryInv, ProxyInv, TypeOK
    <3>1. CASE Deliver(r)
        BY <2>2, <3>1, DeliverReturns
    <3>2. CASE DeliverOversized(r)
        BY <2>2, <3>2, DeliverOversizedReturns
    <3>3. CASE CopyChunk(r)
        BY <2>2, <3>3, CopyChunkReturns
    <3>4. CASE Upload(r) \/ Hangup(r)
        BY <2>2, <3>4 DEF Upload, Hangup, ComesBack
    <3>5. CASE Informational(r) \/ TransportError(r) \/ HeaderTimeout(r) \/ Cancelled(r) \/ Answered(r)
        BY <2>2, <3>5 DEF Informational, TransportError, HeaderTimeout, Cancelled, Answered, Respond, ComesBack
    <3>6. CASE ReturnResponse(r) \/ RefuseHop(r) \/ HandleError(r)
        BY <2>2, <3>6 DEF ReturnResponse, RefuseHop, HandleError, ComesBack
    <3>7. CASE FinishCopy(r) \/ AbortCopy(r)
        BY <2>2, <3>7 DEF FinishCopy, AbortCopy, End, ComesBack
    <3>8. CASE FollowHop(r)
        BY <2>2, <3>8 DEF FollowHop, Send, ComesBack
    <3>9. ASSUME NEW method \in ForwardedMethods, NEW host \in ProxyableHosts, NEW names \in {{}, HeaderNames},
                 Begin(r, method, host, names)
          PROVE  ComesBack(x)'
        BY <2>2, <3>9 DEF Begin, Send, ComesBack
    <3>. QED BY <1>2, <3>1, <3>2, <3>3, <3>4, <3>5, <3>6, <3>7, <3>8, <3>9 DEF Step
  <2>. QED BY <2>1, <2>2
<1>3. ASSUME Rotate \/ UNCHANGED vars PROVE \A x \in Requests : ComesBack(x)'
    BY <1>3 DEF Rotate, vars, ReturnInv, ComesBack
<1>. QED BY <1>1, <1>2, <1>3 DEF Next, AllDone, ReturnInv

\* A redirect handed back leads through the proxy to the URL GitHub meant,
\* relative to the hop that answered; only a body over the limit sends the client
\* to GitHub itself.
THEOREM RedirectsCorrect == Spec => []RedirectsComeBack
<1>1. Init => ReturnInv
  <2>1. Init => \A r \in Requests : ComesBack(r)
      BY DEF Init, ComesBack
  <2>. QED BY <2>1, DeliveryInit, ChainInit DEF ReturnInv
<1>2. ReturnInv => RedirectsComeBack
    BY DEF ReturnInv, ComesBack, RedirectsComeBack
<1>. QED BY <1>1, <1>2, ReturnStep, PTL DEF Spec

-----------------------------------------------------------------------------
(***************************************************************************)
(* The refinement.  Each variable of Exchange is a function of the state,  *)
(* and a step of exchange r changes it at r at most.                       *)
(***************************************************************************)
Owed(r) == IF pc[r] = "streaming" THEN resp[r].body - resp[r].read ELSE 0

SeenPhase == [r \in Requests |-> ClientPhase(r)]
SeenCode == [r \in Requests |-> FinalCode(r)]
SeenOwed == [r \in Requests |-> IF pc[r] = "streaming" THEN resp[r].body - resp[r].read ELSE 0]
SeenSent == [r \in Requests |-> out[r].sent]
SeenCut == {r \in Requests : out[r].ended = "aborted"}

LEMMA View ==
    ASSUME NEW r \in Requests, Apart(r)
    PROVE  /\ SeenPhase' = [SeenPhase EXCEPT ![r] = ClientPhase(r)']
           /\ SeenCode' = [SeenCode EXCEPT ![r] = FinalCode(r)']
           /\ SeenOwed' = [SeenOwed EXCEPT ![r] = Owed(r)']
           /\ SeenSent' = [SeenSent EXCEPT ![r] = out'[r].sent]
           /\ (out'[r].ended = "aborted" <=> out[r].ended = "aborted") => SeenCut' = SeenCut
           /\ out'[r].ended = "aborted" => SeenCut' = SeenCut \cup {r}
<1> USE DEF Apart
<1>1. \A x \in Requests \ {r} : /\ ClientPhase(x)' = ClientPhase(x) /\ FinalCode(x)' = FinalCode(x)
                                 /\ Owed(x)' = Owed(x)
    BY DEF ClientPhase, FinalCode, Owed
<1>2. SeenPhase' = [SeenPhase EXCEPT ![r] = ClientPhase(r)']
    BY <1>1 DEF SeenPhase
<1>3. SeenCode' = [SeenCode EXCEPT ![r] = FinalCode(r)']
    BY <1>1 DEF SeenCode
<1>4. SeenOwed' = [SeenOwed EXCEPT ![r] = Owed(r)']
    BY <1>1 DEF SeenOwed, Owed
<1>5. SeenSent' = [SeenSent EXCEPT ![r] = out'[r].sent]
    BY DEF SeenSent
<1>6. /\ (out'[r].ended = "aborted" <=> out[r].ended = "aborted") => SeenCut' = SeenCut
      /\ out'[r].ended = "aborted" => SeenCut' = SeenCut \cup {r}
    BY DEF SeenCut
<1>. QED BY <1>2, <1>3, <1>4, <1>5, <1>6

\* A step that none of them shows.
LEMMA Quiet ==
    ASSUME NEW r \in Requests, Apart(r), gone' = gone,
           ClientPhase(r)' = ClientPhase(r), FinalCode(r)' = FinalCode(r), Owed(r)' = Owed(r),
           out'[r].sent = out[r].sent, out'[r].ended = "aborted" <=> out[r].ended = "aborted"
    PROVE  UNCHANGED X!vars
<1>1. SeenPhase' = SeenPhase /\ SeenCode' = SeenCode /\ SeenOwed' = SeenOwed /\ SeenSent' = SeenSent
  <2>1. /\ SeenPhase' = [SeenPhase EXCEPT ![r] = ClientPhase(r)]
        /\ SeenCode' = [SeenCode EXCEPT ![r] = FinalCode(r)]
        /\ SeenOwed' = [SeenOwed EXCEPT ![r] = Owed(r)]
        /\ SeenSent' = [SeenSent EXCEPT ![r] = out[r].sent]
      BY View
  <2>2. [SeenPhase EXCEPT ![r] = ClientPhase(r)] = SeenPhase
      BY DEF SeenPhase
  <2>3. [SeenCode EXCEPT ![r] = FinalCode(r)] = SeenCode
      BY DEF SeenCode
  <2>4. [SeenOwed EXCEPT ![r] = Owed(r)] = SeenOwed
      BY DEF SeenOwed, Owed
  <2>5. [SeenSent EXCEPT ![r] = out[r].sent] = SeenSent
      BY DEF SeenSent
  <2>. QED BY <2>1, <2>2, <2>3, <2>4, <2>5
<1>2. SeenCut' = SeenCut
    BY View
<1>. QED BY <1>1, <1>2 DEF X!vars, SeenPhase, SeenCode, SeenOwed, SeenSent, SeenCut

\* What the client has seen before the answer, and with it.
LEMMA SmallLast ==
    ASSUME NEW s \in Statuses, \A i \in DOMAIN s : s[i] < 200
    PROVE  ~(s # <<>> /\ Last(s) >= 200)
<1>1. \A n \in 100 .. 599 : n < 200 => ~(n >= 200)
    OBVIOUS
<1>2. s # <<>> => Len(s) \in DOMAIN s /\ s[Len(s)] \in 100 .. 599
    BY DEF Statuses
<1>3. s # <<>> => ~(s[Len(s)] >= 200)
    BY <1>1, <1>2, Zenon
<1>. QED BY <1>3 DEF Last

LEMMA NoCodeYet ==
    ASSUME TypeOK, NEW r \in Requests, Unanswered(r)
    PROVE  FinalCode(r) = 0
BY SmallLast DEF TypeOK, Output, Unanswered, FinalCode

LEMMA CodeAppended ==
    ASSUME TypeOK, NEW r \in Requests, NEW c \in 200 .. 599, out'[r].codes = Append(out[r].codes, c)
    PROVE  FinalCode(r)' = c
<1> DEFINE S == 100 .. 599
<1>1. out[r].codes \in Seq(S) /\ c \in S
    BY DEF TypeOK, Output, Statuses
<1> HIDE DEF S
<1>2. Append(out[r].codes, c) # <<>> /\ Last(Append(out[r].codes, c)) = c
    BY <1>1, LastAppended
<1>3. out'[r].codes # <<>> /\ Last(out'[r].codes) = c /\ c >= 200
    BY <1>2
<1>. QED BY <1>3 DEF FinalCode, Last

\* Steps behind the client's back.
LEMMA QuietSteps ==
    ASSUME DeliveryInv, NEW r \in Requests, Apart(r), pc[r] \notin {"idle", "streaming", "done"},
           pc'[r] \notin {"idle", "streaming", "done"}, out'[r] = out[r], gone' = gone
    PROVE  UNCHANGED X!vars
<1>1. /\ ClientPhase(r)' = ClientPhase(r) /\ FinalCode(r)' = FinalCode(r) /\ Owed(r)' = Owed(r)
      /\ out'[r].sent = out[r].sent /\ (out'[r].ended = "aborted" <=> out[r].ended = "aborted")
    BY DEF ClientPhase, FinalCode, Owed
<1>. QED BY <1>1, Quiet

LEMMA InformationalIsQuiet ==
    ASSUME DeliveryInv, NEW r \in Requests, Informational(r), Apart(r)
    PROVE  UNCHANGED X!vars
<1>1. pc[r] = "sent" /\ pc' = pc /\ gone' = gone
    BY DEF Informational
<1>2. Unanswered(r)
    BY <1>1 DEF DeliveryInv, Delivery
<1>3. Unanswered(r)'
    BY <1>1, InformationalDelivery DEF Delivery
<1>4. TypeOK /\ TypeOK'
    BY ProxyStep DEF DeliveryInv, ProxyInv, Next, Step
<1>5. FinalCode(r) = 0 /\ FinalCode(r)' = 0
  <2>1. FinalCode(r)' = 0
      BY <1>3, <1>4, SmallLast DEF TypeOK, Output, Unanswered, FinalCode
  <2>. QED BY <1>2, <1>4, <2>1, NoCodeYet
<1>. QED BY <1>1, <1>2, <1>3, <1>5, Quiet DEF ClientPhase, Owed, Unanswered

LEMMA BeginAsks ==
    ASSUME DeliveryInv, NEW r \in Requests, Apart(r), pc[r] = "idle", pc'[r] = "sent",
           resp' = resp, out' = out, gone' = gone
    PROVE  X!Ask(r)
<1>1. /\ ClientPhase(r) = "idle" /\ ClientPhase(r)' = "waiting"
      /\ FinalCode(r)' = FinalCode(r) /\ Owed(r) = 0 /\ Owed(r)' = 0
    BY DEF ClientPhase, FinalCode, Owed
<1>2. SeenPhase[r] = "idle" /\ SeenPhase' = [SeenPhase EXCEPT ![r] = "waiting"]
    BY <1>1, View DEF SeenPhase
<1>3. SeenCode' = SeenCode /\ SeenSent' = SeenSent /\ SeenCut' = SeenCut
    BY DEF SeenCode, SeenSent, SeenCut, FinalCode
<1>4. SeenOwed' = SeenOwed
  <2>1. SeenOwed' = [SeenOwed EXCEPT ![r] = 0]
      BY <1>1, View
  <2>. QED BY <1>1, <2>1 DEF SeenOwed, Owed
<1>. QED BY <1>2, <1>3, <1>4 DEF X!Ask, X!Moves, SeenPhase, SeenCode, SeenOwed, SeenSent, SeenCut

\* The answer, one of GitHub's or the 302 for a body over the limit.
LEMMA DeliverAnswers ==
    ASSUME DeliveryInv, NEW r \in Requests, Apart(r), gone' = gone,
           pc[r] = "returned", pc'[r] = "streaming", FinalCode(r)' \in Codes \cup {302},
           out'[r].sent = 0, out'[r].ended = "no", Owed(r)' \in 0 .. MaxBody
    PROVE  X!Next
<1>1. ClientPhase(r) = "waiting" /\ ClientPhase(r)' = "answering"
    BY DEF ClientPhase
<1>2. out[r].sent = 0 /\ out[r].ended = "no"
    BY DEF DeliveryInv, Delivery, Unanswered
<1>3. SeenPhase[r] = "waiting" /\ SeenPhase' = [SeenPhase EXCEPT ![r] = "answering"]
    BY <1>1, View DEF SeenPhase
<1>4. SeenCode' = [SeenCode EXCEPT ![r] = FinalCode(r)'] /\ SeenOwed' = [SeenOwed EXCEPT ![r] = Owed(r)']
    BY View
<1>5. SeenSent' = SeenSent /\ SeenCut' = SeenCut
  <2>1. SeenSent' = [SeenSent EXCEPT ![r] = out[r].sent] /\ SeenCut' = SeenCut
      BY <1>2, View
  <2>2. [SeenSent EXCEPT ![r] = out[r].sent] = SeenSent
      BY DEF SeenSent
  <2>. QED BY <2>1, <2>2
<1>6. \E c \in Codes \cup {302}, n \in 0 .. MaxBody : X!Answer(r, c, n)
    BY ZenonT(40), <1>3, <1>4, <1>5 DEF X!Answer, X!Moves, SeenPhase, SeenCode, SeenOwed, SeenSent, SeenCut
<1>. QED BY <1>6 DEF X!Next

LEMMA CopyChunkWrites ==
    ASSUME DeliveryInv, NEW r \in Requests, Apart(r), CopyChunk(r)
    PROVE  X!Write(r)
<1>1. /\ pc' = pc /\ pc[r] = "streaming" /\ gone' = gone
      /\ FinalCode(r)' = FinalCode(r) /\ ClientPhase(r)' = ClientPhase(r)
      /\ ClientPhase(r) = "answering"
      /\ out'[r].sent = out[r].sent + 1 /\ out'[r].ended = out[r].ended
  <2>1. /\ pc' = pc /\ pc[r] = "streaming" /\ gone' = gone
        /\ out'[r].sent = out[r].sent + 1 /\ out'[r].ended = out[r].ended
        /\ out'[r].codes = out[r].codes
      BY CopyChunkEffect DEF CopyChunk
  <2>2. FinalCode(r)' = FinalCode(r)
      BY <2>1 DEF FinalCode, Last
  <2>3. ClientPhase(r)' = ClientPhase(r) /\ ClientPhase(r) = "answering"
      BY <2>1 DEF ClientPhase
  <2>. QED BY <2>1, <2>2, <2>3
<1>2. resp[r].body \in Nat /\ resp[r].read \in Nat
    BY DEF DeliveryInv, ProxyInv, TypeOK, Response
<1>3. Owed(r) > 0 /\ Owed(r)' = Owed(r) - 1
    BY <1>1, <1>2, CopyChunkEffect DEF Owed
<1>4. SeenPhase' = SeenPhase /\ SeenCode' = SeenCode /\ SeenCut' = SeenCut /\ SeenPhase[r] = "answering"
  <2>1. /\ SeenPhase' = [SeenPhase EXCEPT ![r] = ClientPhase(r)]
        /\ SeenCode' = [SeenCode EXCEPT ![r] = FinalCode(r)] /\ SeenCut' = SeenCut
      BY <1>1, View
  <2>2. [SeenPhase EXCEPT ![r] = ClientPhase(r)] = SeenPhase /\ SeenPhase[r] = "answering"
      BY <1>1 DEF SeenPhase
  <2>3. [SeenCode EXCEPT ![r] = FinalCode(r)] = SeenCode
      BY DEF SeenCode
  <2>. QED BY <2>1, <2>2, <2>3
<1>5. /\ SeenOwed' = [SeenOwed EXCEPT ![r] = @ - 1] /\ SeenOwed[r] > 0
      /\ SeenSent' = [SeenSent EXCEPT ![r] = @ + 1]
  <2>1. SeenOwed' = [SeenOwed EXCEPT ![r] = Owed(r) - 1] /\ SeenSent' = [SeenSent EXCEPT ![r] = out[r].sent + 1]
      BY <1>1, <1>3, View
  <2>2. SeenOwed[r] = Owed(r) /\ SeenSent[r] = out[r].sent
      BY DEF SeenOwed, SeenSent, Owed
  <2>. QED BY <1>3, <2>1, <2>2
<1>. QED BY <1>1, <1>4, <1>5 DEF X!Write, SeenPhase, SeenCode, SeenOwed, SeenSent, SeenCut

\* The end of the copy.
LEMMA EndView ==
    ASSUME DeliveryInv, NEW r \in Requests, Apart(r), NEW how \in {"complete", "aborted"},
           pc[r] = "streaming", End(r, how)
    PROVE  /\ SeenPhase[r] = "answering" /\ SeenPhase' = [SeenPhase EXCEPT ![r] = "over"]
           /\ SeenCode' = SeenCode /\ SeenSent' = SeenSent
           /\ SeenOwed' = [SeenOwed EXCEPT ![r] = 0]
           /\ SeenCut' = IF how = "aborted" THEN SeenCut \cup {r} ELSE SeenCut
<1>1. /\ ClientPhase(r) = "answering" /\ ClientPhase(r)' = "over" /\ Owed(r)' = 0
      /\ FinalCode(r)' = FinalCode(r) /\ out'[r].sent = out[r].sent /\ out'[r].ended = how
    BY EndEffect DEF ClientPhase, Owed, FinalCode
<1>2. out[r].ended = "no"
    BY DEF DeliveryInv, Delivery, Streamed
<1>3. SeenPhase[r] = "answering" /\ SeenPhase' = [SeenPhase EXCEPT ![r] = "over"]
    BY <1>1, View DEF SeenPhase
<1>4. SeenCode' = SeenCode /\ SeenSent' = SeenSent
  <2>1. SeenCode' = [SeenCode EXCEPT ![r] = FinalCode(r)] /\ SeenSent' = [SeenSent EXCEPT ![r] = out[r].sent]
      BY <1>1, View
  <2>. QED BY <2>1 DEF SeenCode, SeenSent
<1>5. SeenOwed' = [SeenOwed EXCEPT ![r] = 0]
    BY <1>1, View
<1>6. SeenCut' = IF how = "aborted" THEN SeenCut \cup {r} ELSE SeenCut
    BY <1>1, <1>2, View
<1>. QED BY <1>3, <1>4, <1>5, <1>6

LEMMA FinishCompletes ==
    ASSUME DeliveryInv, NEW r \in Requests, Apart(r), FinishCopy(r)
    PROVE  X!Complete(r)
<1>1. /\ SeenPhase[r] = "answering" /\ SeenPhase' = [SeenPhase EXCEPT ![r] = "over"]
      /\ SeenCode' = SeenCode /\ SeenSent' = SeenSent /\ SeenOwed' = [SeenOwed EXCEPT ![r] = 0]
      /\ SeenCut' = SeenCut
    BY EndView DEF FinishCopy
<1>2. SeenOwed[r] = 0
  <2>1. resp[r].read = resp[r].body /\ resp[r].body \in Nat
      BY DEF FinishCopy, DeliveryInv, ProxyInv, TypeOK, Response
  <2>. QED BY <2>1 DEF SeenOwed
<1>3. SeenOwed' = SeenOwed
    BY <1>1, <1>2 DEF SeenOwed
<1>4. gone' = gone
    BY DEF FinishCopy, End
<1>. QED BY <1>1, <1>2, <1>3, <1>4 DEF X!Complete, X!Moves, SeenPhase, SeenCode, SeenOwed, SeenSent, SeenCut

LEMMA AbortCuts ==
    ASSUME DeliveryInv, NEW r \in Requests, Apart(r), AbortCopy(r)
    PROVE  X!Cut(r)
<1>1. /\ SeenPhase[r] = "answering" /\ SeenPhase' = [SeenPhase EXCEPT ![r] = "over"]
      /\ SeenCode' = SeenCode /\ SeenSent' = SeenSent /\ SeenOwed' = [SeenOwed EXCEPT ![r] = 0]
      /\ SeenCut' = SeenCut \cup {r}
    BY EndView DEF AbortCopy
<1>2. gone' = gone
    BY DEF AbortCopy, End
<1>. QED BY <1>1, <1>2 DEF X!Cut, X!Moves, SeenPhase, SeenCode, SeenOwed, SeenSent, SeenCut

\* errorHandler: a 502, or nothing for a client that is gone.
LEMMA HandleErrorAnswers ==
    ASSUME DeliveryInv, NEW r \in Requests, Apart(r), HandleError(r)
    PROVE  X!Fail(r) \/ X!Abandon(r)
<1>1. pc[r] = "failed" /\ pc'[r] = "done" /\ gone' = gone
    BY HandleErrorEffect DEF HandleError
<1>2. out[r].sent = 0 /\ out[r].ended = "no"
    BY <1>1 DEF DeliveryInv, Delivery, Unanswered
<1>3. /\ ClientPhase(r) = "waiting" /\ ClientPhase(r)' = "over" /\ Owed(r) = 0 /\ Owed(r)' = 0
    BY <1>1 DEF ClientPhase, Owed
<1>4. SeenPhase[r] = "waiting" /\ SeenPhase' = [SeenPhase EXCEPT ![r] = "over"]
    BY <1>3, View DEF SeenPhase
<1>5. SeenOwed' = SeenOwed
  <2>1. SeenOwed' = [SeenOwed EXCEPT ![r] = 0]
      BY <1>3, View
  <2>. QED BY <1>3, <2>1 DEF SeenOwed, Owed
<1>6. CASE /\ r \in gone /\ out'[r].codes = out[r].codes
           /\ out'[r].sent = out[r].sent /\ out'[r].ended = "silent"
  <2>1. FinalCode(r)' = FinalCode(r) /\ out'[r].sent = out[r].sent /\ out'[r].ended # "aborted"
      BY <1>6 DEF FinalCode
  <2>2. SeenCode' = SeenCode /\ SeenSent' = SeenSent /\ SeenCut' = SeenCut
    <3>1. /\ SeenCode' = [SeenCode EXCEPT ![r] = FinalCode(r)]
          /\ SeenSent' = [SeenSent EXCEPT ![r] = out[r].sent] /\ SeenCut' = SeenCut
        BY <1>2, <2>1, View
    <3>. QED BY <3>1 DEF SeenCode, SeenSent
  <2>. QED BY <1>1, <1>4, <1>5, <1>6, <2>2
           DEF X!Abandon, X!Moves, SeenPhase, SeenCode, SeenOwed, SeenSent, SeenCut
<1>7. CASE /\ out'[r].codes = Append(out[r].codes, 502)
           /\ out'[r].sent = 1 /\ out'[r].ended = "complete"
  <2>1. FinalCode(r)' = 502 /\ out'[r].sent = 1 /\ out'[r].ended # "aborted"
    <3>1. PICK c \in 200 .. 599 : c = 502
        OBVIOUS
    <3>2. out'[r].codes = Append(out[r].codes, c) /\ out'[r].sent = 1 /\ out'[r].ended = "complete"
        BY <1>7, <3>1
    <3>3. TypeOK
        BY DEF DeliveryInv, ProxyInv
    <3>4. FinalCode(r)' = c
        BY <3>2, <3>3, CodeAppended
    <3>. QED BY <3>1, <3>2, <3>4
  <2>2. /\ SeenCode' = [SeenCode EXCEPT ![r] = 502] /\ SeenSent' = [SeenSent EXCEPT ![r] = 1]
        /\ SeenCut' = SeenCut
      BY <1>2, <2>1, View
  <2>. QED BY <1>1, <1>4, <1>5, <2>2
           DEF X!Fail, X!Moves, SeenPhase, SeenCode, SeenOwed, SeenSent, SeenCut
<1>. QED BY <1>6, <1>7, HandleErrorEffect

LEMMA HangupIsHangup ==
    ASSUME DeliveryInv, NEW r \in Requests, Hangup(r)
    PROVE  X!Hangup(r)
<1>1. /\ SeenPhase' = SeenPhase /\ SeenCode' = SeenCode /\ SeenOwed' = SeenOwed
      /\ SeenSent' = SeenSent /\ SeenCut' = SeenCut
    BY DEF Hangup, SeenPhase, SeenCode, SeenOwed, SeenSent, SeenCut, ClientPhase, FinalCode
<1>2. SeenPhase[r] \in {"waiting", "answering"}
    BY DEF Hangup, SeenPhase, ClientPhase
<1>3. gone' = gone \cup {r}
    BY DEF Hangup
<1>. QED BY <1>1, <1>2, <1>3 DEF X!Hangup, SeenPhase, SeenCode, SeenOwed, SeenSent, SeenCut

\* Each step of an exchange is a step of Exchange or shows nothing.
LEMMA StepImplements ==
    ASSUME DeliveryInv, NEW r \in Requests, Step(r)
    PROVE  X!Next \/ UNCHANGED X!vars
<1>0. Apart(r) /\ pc \in [Requests -> PCs]
    BY StepApart DEF DeliveryInv, ProxyInv, TypeOK
<1>1. ASSUME NEW method \in ForwardedMethods, NEW host \in ProxyableHosts, NEW names \in {{}, HeaderNames},
             Begin(r, method, host, names)
      PROVE  X!Ask(r)
    BY <1>0, <1>1, BeginAsks DEF Begin, Send
<1>2. CASE Upload(r)
    BY <1>0, <1>2, Quiet DEF Upload, ClientPhase, FinalCode, Owed
<1>3. CASE Informational(r)
    BY <1>0, <1>3, InformationalIsQuiet
<1>4. CASE Answered(r)
    BY <1>0, <1>4, QuietSteps DEF Answered, Respond
<1>5. CASE TransportError(r) \/ HeaderTimeout(r) \/ Cancelled(r)
    BY <1>0, <1>5, QuietSteps DEF TransportError, HeaderTimeout, Cancelled
<1>6. CASE ReturnResponse(r) \/ RefuseHop(r)
    BY <1>0, <1>6, QuietSteps DEF ReturnResponse, RefuseHop
<1>7. CASE FollowHop(r)
    BY <1>0, <1>7, QuietSteps DEF FollowHop, Send
<1>8. CASE Deliver(r)
  <2>1. /\ pc[r] = "returned" /\ pc'[r] = "streaming" /\ resp' = resp /\ gone' = gone
        /\ out'[r].codes = Append(out[r].codes, resp[r].code)
        /\ out'[r].sent = 0 /\ out'[r].ended = "no"
    <3>1. out \in [Requests -> Output]
        BY DEF DeliveryInv, ProxyInv, TypeOK
    <3>. QED BY <1>0, <1>8, <3>1 DEF Deliver, Answer
  <2>2. resp[r].code \in Codes /\ resp[r].code \in 200 .. 599
      BY ZenonT(40), <2>1, ProxyConstants DEF DeliveryInv, ProxyInv, AnswerPresent
  <2>3. Owed(r)' = resp[r].body /\ resp[r].body \in 0 .. MaxBody
      BY <2>1, ProxyConstants DEF Owed, DeliveryInv, Delivery, Measured
  <2>4. FinalCode(r)' = resp[r].code
    <3>1. PICK k \in 200 .. 599 : k = resp[r].code
        BY <2>2
    <3>2. out'[r].codes = Append(out[r].codes, k)
        BY <2>1, <3>1
    <3>. QED BY <1>0, <3>1, <3>2, CodeAppended DEF DeliveryInv, ProxyInv
  <2>. QED BY <1>0, <2>1, <2>2, <2>3, <2>4, DeliverAnswers
<1>9. CASE DeliverOversized(r)
  <2>1. /\ pc[r] = "returned" /\ pc'[r] = "streaming" /\ gone' = gone
        /\ out'[r].codes = Append(out[r].codes, 302)
        /\ out'[r].sent = 0 /\ out'[r].ended = "no"
      BY <1>0, <1>9 DEF DeliverOversized, Answer, DeliveryInv, ProxyInv, TypeOK
  <2>2. Owed(r)' = 0 /\ Owed(r)' \in 0 .. MaxBody
    <3>1. resp'[r].body = 0 /\ resp'[r].read = 0
        BY <1>9, OversizedEffect
    <3>. QED BY <2>1, <3>1, ProxyConstants DEF Owed
  <2>3. FinalCode(r)' = 302
    <3>1. PICK k \in 200 .. 599 : k = 302
        OBVIOUS
    <3>2. out'[r].codes = Append(out[r].codes, k) /\ TypeOK
        BY <2>1, <3>1 DEF DeliveryInv, ProxyInv
    <3>3. FinalCode(r)' = k
        BY <3>2, CodeAppended
    <3>. QED BY <3>1, <3>3
  <2>. QED BY <1>0, <2>1, <2>2, <2>3, DeliverAnswers
<1>10. CASE CopyChunk(r)
    BY <1>0, <1>10, CopyChunkWrites DEF X!Next
<1>11. CASE FinishCopy(r)
    BY <1>0, <1>11, FinishCompletes DEF X!Next
<1>12. CASE AbortCopy(r)
    BY <1>0, <1>12, AbortCuts DEF X!Next
<1>13. CASE HandleError(r)
    BY <1>0, <1>13, HandleErrorAnswers DEF X!Next
<1>14. CASE Hangup(r)
    BY <1>14, HangupIsHangup DEF X!Next
<1>15. ASSUME NEW method \in ForwardedMethods, NEW host \in ProxyableHosts, NEW names \in {{}, HeaderNames},
              Begin(r, method, host, names)
       PROVE  X!Next
    BY <1>1, <1>15 DEF X!Next
<1>. QED BY <1>2, <1>3, <1>4, <1>5, <1>6, <1>7, <1>8, <1>9, <1>10, <1>11, <1>12, <1>13, <1>14, <1>15
         DEF Step

LEMMA NextImplements ==
    DeliveryInv /\ [Next]_vars => [X!Next]_X!vars
<1> SUFFICES ASSUME DeliveryInv, [Next]_vars PROVE X!Next \/ UNCHANGED X!vars
    OBVIOUS
<1>1. ASSUME NEW r \in Requests, Step(r) PROVE X!Next \/ UNCHANGED X!vars
    BY <1>1, StepImplements
<1>2. ASSUME Rotate \/ UNCHANGED vars PROVE UNCHANGED X!vars
    BY <1>2 DEF Rotate, vars, X!vars, ClientPhase, FinalCode
<1>. QED BY <1>1, <1>2 DEF Next, AllDone

LEMMA InitImplements == Init => X!Init
<1> SUFFICES ASSUME Init PROVE X!Init
    OBVIOUS
<1>1. \A r \in Requests : pc[r] = "idle" /\ out[r] = NothingOut
    BY DEF Init
<1>2. \A r \in Requests : /\ ClientPhase(r) = "idle" /\ FinalCode(r) = 0 /\ out[r].sent = 0
                          /\ out[r].ended = "no" /\ pc[r] # "streaming"
    BY <1>1 DEF ClientPhase, FinalCode, NothingOut
<1>. QED BY <1>2 DEF Init, X!Init

\* An exchange as the client sees it is what Exchange promises, for every number
\* of exchanges, hops and 1xx answers, and whatever GitHub sends.
THEOREM ExchangeImplemented == Spec => ImplementsExchange
<1>. QED BY InitImplements, DeliveryInit, DeliveryStep, NextImplements, PTL
         DEF Spec, X!Spec, ImplementsExchange
=============================================================================
