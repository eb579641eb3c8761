---------------------------- MODULE ProcessProofs ----------------------------
(***************************************************************************)
(* Theorems on Process, for every set of environments, whatever gh prints. *)
(***************************************************************************)
EXTENDS Process, TLAPS

\* The source once more, with what is proved of it.
GG == INSTANCE GhCliProofs

\* What an accepted environment says of the two credentials.
SoundToken(e) ==
    IF e.anonymous = "1" THEN Secret(e.token, e.tokenFile) = ""
    ELSE Secret(e.token, e.tokenFile) \notin Short \cup Unpathable \cup {"", Unreadable}
SoundUpstream(e) ==
    /\ e.source = "gh" => Secret(e.upstreamToken, e.upstreamTokenFile) = ""
    /\ Secret(e.upstreamToken, e.upstreamTokenFile) # Unreadable

LEMMA LoadSound ==
    ASSUME NEW e, Load(e) # Refused
    PROVE  SoundToken(e) /\ SoundUpstream(e) /\ (Load(e).source = "gh" <=> e.source = "gh")
<1> DEFINE c == Loaded(e)
<1>1. /\ Load(e) = c /\ ~TokenRefused(c) /\ ~SourceRefused(c)
      /\ c.token # Unreadable /\ c.upstreamToken # Unreadable
    BY DEF Load
<1>2. /\ c.token = Secret(e.token, e.tokenFile)
      /\ c.upstreamToken = Secret(e.upstreamToken, e.upstreamTokenFile)
      /\ c.anonymous = EnvBool(e.anonymous, FALSE)
      /\ c.source = IF e.source = Unset THEN "env" ELSE e.source
    BY DEF Loaded
<1> HIDE DEF c
<1>3. c.anonymous = (e.anonymous = "1")
    BY <1>2, MarksAreNoWords DEF EnvBool
<1>4. c.source = "gh" <=> e.source = "gh"
    BY <1>2, MarksAreNoWords
<1>5. SoundToken(e)
  <2>1. (e.anonymous = "1") # (c.token # "")
      BY <1>1, <1>3 DEF TokenRefused
  <2>2. c.token # "" => c.token \notin Short \cup Unpathable
      BY <1>1 DEF TokenRefused
  <2>. QED BY <1>1, <1>2, <2>1, <2>2 DEF SoundToken
<1>6. SoundUpstream(e)
    BY <1>1, <1>2, <1>4 DEF SourceRefused, SoundUpstream
<1>. QED BY <1>1, <1>4, <1>5, <1>6

-----------------------------------------------------------------------------
(* The invariant: how far run has come says what was loaded and fetched,    *)
(* and which Shutdown is over says who may still be in flight.              *)

Phases == {"config", "credential", "serving", "admin", "public", "exited"}

\* A listener was ever bound, or still may be.
Serving == Started \/ \E l \in Listeners : listener[l] # "down"

Shape ==
    /\ phase \in Phases
    /\ listener \in [Listeners -> {"down", "up", "failed", "closed"}]
    /\ busy \subseteq Listeners

CredentialInv ==
    /\ phase = "credential" => cfg = Load(env) /\ cfg # Refused /\ cfg.source = "gh"
    /\ Serving => cfg = Load(env) /\ cfg # Refused /\ (cfg.source = "gh" => token # None)
    /\ token \in Credentials \cup {None}
    /\ token # None => env.source = "gh"
    /\ phase \in {"config", "credential"} => ~Serving

ShutdownInv ==
    /\ phase \in {"admin", "public"} => cancelled /\ listener["admin"] # "up"
    /\ phase = "public" => "admin" \notin busy \/ deadline = "passed"
    /\ phase \in {"config", "credential"} => busy = {}
    /\ phase # "exited" => cut = {} /\ result = "none"
    /\ cut # {} => deadline = "passed" \/ errs # {}
    /\ "public" \in cut => result = "error"
    /\ result = "ok" => cancelled

ProcessInv == Shape /\ CredentialInv /\ ShutdownInv

LEMMA Initially == Init => ProcessInv
<1> SUFFICES ASSUME Init PROVE ProcessInv
    OBVIOUS
<1>1. Shape /\ ~Serving
    BY DEF Init, Shape, Phases, Serving, Started, Listeners
<1>2. CredentialInv
    BY <1>1 DEF Init, G!Init, CredentialInv
<1>3. ShutdownInv
    BY DEF Init, ShutdownInv
<1>. QED BY <1>1, <1>2, <1>3 DEF ProcessInv

-----------------------------------------------------------------------------
(* The source keeps the credential it has and takes only clean ones. *)

LEMMA FetchKeeps ==
    ASSUME NEW answer, answer \in Credentials \cup {None}, G!Fetched(answer),
           token \in Credentials \cup {None}
    PROVE  token' \in Credentials \cup {None} /\ (token # None => token' # None)
BY DEF G!Fetched

LEMMA SourceKeeps ==
    ASSUME G!Source \/ (G!World /\ UNCHANGED cancelled), token \in Credentials \cup {None}
    PROVE  /\ token' \in Credentials \cup {None} /\ (token # None => token' # None)
           /\ cancelled' = cancelled
<1>1. ASSUME NEW word PROVE G!Clean(word) \in Credentials \cup {None}
    BY DEF G!Clean
<1>2. CASE G!StartBinary \/ G!Kill \/ G!TakeTick \/ G!TakeDone
    BY <1>2 DEF G!StartBinary, G!Kill, G!TakeTick, G!TakeDone
<1>3. CASE G!StartFails
    BY <1>3, FetchKeeps DEF G!StartFails
<1>4. CASE G!ReadFile
  <2>1. G!FileToken \in Credentials \cup {None}
      BY <1>1 DEF G!FileToken, G!FromHostsFile
  <2>. QED BY <1>4, <2>1, FetchKeeps DEF G!ReadFile
<1>5. CASE G!ReapOk \/ G!ReapError
    BY <1>1, <1>5, FetchKeeps DEF G!ReapOk, G!ReapError, G!Reaped
<1>6. CASE G!World /\ UNCHANGED cancelled
    BY <1>6 DEF G!World, G!Tick, G!Expire, G!Signal, G!PrintToken, G!Exit, G!SpawnHelper,
                G!HelperExits, G!ChangeLogin, G!ChangeBinary, G!ChangeFile, G!Changed
<1>. QED BY <1>2, <1>3, <1>4, <1>5, <1>6 DEF G!Source

-----------------------------------------------------------------------------
(* Steps. *)

\* run returns: nothing is listened to that was not before.
LEMMA ReturnStep ==
    ASSUME ProcessInv, NEW how \in {"ok", "error"}, Return(how), cfg' = cfg, deadline' = deadline,
           how = "ok" => cancelled /\ "public" \notin busy,
           busy # {} => deadline = "passed" \/ errs # {}
    PROVE  ProcessInv'
<1>1. Shape' /\ (Serving' => Serving) /\ UNCHANGED <<env, cfg, token, cancelled>>
    BY DEF Return, ProcessInv, Shape, Phases, Serving, Started, sourceVars
<1>2. CredentialInv'
    BY <1>1 DEF Return, ProcessInv, CredentialInv
<1>3. ShutdownInv'
    BY <1>1 DEF Return, ProcessInv, ShutdownInv
<1>. QED BY <1>1, <1>2, <1>3 DEF ProcessInv

LEMMA RunStep == ASSUME ProcessInv, Run PROVE ProcessInv'
<1> USE DEF ProcessInv
<1>1. CASE LoadConfig
  <2>1. /\ phase = "config" /\ cfg' = Load(env) /\ busy = {} /\ ~Serving /\ token \in Credentials \cup {None}
        /\ UNCHANGED <<env, token, cancelled, busy, listener, errs, deadline>>
      BY <1>1 DEF LoadConfig, Return, CredentialInv, ShutdownInv, sourceVars
  <2>2. CASE cfg' = Refused
    <3>1. Shape' /\ ~Serving' /\ phase' = "exited" /\ cut' = {} /\ result' = "error"
        BY <1>1, <2>1, <2>2 DEF LoadConfig, Return, Shape, Phases, Serving, Started
    <3>. QED BY <2>1, <3>1 DEF CredentialInv, ShutdownInv
  <2>3. CASE cfg' # Refused
    <3>1. /\ Shape' /\ UNCHANGED <<result, cut>>
          /\ phase' = IF cfg'.source = "gh" THEN "credential" ELSE "serving"
        BY <1>1, <2>1, <2>3 DEF LoadConfig, Shape, Phases
    <3>2. phase' \in {"credential", "serving"} /\ (Serving' => phase' = "serving")
        BY <2>1, <3>1 DEF Serving, Started
    <3>3. CredentialInv'
        BY <2>1, <2>3, <3>1, <3>2 DEF CredentialInv
    <3>4. ShutdownInv'
        BY <2>1, <3>1, <3>2 DEF ShutdownInv
    <3>. QED BY <3>1, <3>3, <3>4
  <2>. QED BY <2>2, <2>3
<1>2. CASE HasCredential
  <2>1. Shape'
      BY <1>2 DEF HasCredential, Shape, Phases
  <2>2. CredentialInv' /\ ShutdownInv'
      BY <1>2 DEF HasCredential, CredentialInv, ShutdownInv, sourceVars, Serving, Started
  <2>. QED BY <2>1, <2>2
<1>3. CASE NoCredential \/ ListenerError
    BY <1>3, ReturnStep DEF NoCredential, ListenerError, ShutdownInv
<1>4. CASE SignalTaken
  <2>1. Shape' /\ listener'["admin"] # "up"
      BY <1>4 DEF SignalTaken, Close, Shape, Phases, Listeners
  <2>2. CredentialInv' /\ ShutdownInv'
      BY <1>4, <2>1 DEF SignalTaken, CredentialInv, ShutdownInv, sourceVars, Serving, Started
  <2>. QED BY <2>1, <2>2
<1>5. CASE AdminShutdown
  <2>1. Shape' /\ listener'["admin"] # "up"
      BY <1>5 DEF AdminShutdown, Close, Shape, Phases, Listeners, ShutdownInv
  <2>2. CredentialInv' /\ ShutdownInv'
      BY <1>5, <2>1 DEF AdminShutdown, CredentialInv, ShutdownInv, sourceVars, Serving, Started
  <2>. QED BY <2>1, <2>2
<1>6. CASE PublicDrained
  <2>1. busy # {} => deadline = "passed"
      BY <1>6 DEF PublicDrained, Shape, Listeners, ShutdownInv
  <2>. QED BY <1>6, <2>1, ReturnStep DEF PublicDrained, ShutdownInv
<1>7. CASE PublicGivesUp
    BY <1>7, ReturnStep DEF PublicGivesUp
<1>. QED BY <1>1, <1>2, <1>3, <1>4, <1>5, <1>6, <1>7 DEF Run

LEMMA ListenerStep ==
    ASSUME ProcessInv, NEW l \in Listeners, Bind(l) \/ ListenFails(l) \/ Request(l) \/ Complete(l)
    PROVE  ProcessInv'
<1> USE DEF ProcessInv
<1>1. /\ Started /\ Started' /\ UNCHANGED <<env, cfg, phase, result, deadline, cut, token, cancelled>>
      /\ errs \subseteq errs'
    BY DEF Bind, ListenFails, Request, Complete, Becomes, InFlight, Started, sourceVars
<1>2. Shape'
    BY DEF Bind, ListenFails, Request, Complete, Becomes, InFlight, Shape
<1>3. CredentialInv'
    BY <1>1 DEF CredentialInv, Serving, Started
<1>4. ASSUME phase \in {"admin", "public"}
      PROVE  listener'["admin"] # "up" /\ ("admin" \in busy' => "admin" \in busy)
  <2>1. listener["admin"] # "up"
      BY <1>4 DEF ShutdownInv
  <2>2. CASE Bind(l)
      BY <1>4, <2>1, <2>2 DEF Bind, Becomes, ShuttingDown, Shape, Listeners
  <2>3. CASE ListenFails(l)
      BY <1>4, <2>1, <2>3 DEF ListenFails, Becomes, Shape, Listeners
  <2>4. CASE Request(l) \/ Complete(l)
      BY <1>4, <2>1, <2>4 DEF Request, Complete, InFlight
  <2>. QED BY <2>2, <2>3, <2>4
<1>5. ShutdownInv'
    BY <1>1, <1>4 DEF ShutdownInv, Started
<1>. QED BY <1>2, <1>3, <1>5

LEMMA OtherStep ==
    ASSUME ProcessInv, DeadlinePasses \/ Signal \/ Over
    PROVE  ProcessInv'
<1> USE DEF ProcessInv
<1>1. /\ UNCHANGED <<env, cfg, phase, result, listener, errs, busy, cut, token>>
      /\ (deadline' = deadline \/ deadline' = "passed") /\ (cancelled => cancelled')
    BY DEF DeadlinePasses, Signal, Over, vars, own, sourceVars, G!Signal
<1>2. Shape' /\ CredentialInv'
    BY <1>1 DEF Shape, CredentialInv, Serving, Started
<1>3. ShutdownInv'
    BY <1>1 DEF ShutdownInv
<1>. QED BY <1>2, <1>3

LEMMA SourceStep ==
    ASSUME ProcessInv, SourceRuns, G!Source \/ (G!World /\ UNCHANGED cancelled)
    PROVE  ProcessInv'
<1> USE DEF ProcessInv
<1>1. /\ UNCHANGED <<env, cfg, phase, result, listener, errs, busy, deadline, cut>>
      /\ cancelled' = cancelled
      /\ token' \in Credentials \cup {None} /\ (token # None => token' # None)
    BY SourceKeeps DEF SourceRuns, own, CredentialInv
<1>2. Shape'
    BY <1>1 DEF Shape
<1>3. cfg = Load(env) /\ cfg # Refused /\ cfg.source = "gh"
    BY DEF SourceRuns, CredentialInv, Serving
<1>4. env.source = "gh"
    BY <1>3, LoadSound
<1>5. CredentialInv'
    BY <1>1, <1>4 DEF CredentialInv, Serving, Started
<1>6. ShutdownInv'
    BY <1>1 DEF ShutdownInv
<1>. QED BY <1>2, <1>5, <1>6

LEMMA Always == Spec => []ProcessInv
<1>1. ProcessInv /\ [Next]_vars => ProcessInv'
  <2> SUFFICES ASSUME ProcessInv, [Next]_vars PROVE ProcessInv'
      OBVIOUS
  <2>1. CASE UNCHANGED vars
      BY <2>1 DEF vars, own, sourceVars, ProcessInv, Shape, CredentialInv, ShutdownInv, Serving, Started
  <2>. QED BY <2>1, RunStep, ListenerStep, OtherStep, SourceStep DEF Next
<1>. QED BY <1>1, Initially, PTL DEF Spec

-----------------------------------------------------------------------------
\* CutOnlyByDeadlineOrFailure: a request is cut off only by the deadline or by a
\* listener's failure, a download never in a run that ends well.
THEOREM CutCorrect == Spec => []CutOnlyByDeadlineOrFailure
<1>1. ProcessInv => CutOnlyByDeadlineOrFailure
    BY DEF ProcessInv, ShutdownInv, CutOnlyByDeadlineOrFailure
<1>. QED BY <1>1, Always, PTL

\* ListensOnlyWhenSound: nobody listens without a token of full length or an
\* open relay asked for, nor with two upstream credentials to choose from.
THEOREM ListensCorrect == Spec => []ListensOnlyWhenSound
<1>1. ProcessInv => ListensOnlyWhenSound
  <2> SUFFICES ASSUME ProcessInv, \E l \in Listeners : listener[l] # "down"
               PROVE  /\ SoundToken(env) /\ SoundUpstream(env)
                      /\ env.source = "gh" => token \in Credentials
                      /\ env.source # "gh" => token = None
      BY DEF ListensOnlyWhenSound, SoundToken, SoundUpstream, Written, Secret
  <2>1. cfg = Load(env) /\ cfg # Refused /\ (cfg.source = "gh" => token # None)
      BY DEF ProcessInv, CredentialInv, Serving
  <2>2. SoundToken(env) /\ SoundUpstream(env) /\ (cfg.source = "gh" <=> env.source = "gh")
      BY <2>1, LoadSound
  <2>. QED BY <2>1, <2>2 DEF ProcessInv, CredentialInv
<1>. QED BY <1>1, Always, PTL

-----------------------------------------------------------------------------
(* Types. *)

Types ==
    /\ env \in Environments /\ cfg \in {None, Load(env)}
    /\ result \in {"none", "ok", "error"} /\ deadline \in {"unset", "running", "passed"}
    /\ errs \subseteq Listeners /\ cut \subseteq Listeners

LEMMA TypesStep == ProcessInv /\ Types /\ [Next]_vars => Types'
<1> SUFFICES ASSUME ProcessInv, Types, [Next]_vars PROVE Types'
    OBVIOUS
<1>1. busy \subseteq Listeners
    BY DEF ProcessInv, Shape
<1>2. CASE Run
  <2>1. CASE LoadConfig
      BY <1>1, <2>1 DEF LoadConfig, Return, Types
  <2>2. CASE HasCredential \/ SignalTaken \/ AdminShutdown
      BY <2>2 DEF HasCredential, SignalTaken, AdminShutdown, Types
  <2>3. CASE NoCredential \/ ListenerError \/ PublicDrained \/ PublicGivesUp
      BY <1>1, <2>3 DEF NoCredential, ListenerError, PublicDrained, PublicGivesUp, Return, Types
  <2>. QED BY <1>2, <2>1, <2>2, <2>3 DEF Run
<1>3. ASSUME NEW l \in Listeners, Bind(l) \/ ListenFails(l) \/ Request(l) \/ Complete(l) PROVE Types'
    BY <1>3 DEF Bind, ListenFails, Becomes, Request, Complete, InFlight, Types
<1>4. CASE DeadlinePasses \/ Signal \/ Over \/ SourceRuns \/ UNCHANGED vars
    BY <1>4 DEF DeadlinePasses, Signal, Over, SourceRuns, vars, own, Types
<1>. QED BY <1>2, <1>3, <1>4 DEF Next

LEMMA AlwaysTyped == Spec => []Types
<1>1. Init => Types
    BY DEF Init, Types
<1>. QED BY <1>1, TypesStep, Always, PTL DEF Spec

-----------------------------------------------------------------------------
(* The size limit. *)

LEMMA ModSmall == ASSUME NEW a \in Nat, NEW b \in Nat \ {0}, a < b PROVE a % b = a
<1>1. a = b * (a \div b) + (a % b) /\ a % b \in 0 .. b - 1 /\ a \div b \in Nat
    OBVIOUS
<1>2. a \div b = 0
    BY <1>1
<1>. QED BY <1>1, <1>2

\* No number an int64 holds is changed by the arithmetic of int64.
LEMMA NoWrap == ASSUME NEW n \in 0 .. MaxInt PROVE Wrap(n) = n
<1>1. IntLimit \in Nat \ {0} /\ 2 * IntLimit \in Nat \ {0}
    BY Sizes
<1>2. n + IntLimit \in Nat /\ n + IntLimit < 2 * IntLimit
    BY <1>1 DEF MaxInt
<1>3. (n + IntLimit) % (2 * IntLimit) = n + IntLimit
    BY <1>1, <1>2, ModSmall
<1>. QED BY <1>1, <1>3 DEF Wrap

LEMMA Multiples ==
    /\ Multiple(0) = 1 /\ Multiple(1) = Kilo
    /\ Multiple(2) = Kilo * Kilo /\ Multiple(3) = Kilo * Kilo * Kilo
    /\ \A unit \in 0 .. 3 : Multiple(unit) \in Nat
<1>1. /\ Multiple(0) = 1 /\ Multiple(1) = Kilo
      /\ Multiple(2) = Kilo * Kilo /\ Multiple(3) = Kilo * Kilo * Kilo
    BY DEF Multiple
<1>2. Kilo \in Nat
    BY Sizes
<1>3. Kilo * Kilo \in Nat
    BY <1>2
<1>4. Kilo * Kilo * Kilo \in Nat
    BY <1>2, <1>3
<1>. QED BY <1>1, <1>2, <1>3, <1>4

\* A limit that fits is kept as it was written.
LEMMA LimitKept ==
    ASSUME NEW e \in Environments, e.sizeLimit # Unset, Load(e) # Refused,
           e.sizeLimit.n * Multiple(e.sizeLimit.unit) <= MaxInt
    PROVE  Load(e).sizeLimit = e.sizeLimit.n * Multiple(e.sizeLimit.unit)
<1> DEFINE w == e.sizeLimit
           c == Loaded(e)
<1>1. Load(e) = c /\ c.sizeLimit # Refused
    BY DEF Load
<1>2. c.sizeLimit = EnvBytes(w, 0)
    BY DEF Loaded
<1> HIDE DEF c
<1>3. w # Unparsable /\ w.n \in 0 .. MaxInt /\ c.sizeLimit = Wrap(w.n * Multiple(w.unit))
    BY <1>1, <1>2 DEF EnvBytes
<1>4. w.unit \in 0 .. 3
    BY <1>3, SizesHaveUnits
<1>5. Multiple(w.unit) \in Nat /\ w.n \in Nat
    BY <1>3, <1>4, Multiples, Sizes DEF MaxInt
<1> HIDE DEF w
<1>6. w.n * Multiple(w.unit) \in Nat
    BY <1>5
<1>7. w.n * Multiple(w.unit) \in 0 .. MaxInt
    BY <1>6, Sizes DEF MaxInt, w
<1>. QED BY <1>1, <1>3, <1>7, NoWrap DEF w

\* LimitAsWritten: the limit that is enforced is the one that was written.
THEOREM LimitCorrect == Spec => []LimitAsWritten
<1>1. ProcessInv /\ env \in Environments => LimitAsWritten
  <2> SUFFICES ASSUME ProcessInv, env \in Environments, phase \notin {"config", "exited"},
                      env.sizeLimit # Unset
               PROVE  LimitAsWritten
      BY DEF LimitAsWritten
  <2> DEFINE w == env.sizeLimit
  <2>1. cfg = Load(env) /\ Load(env) # Refused
      BY DEF ProcessInv, Shape, Phases, CredentialInv, Serving, Started
  <2>2. w.unit \in 0 .. 3 /\ w.n \in Int
    <3>1. w # Unparsable
        BY <2>1 DEF Load, Loaded, EnvBytes
    <3>. QED BY <3>1, SizesHaveUnits
  <2>3. w.n * Multiple(w.unit) = CASE w.unit = 0 -> w.n
                                   [] w.unit = 1 -> w.n * Kilo
                                   [] w.unit = 2 -> w.n * Kilo * Kilo
                                   [] w.unit = 3 -> w.n * Kilo * Kilo * Kilo
    <3>1. Kilo \in Nat
        BY Sizes
    <3>2. CASE w.unit = 0
        BY <2>2, <3>2, Multiples
    <3>3. CASE w.unit = 1
        BY <2>2, <3>3, Multiples
    <3>4. CASE w.unit = 2
        BY <2>2, <3>1, <3>4, Multiples
    <3>5. CASE w.unit = 3
        BY <2>2, <3>1, <3>5, Multiples
    <3>. QED BY <2>2, <3>2, <3>3, <3>4, <3>5
  <2>4. w.n * Multiple(w.unit) <= MaxInt => cfg.sizeLimit = w.n * Multiple(w.unit)
      BY <2>1, LimitKept
  <2>. QED BY <2>3, <2>4 DEF LimitAsWritten
<1>2. Types => env \in Environments
    BY DEF Types
<1>. QED BY <1>1, <1>2, Always, AlwaysTyped, PTL

-----------------------------------------------------------------------------
(* The source of the credential, as the process runs it. *)

LEMMA SourceAsAssumed == GG!GhConstants
BY SourceConstants DEF G!GhConstants, GG!GhConstants, G!Lines, GG!Lines, G!Words, GG!Words

LEMMA SameSource ==
    /\ G!Source => GG!Source
    /\ G!World => GG!World
    /\ G!Signal => GG!Signal
<1>1. G!FileToken = GG!FileToken
    BY DEF G!FileToken, GG!FileToken, G!FromHostsFile, GG!FromHostsFile, G!ScannedWord, GG!ScannedWord,
           G!Clean, GG!Clean
<1>2. \A answer : G!Fetched(answer) => GG!Fetched(answer)
    BY DEF G!Fetched, GG!Fetched
<1>3. G!StartBinary \/ G!Kill \/ G!TakeTick \/ G!TakeDone => GG!StartBinary \/ GG!Kill \/ GG!TakeTick \/ GG!TakeDone
    BY DEF G!StartBinary, GG!StartBinary, G!Kill, GG!Kill, G!TakeTick, GG!TakeTick, G!TakeDone, GG!TakeDone,
           G!world, GG!world, G!process, GG!process
<1>4. G!StartFails \/ G!ReadFile => GG!StartFails \/ GG!ReadFile
    BY <1>1, <1>2 DEF G!StartFails, GG!StartFails, G!ReadFile, GG!ReadFile,
           G!world, GG!world, G!process, GG!process
<1>5. \A answer : G!Reaped(answer) => GG!Reaped(answer)
    BY <1>2 DEF G!Reaped, GG!Reaped, G!Waited, GG!Waited, G!world, GG!world
<1>6. G!ReapOk \/ G!ReapError => GG!ReapOk \/ GG!ReapError
  <2>1. \A word : G!Clean(word) = GG!Clean(word)
      BY DEF G!Clean, GG!Clean
  <2>. QED BY <1>5, <2>1 DEF G!ReapOk, GG!ReapOk, G!ReapError, GG!ReapError
<1>7. G!Signal => GG!Signal
    BY DEF G!Signal, GG!Signal, G!world, GG!world, G!process, GG!process
<1>8. G!Tick \/ G!Expire \/ G!PrintToken \/ G!SpawnHelper \/ G!HelperExits
      => GG!Tick \/ GG!Expire \/ GG!PrintToken \/ GG!SpawnHelper \/ GG!HelperExits
    BY DEF G!Tick, GG!Tick, G!Expire, GG!Expire, G!PrintToken, GG!PrintToken, G!SpawnHelper, GG!SpawnHelper,
           G!HelperExits, GG!HelperExits, G!world, GG!world, G!process, GG!process
<1>9. \A how : G!Exit(how) => GG!Exit(how)
    BY DEF G!Exit, GG!Exit, G!world, GG!world
<1>10. G!ChangeLogin \/ G!ChangeBinary \/ G!ChangeFile => GG!ChangeLogin \/ GG!ChangeBinary \/ GG!ChangeFile
    BY DEF G!ChangeLogin, GG!ChangeLogin, G!ChangeBinary, GG!ChangeBinary, G!ChangeFile, GG!ChangeFile,
           G!Changed, GG!Changed, G!process, GG!process, G!Words, GG!Words
<1>11. G!Source => GG!Source
    BY <1>3, <1>4, <1>6 DEF G!Source, GG!Source
<1>12. G!World => GG!World
    BY <1>7, <1>8, <1>9, <1>10 DEF G!World, GG!World
<1>. QED BY <1>7, <1>11, <1>12

\* The life of the process leaves the source to itself: it runs as GhCli says, from
\* the first fetch to the exit, and only the signal reaches it from outside.
THEOREM SourceRunsAsAlone == Spec => GG!Spec
<1>1. Init => GG!Init
    BY DEF Init, G!Init, GG!Init, G!Words, GG!Words
<1>2. [Next]_vars => [GG!Next]_(GG!vars)
  <2> SUFFICES ASSUME [Next]_vars PROVE [GG!Next]_(GG!vars)
      OBVIOUS
  <2>1. ASSUME UNCHANGED sourceVars PROVE UNCHANGED GG!vars
      BY <2>1 DEF sourceVars, GG!vars, GG!world, GG!process
  <2>2. ASSUME Run \/ DeadlinePasses \/ Over \/ UNCHANGED vars PROVE UNCHANGED sourceVars
      BY <2>2 DEF Run, LoadConfig, Return, HasCredential, NoCredential, ListenerError, SignalTaken,
             AdminShutdown, PublicDrained, PublicGivesUp, DeadlinePasses, Over, vars
  <2>3. ASSUME NEW l \in Listeners, Bind(l) \/ ListenFails(l) \/ Request(l) \/ Complete(l)
        PROVE  UNCHANGED sourceVars
      BY <2>3 DEF Bind, ListenFails, Becomes, Request, Complete, InFlight
  <2>4. ASSUME Signal PROVE GG!Next
      BY <2>4, SameSource DEF Signal, GG!Next, GG!World
  <2>5. ASSUME G!Source \/ G!World PROVE GG!Next
      BY <2>5, SameSource DEF GG!Next
  <2>. QED BY <2>1, <2>2, <2>3, <2>4, <2>5 DEF Next
<1>. QED BY <1>1, <1>2, PTL DEF Spec, GG!Spec

\* So the credential in hand changes only to one gh gave, as long as the process
\* lives, and no fetch leaves a gh behind it.
THEOREM CredentialCorrect == Spec => [](GG!ServesWithCredential) /\ GG!OnlyGhsCredential
BY SourceAsAssumed, SourceRunsAsAlone, GG!ServesCorrect, GG!CredentialCorrect, PTL

\* Types, of the process and of the source it runs.
THEOREM TypeCorrect == Spec => []TypeOK
<1>1. GG!TypeOK => G!TypeOK
    BY DEF GG!TypeOK, G!TypeOK, GG!Words, G!Words
<1>2. GG!Spec => []GG!TypeOK
    BY SourceAsAssumed, GG!TypeCorrect
<1>3. ProcessInv /\ Types /\ G!TypeOK => TypeOK
    BY DEF ProcessInv, Shape, Phases, Types, TypeOK
<1>. QED BY <1>1, <1>2, <1>3, Always, AlwaysTyped, SourceRunsAsAlone, PTL
=============================================================================
