------------------------------- MODULE Process -------------------------------
(***************************************************************************)
(* One run of the program, run of cmd/gh-proxy: the environment is read    *)
(* and refused or not (Config), the credential is fetched where it comes   *)
(* from gh (GhCli), two listeners are started, and the process ends by a   *)
(* signal or by the failure of a listener.                                 *)
(*                                                                         *)
(* What a request does is Server's; here one is in flight at a listener or *)
(* not.  The two Shutdowns of net/http are modelled as main uses them: the *)
(* listener is closed at once, then requests are waited for until the      *)
(* deadline both share.                                                    *)
(***************************************************************************)
EXTENDS Config

CONSTANTS
    Environments,   \* what the program may be started with
    Credentials, Unclean, Files, NoFile, Rereads, MaxChanges   \* GhCli's

\* A size is a number with one of the units, or something else altogether.
ASSUME SizesHaveUnits ==
    \A e \in Environments : e.sizeLimit \in {Unset, Unparsable} \cup [n: Int, unit: 0 .. 3]

ASSUME RereadsAsConfigured ==
    \A e \in Environments :
        LET c == Load(e) IN c # Refused /\ c.source = "gh" => (Rereads <=> c.refresh # 0)

VARIABLES
    env,        \* the environment
    cfg,        \* what Load returned, None before
    phase,      \* where run is
    result,     \* what run returned
    listener,   \* listener[l]: what became of l's ListenAndServe
    errs,       \* listeners whose error is in errCh
    busy,       \* listeners with a request in flight
    deadline,   \* of shutdownCtx
    cut         \* auxiliary: listeners whose request was cut off by the exit

\* The variables of the gh source.
VARIABLES login, bin, file, changes, gh, printed, helper, expired, tick, cancelled, pc, token, seen

G == INSTANCE GhCli

\* The source is used with constants it allows.
ASSUME SourceConstants == G!GhConstants

own == <<env, cfg, phase, result, listener, errs, busy, deadline, cut>>
sourceVars == <<login, bin, file, changes, gh, printed, helper, expired, tick, cancelled, pc, token, seen>>
vars == <<own, sourceVars>>

Listeners == {"public", "admin"}

Init ==
    /\ env \in Environments /\ cfg = None
    /\ phase = "config" /\ result = "none"
    /\ listener = [l \in Listeners |-> "down"]
    /\ errs = {} /\ busy = {} /\ deadline = "unset" /\ cut = {}
    /\ G!Init
    /\ env.source # "gh" => login = "" /\ ~bin /\ file = NoFile   \* where nobody looks

-----------------------------------------------------------------------------
(* run. *)

\* run returns and the process ends, with whatever is in flight.
Return(how) ==
    /\ phase' = "exited" /\ result' = how /\ cut' = busy
    /\ UNCHANGED <<env, listener, errs, busy, sourceVars>>

\* config.Load, and NotifyContext behind it.
LoadConfig ==
    /\ phase = "config" /\ cfg' = Load(env)
    /\ IF cfg' = Refused THEN Return("error")
       ELSE /\ phase' = IF cfg'.source = "gh" THEN "credential" ELSE "serving"
            /\ UNCHANGED <<env, result, listener, errs, busy, cut, sourceVars>>
    /\ UNCHANGED deadline

\* upstreamCredential returns: Load of the source is over, one way or the other.
HasCredential ==
    /\ phase = "credential" /\ token # None
    /\ phase' = "serving"
    /\ UNCHANGED <<env, cfg, result, listener, errs, busy, deadline, cut, sourceVars>>
NoCredential ==
    /\ phase = "credential" /\ pc = "failed"
    /\ Return("error") /\ UNCHANGED <<cfg, deadline>>

\* The select: an error of a listener, without any shutdown ...
ListenerError ==
    /\ phase = "serving" /\ errs # {}
    /\ Return("error") /\ UNCHANGED <<cfg, deadline>>

\* ... or the signal: admin.Shutdown begins, and with it the deadline.
Close(l) == [listener EXCEPT ![l] = IF @ = "up" THEN "closed" ELSE @]
SignalTaken ==
    /\ phase = "serving" /\ cancelled
    /\ phase' = "admin" /\ listener' = Close("admin") /\ deadline' = "running"
    /\ UNCHANGED <<env, cfg, result, errs, busy, cut, sourceVars>>

\* admin.Shutdown returns, its error is ignored, and public.Shutdown begins.
AdminShutdownInItsTime ==   \* seeded fault: a context of its own, without a deadline
    /\ phase = "admin" /\ "admin" \notin busy
    /\ phase' = "public" /\ listener' = Close("public")
    /\ UNCHANGED <<env, cfg, result, errs, busy, deadline, cut, sourceVars>>
AdminShutdown ==
    /\ phase = "admin" /\ ("admin" \notin busy \/ deadline = "passed")
    /\ phase' = "public" /\ listener' = Close("public")
    /\ UNCHANGED <<env, cfg, result, errs, busy, deadline, cut, sourceVars>>

\* public.Shutdown returns, which looks for requests before it looks at the clock.
PublicClosed ==   \* seeded fault: Close for Shutdown
    /\ phase = "public"
    /\ Return("ok") /\ UNCHANGED <<cfg, deadline>>
PublicDrained ==
    /\ phase = "public" /\ "public" \notin busy
    /\ Return("ok") /\ UNCHANGED <<cfg, deadline>>
PublicGivesUp ==
    /\ phase = "public" /\ "public" \in busy /\ deadline = "passed"
    /\ Return("error") /\ UNCHANGED <<cfg, deadline>>

Run ==
    \/ LoadConfig \/ HasCredential \/ NoCredential \/ ListenerError \/ SignalTaken
    \/ AdminShutdown \/ PublicDrained \/ PublicGivesUp

-----------------------------------------------------------------------------
(* serve, one goroutine for each listener. *)

Started == phase \in {"serving", "admin", "public"}

\* What Shutdown was called on does not listen any more.
ShuttingDown(l) == phase = "public" \/ (phase = "admin" /\ l = "admin")

Becomes(l, what) ==
    /\ listener' = [listener EXCEPT ![l] = what]
    /\ UNCHANGED <<env, cfg, phase, result, busy, deadline, cut, sourceVars>>

Bind(l) ==
    /\ Started /\ listener[l] = "down"
    /\ Becomes(l, IF ShuttingDown(l) THEN "closed" ELSE "up")
    /\ UNCHANGED errs

\* The address is taken, or Accept fails for good.
ListenFails(l) ==
    /\ Started /\ ~ShuttingDown(l) /\ listener[l] \in {"down", "up"}
    /\ Becomes(l, "failed")
    /\ errs' = errs \cup {l}

-----------------------------------------------------------------------------
(* The world: clients, time, signals, gh. *)

InFlight(requests) ==
    /\ busy' = requests
    /\ UNCHANGED <<env, cfg, phase, result, listener, errs, deadline, cut, sourceVars>>
Request(l) == Started /\ listener[l] = "up" /\ l \notin busy /\ InFlight(busy \cup {l})
Complete(l) == Started /\ l \in busy /\ InFlight(busy \ {l})

DeadlinePasses ==
    /\ deadline = "running" /\ phase # "exited" /\ deadline' = "passed"
    /\ UNCHANGED <<env, cfg, phase, result, listener, errs, busy, cut, sourceVars>>

\* A signal before NotifyContext kills the process and is left out.
Signal == phase \notin {"config", "exited"} /\ G!Signal /\ UNCHANGED own

\* The source runs only where it is configured, and until the exit.
SourceRuns ==
    /\ \/ phase = "credential"
       \/ Started /\ cfg.source = "gh"
    /\ UNCHANGED own

Over == phase = "exited" /\ UNCHANGED vars

Next ==
    \/ Run
    \/ \E l \in Listeners : Bind(l) \/ ListenFails(l) \/ Request(l) \/ Complete(l)
    \/ DeadlinePasses \/ Signal
    \/ SourceRuns /\ (G!Source \/ (G!World /\ UNCHANGED cancelled))
    \/ Over

Spec == Init /\ [][Next]_vars

\* run is never kept from its next step, the deadline passes, and of the source
\* what GhCli assumes, helpers of gh that end included.  Nothing is assumed of
\* clients, nor of listeners.
Fairness ==
    /\ WF_vars(Run) /\ WF_vars(DeadlinePasses)
    /\ WF_vars(SourceRuns /\ (G!StartBinary \/ G!StartFails)) /\ WF_vars(SourceRuns /\ G!ReadFile)
    /\ WF_vars(SourceRuns /\ G!Kill) /\ WF_vars(SourceRuns /\ G!HelperExits)
    /\ WF_vars(SourceRuns /\ (G!ReapOk \/ G!ReapError))

FairSpec == Spec /\ Fairness

-----------------------------------------------------------------------------
(* Properties. *)

\* Type invariant.
TypeOK ==
    /\ env \in Environments /\ cfg \in {None, Load(env)}
    /\ phase \in {"config", "credential", "serving", "admin", "public", "exited"}
    /\ result \in {"none", "ok", "error"}
    /\ listener \in [Listeners -> {"down", "up", "failed", "closed"}]
    /\ errs \subseteq Listeners /\ busy \subseteq Listeners /\ cut \subseteq Listeners
    /\ deadline \in {"unset", "running", "passed"}
    /\ G!TypeOK

\* The secret the operator wrote down: the file's, if one is named, even if it
\* is empty.
Written(word, from) == IF from # Unset THEN from ELSE IF word = Unset THEN "" ELSE word

\* Whatever the environment, no listener is there for a moment unless requests
\* need a token of full length, or the operator asked in so many words for an
\* open relay and wrote down no token; and unless GitHub is shown either what the
\* operator wrote or what gh gave, never a choice between two
\* (main.go:97-103, config.go:130-146, 189-217).
ListensOnlyWhenSound ==
    (\E l \in Listeners : listener[l] # "down") =>
        LET secret == Written(env.token, env.tokenFile)
            upstream == Written(env.upstreamToken, env.upstreamTokenFile)
        IN  /\ IF env.anonymous = "1" THEN secret = ""
               ELSE secret \notin Short \cup Unpathable \cup {"", Unreadable}
            /\ IF env.source = "gh" THEN upstream = "" /\ token \in Credentials
               ELSE token = None /\ upstream # Unreadable

\* The size limit that is enforced is the one that was written, with its unit,
\* as long as it is a number of bytes an int64 holds (config.go:321-351).
LimitAsWritten ==
    (phase \notin {"config", "exited"} /\ env.sizeLimit # Unset) =>
        LET bytes == CASE env.sizeLimit.unit = 0 -> env.sizeLimit.n
                       [] env.sizeLimit.unit = 1 -> env.sizeLimit.n * Kilo
                       [] env.sizeLimit.unit = 2 -> env.sizeLimit.n * Kilo * Kilo
                       [] env.sizeLimit.unit = 3 -> env.sizeLimit.n * Kilo * Kilo * Kilo
        IN  bytes <= MaxInt => cfg.sizeLimit = bytes

\* A request is cut off only by the deadline or by the failure of a listener, and
\* never one of the public listener in a run that returns without an error: a
\* client of the status page takes at most the deadline away from a download,
\* not the download (main.go:168-177).
CutOnlyByDeadlineOrFailure ==
    /\ cut # {} => (deadline = "passed" \/ errs # {})
    /\ "public" \in cut => result = "error"
    /\ result = "ok" => cancelled

\* A signal, whenever it comes, ends the process, and so does the failure of a
\* listener before it, whatever clients do and although gh may hang, as long as
\* the children gh leaves behind end (main.go:165-177).
ExitsInTime ==
    /\ cancelled ~> phase = "exited"
    /\ (phase = "serving" /\ errs # {}) ~> phase = "exited"
=============================================================================
