-------------------------------- MODULE GhCli --------------------------------
(***************************************************************************)
(* The credential read from gh, internal/ghcli: Load at start, then the    *)
(* Refresh goroutine, each fetching from the gh binary when there is one   *)
(* and from its hosts.yml when not.  Token() is the variable token.        *)
(*                                                                         *)
(* gh is a process of the outside world: it prints, exits, may leave a     *)
(* helper that keeps its output open, and is killed when the invocation's  *)
(* context ends.  os/exec is modelled as cmd.Run uses it, without          *)
(* WaitDelay.  A line of hosts.yml is a record; "skip" is a blank or a     *)
(* comment, "top" starts at column zero, "deep" is indented.               *)
(***************************************************************************)
EXTENDS Integers, Sequences

CONSTANTS
    Credentials,    \* tokens fit for an Authorization header
    Unclean,        \* what gh may print that clean refuses, the empty string too
    Files,          \* contents hosts.yml may have, as sequences of lines
    NoFile,         \* there is no hosts.yml
    Rereads,        \* GHP_GH_REFRESH is not 0
    MaxChanges,     \* bound: changes of the world
    None            \* no credential

Words == Credentials \cup Unclean

\* A line of hosts.yml: "host" is the key of the host's block, the value of a
\* line that is no oauth_token is not looked at.
Lines == [at: {"skip", "top", "deep"}, key: STRING, value: Words]

ASSUME GhConstants ==
    /\ None \notin Credentials /\ Unclean \cap Credentials = {} /\ "" \in Unclean
    /\ Files \subseteq Seq(Lines) /\ NoFile \notin Files
    /\ Rereads \in BOOLEAN /\ MaxChanges \in Nat

VARIABLES
    login,      \* what gh auth token would print now
    bin,        \* whether gh is found in PATH
    file,       \* hosts.yml
    changes,    \* how often the world changed, for its bound
    gh,         \* the gh process of this invocation: running, or how it ended
    printed,    \* its stdout
    helper,     \* whether a child of gh holds the output pipes
    expired,    \* whether the invocation's timeout has passed
    tick,       \* the ticker's channel holds a tick
    cancelled,  \* the process was told to stop
    pc,         \* where Load or Refresh is
    token,      \* Source.token
    seen        \* auxiliary: what gh could have answered since it was started

world == <<login, bin, file, changes>>
process == <<gh, printed, helper, expired>>
vars == <<world, process, tick, cancelled, pc, token, seen>>

-----------------------------------------------------------------------------
(* Reading. *)

\* clean: the credential a word is, None for an error.
CleanBlank(word) == IF word # "" THEN word ELSE None   \* seeded fault
Clean(word) == IF word \in Credentials THEN word ELSE None

\* The scanner's loop: at line i, inside the host's block or not; "" when it
\* runs out of lines.
ScannedWord(lines) ==
    LET scan[i \in 1 .. Len(lines) + 1] ==
            [inHost \in BOOLEAN |->
                IF i > Len(lines) THEN ""
                ELSE IF lines[i].at = "skip" THEN scan[i + 1][inHost]
                ELSE IF lines[i].at = "top" THEN scan[i + 1][lines[i].key = "host"]
                ELSE IF inHost /\ lines[i].key = "oauth_token" THEN lines[i].value
                ELSE scan[i + 1][inHost]]
    IN  scan[1][FALSE]
FromHostsFile(lines) == Clean(ScannedWord(lines))

FileToken == IF file = NoFile THEN None ELSE FromHostsFile(file)

-----------------------------------------------------------------------------
Init ==
    /\ login \in Words /\ bin \in BOOLEAN /\ file \in Files \cup {NoFile} /\ changes = 0
    /\ gh = "none" /\ printed = "" /\ helper = FALSE /\ expired = FALSE
    /\ tick = FALSE /\ cancelled = FALSE
    /\ pc = "fetch" /\ token = None /\ seen = {}

\* What is left of a fetch once its answer is known, None for an error: Load
\* fails or stores, Refresh keeps what it has or stores.
StoresAnyAnswer(answer) ==   \* seeded fault
    /\ token' = answer
    /\ pc' = IF token = None /\ answer = None THEN "failed" ELSE IF Rereads THEN "select" ELSE "stopped"
ReturnsOnError(answer) ==   \* seeded fault: return for continue
    /\ token' = IF answer = None THEN token ELSE answer
    /\ pc' = IF token' = None THEN "failed"
             ELSE IF Rereads /\ answer # None THEN "select" ELSE "stopped"
Fetched(answer) ==
    /\ token' = IF answer = None THEN token ELSE answer
    /\ pc' = IF token' = None THEN "failed" ELSE IF Rereads THEN "select" ELSE "stopped"

\* exec.LookPath found gh and cmd.Start ran it.
StartBinaryOnOldBuffer ==   \* seeded fault
    /\ pc = "fetch" /\ bin /\ ~cancelled
    /\ gh' = "running"
    /\ pc' = "running" /\ seen' = {login}
    /\ UNCHANGED <<world, printed, helper, expired, tick, cancelled, token>>
StartBinary ==
    /\ pc = "fetch" /\ bin /\ ~cancelled
    /\ gh' = "running" /\ printed' = ""
    /\ pc' = "running" /\ seen' = {login}
    /\ UNCHANGED <<world, helper, expired, tick, cancelled, token>>

\* cmd.Start fails: the system refused, or the context has ended already.
StartFails ==
    /\ pc = "fetch" /\ bin
    /\ Fetched(None)
    /\ UNCHANGED <<world, process, tick, cancelled, seen>>

\* LookPath did not find gh: hosts.yml is read, whatever the context.
ReadFile ==
    /\ pc = "fetch" /\ ~bin
    /\ Fetched(FileToken)
    /\ UNCHANGED <<world, process, tick, cancelled, seen>>

\* The context ends by timeout or with the process's: gh is killed, its
\* children are not.
Kill ==
    /\ gh = "running" /\ (expired \/ cancelled)
    /\ gh' = "failed"
    /\ UNCHANGED <<world, printed, helper, expired, tick, cancelled, pc, token, seen>>

\* cmd.Wait returns once gh has exited and its output is closed.
Waited == pc = "running" /\ gh \in {"ok", "failed"} /\ ~helper
Reaped(answer) ==
    /\ Waited /\ gh' = "none" /\ expired' = FALSE /\ seen' = {}
    /\ Fetched(answer)
    /\ UNCHANGED <<world, printed, helper, tick, cancelled>>
ReapOk == gh = "ok" /\ Reaped(Clean(printed))
\* An error, or the context's own when it ended before gh was waited for.
ReapError == (gh = "failed" \/ expired \/ cancelled) /\ Reaped(None)

\* Refresh's select, which chooses at random when both channels are ready.
TakeTick ==
    /\ pc = "select" /\ tick
    /\ tick' = FALSE /\ pc' = "fetch"
    /\ UNCHANGED <<world, process, cancelled, token, seen>>
TakeDoneBetweenTicks ==   \* seeded fault
    /\ pc = "select" /\ cancelled /\ ~tick
    /\ pc' = "stopped"
    /\ UNCHANGED <<world, process, tick, cancelled, token, seen>>
TakeDone ==
    /\ pc = "select" /\ cancelled
    /\ pc' = "stopped"
    /\ UNCHANGED <<world, process, tick, cancelled, token, seen>>

-----------------------------------------------------------------------------
(* The world. *)

\* The ticker runs once Refresh does; a tick that is not taken in time is lost.
Tick ==
    /\ Rereads /\ token # None /\ pc # "stopped" /\ ~tick
    /\ tick' = TRUE
    /\ UNCHANGED <<world, process, cancelled, pc, token, seen>>

Expire ==
    /\ pc = "running" /\ ~expired
    /\ expired' = TRUE
    /\ UNCHANGED <<world, gh, printed, helper, tick, cancelled, pc, token, seen>>

Signal ==
    /\ ~cancelled /\ cancelled' = TRUE
    /\ UNCHANGED <<world, process, tick, pc, token, seen>>

\* gh reads its own store at one moment and exits at another, well or not.
PrintToken ==
    /\ gh = "running" /\ printed = "" /\ login # ""
    /\ printed' = login
    /\ UNCHANGED <<world, gh, helper, expired, tick, cancelled, pc, token, seen>>
Exit(how) ==
    /\ gh = "running" /\ gh' = how
    /\ UNCHANGED <<world, printed, helper, expired, tick, cancelled, pc, token, seen>>
SpawnHelper ==
    /\ gh = "running" /\ ~helper /\ helper' = TRUE
    /\ UNCHANGED <<world, gh, printed, expired, tick, cancelled, pc, token, seen>>
HelperExits ==
    /\ helper /\ helper' = FALSE
    /\ UNCHANGED <<world, gh, printed, expired, tick, cancelled, pc, token, seen>>

\* The user logs in or out, gh rotates its token, gh is installed or removed,
\* hosts.yml is rewritten.
Changed ==
    /\ changes < MaxChanges /\ changes' = changes + 1
    /\ UNCHANGED <<process, tick, cancelled, pc, token>>
ChangeLogin ==
    /\ login' \in Words \ {login}
    /\ seen' = IF pc = "running" THEN seen \cup {login'} ELSE seen
    /\ Changed /\ UNCHANGED <<bin, file>>
ChangeBinary == bin' = ~bin /\ Changed /\ UNCHANGED <<login, file, seen>>
ChangeFile ==
    /\ file' \in (Files \cup {NoFile}) \ {file}
    /\ Changed /\ UNCHANGED <<login, bin, seen>>

\* Nothing is left to do.
Over ==
    /\ pc \in {"failed", "stopped"}
    /\ UNCHANGED vars

Source ==
    \/ StartBinary \/ StartFails \/ ReadFile \/ Kill
    \/ ReapOk \/ ReapError \/ TakeTick \/ TakeDone
World ==
    \/ Tick \/ Expire \/ Signal
    \/ PrintToken \/ Exit("ok") \/ Exit("failed") \/ SpawnHelper \/ HelperExits
    \/ ChangeLogin \/ ChangeBinary \/ ChangeFile
Next == Source \/ World \/ Over

Spec == Init /\ [][Next]_vars

\* The runtime: goroutines run, timers fire, a ready channel of a select is not
\* passed over for ever.
RuntimeFairness ==
    /\ WF_vars(StartBinary \/ StartFails) /\ WF_vars(ReadFile) /\ WF_vars(Kill)
    /\ WF_vars(ReapOk \/ ReapError)
    /\ WF_vars(TakeTick) /\ SF_vars(TakeDone) /\ WF_vars(Tick) /\ WF_vars(Expire)
RuntimeSpec == Spec /\ RuntimeFairness

\* Of gh: started again and again, it answers again and again, in time, and its
\* helpers end.
GhFairness ==
    /\ SF_vars(StartBinary) /\ SF_vars(PrintToken) /\ SF_vars(printed # "" /\ Exit("ok"))
    /\ SF_vars(printed # "" /\ ReapOk) /\ WF_vars(HelperExits)
FairSpec == RuntimeSpec /\ GhFairness

-----------------------------------------------------------------------------
(* Properties. *)

\* Type invariant.
TypeOK ==
    /\ login \in Words /\ bin \in BOOLEAN /\ file \in Files \cup {NoFile}
    /\ changes \in 0 .. MaxChanges
    /\ gh \in {"none", "running", "ok", "failed"} /\ printed \in Words
    /\ helper \in BOOLEAN /\ expired \in BOOLEAN /\ tick \in BOOLEAN /\ cancelled \in BOOLEAN
    /\ pc \in {"fetch", "running", "select", "stopped", "failed"}
    /\ token \in Credentials \cup {None} /\ seen \subseteq Words

\* The first token of the host's block: an indented oauth_token such that the
\* last line at column zero before it names the host.
HostToken(lines) ==
    LET named(i) == \E j \in 1 .. i - 1 :
                        /\ lines[j].at = "top" /\ lines[j].key = "host"
                        /\ \A k \in j + 1 .. i - 1 : lines[k].at # "top"
        found == {i \in DOMAIN lines :
                    lines[i].at = "deep" /\ lines[i].key = "oauth_token" /\ named(i)}
    IN  IF found = {} THEN None
        ELSE Clean(lines[CHOOSE i \in found : \A j \in found : i <= j].value)

\* The credential changes only to one gh gave: what the invocation just waited
\* for could have printed since it was started, and only if it exited well, or
\* the host's token in hosts.yml, of no other host and the first of its own, when
\* there is no gh.  No failure and no unclean answer replaces the credential in
\* hand (ghcli.go:136-145, 159-178, 228-257).
OnlyGhsCredential ==
    [][token' # token =>
          /\ token' \in Credentials
          /\ \/ pc = "running" /\ gh = "ok" /\ token' \in seen
             \/ pc = "fetch" /\ ~bin /\ file # NoFile /\ token' = HostToken(file)]_vars

\* What gh answers for good, or hosts.yml holds for the host for good, is what
\* the proxy comes to use, however often a refresh failed before (ghcli.go:5-17).
CatchesUp ==
    \A t \in Credentials :
        <>[](IF bin THEN login = t ELSE file # NoFile /\ HostToken(file) = t)
        => <>[](token = t \/ cancelled \/ pc = "failed" \/ ~Rereads)

\* A signal ends the refresh goroutine, and Load, while a fetch is under way and
\* while ticks keep coming (ghcli.go:124, 131-135).
StopsOnSignal == cancelled ~> pc \in {"stopped", "failed"}

\* Requests are served with a credential from the first: a process whose Load
\* found none does not get that far (main.go:97-103), and gh is not left running
\* behind a fetch that returned.
ServesWithCredential ==
    /\ pc \in {"select", "stopped"} => token # None
    /\ gh # "none" <=> pc = "running"
    /\ helper => pc = "running"

\* What ghcli.go:52 says of Options.Timeout: it "caps a single gh invocation".
TimeoutCapsGh == pc = "running" /\ expired ~> pc # "running"
=============================================================================
