-------------------------------- MODULE Config --------------------------------
(***************************************************************************)
(* What Load of internal/config makes of the environment, and what it      *)
(* refuses: with ParseRules of internal/ghurl/rule.go.  Operators only.    *)
(*                                                                         *)
(* The environment is a record with one field for each variable the model  *)
(* has.  A path is split at its slashes as in GhUrl, so that "" is <<"">>, *)
(* "/gh" is <<"","gh">> and "gh//" is <<"gh","","">>.  A list is the       *)
(* sequence of its items, a rule that of its parts between slashes.        *)
(***************************************************************************)
EXTENDS GhUrl, Integers

CONSTANTS
    Unplain,     \* path segments with "?", "#" or a space
    Short,       \* words of fewer than 16 characters
    Unpathable,  \* words with "/", "?", "#" or a space
    Unset,       \* a variable that is not there or empty
    Unreadable,  \* a file that cannot be read
    Unparsable,  \* a word that is not what the variable is for
    Refused,     \* an error
    DefaultRedirectHosts,
    Kilo,        \* 2^10 in the code: what a K multiplies by
    IntLimit     \* 2^63 in the code: integers are -IntLimit .. IntLimit - 1

ASSUME MarksAreNoWords == Unset \notin {"1", "gh", Unparsable} /\ Unparsable # "1"
ASSUME Sizes == Kilo \in Nat \ {0} /\ IntLimit \in Nat \ {0}

MaxInt == IntLimit - 1
Wrap(n) == ((n + IntLimit) % (2 * IntLimit)) - IntLimit

-----------------------------------------------------------------------------
(* Readers of single variables. *)

\* secret: the file is preferred to the word, which may be Unset too.
Secret(word, file) ==
    IF file # Unset THEN file ELSE IF word # Unset THEN word ELSE ""

\* envBool and envDuration: what does not parse is the default.
EnvBool(word, def) == IF word \in {Unset, Unparsable} THEN def ELSE word = "1"
EnvDuration(word, def) == IF word \in {Unset, Unparsable} THEN def ELSE word

\* envInt, and the check that follows it.
EnvInt(word, def) ==
    IF word = Unset THEN def ELSE IF word = Unparsable \/ word < 0 THEN Refused ELSE word

\* envBytes: a number n with a unit, 0 for bytes, 1 for K or KB and so on.
Multiple(unit) == <<1, Kilo, Kilo * Kilo, Kilo * Kilo * Kilo>>[unit + 1]

EnvBytesBySum(word, def) ==   \* seeded fault: the units are steps of 1 << 10
    IF word = Unset THEN def
    ELSE IF word = Unparsable \/ word.n \notin 0 .. MaxInt THEN Refused
    ELSE Wrap(word.n * (IF word.unit = 0 THEN 1 ELSE Kilo * word.unit))
EnvBytes(word, def) ==
    IF word = Unset THEN def
    ELSE IF word = Unparsable \/ word.n \notin 0 .. MaxInt THEN Refused
    ELSE Wrap(word.n * Multiple(word.unit))

-----------------------------------------------------------------------------
(* Paths. *)

Plain(path) == \A i \in DOMAIN path : path[i] \notin Unplain
EmptyInside(path) == \E i \in 2 .. Len(path) - 1 : path[i] = ""
Rooted(path) == IF Len(path) > 1 /\ path[1] = "" THEN path ELSE <<"">> \o path

\* normalizePrefix: the segments between the slashes at both ends.
NormalizePrefix(path) ==
    LET rooted == Rooted(IF path = <<"">> THEN <<"", "">> ELSE path)
        closed == IF Last(rooted) = "" THEN rooted ELSE Append(rooted, "")
    IN  IF ~Plain(path) \/ EmptyInside(closed) THEN Refused
        ELSE SubSeq(closed, 2, Len(closed) - 1)

\* normalizeStatusPath: the segments, none when the page is off.
NormalizeStatusPath(path) ==
    LET rooted == Rooted(path)
        named == {i \in DOMAIN rooted : rooted[i] # ""}
        trimmed == SubSeq(rooted, 1, CHOOSE i \in named : \A j \in named : j <= i)
    IN  IF path = <<"">> THEN <<>>
        ELSE IF ~Plain(path) \/ named = {} \/ EmptyInside(trimmed) THEN Refused
        ELSE Tail(trimmed)

-----------------------------------------------------------------------------
(* Lists. *)

\* rules, with ParseRules: "owner", "owner/" or "owner/repo".
Rules(list) ==
    IF \E i \in DOMAIN list : list[i][1] = "" \/ Len(list[i]) > 2 THEN Refused
    ELSE {[owner |-> list[i][1], repo |-> IF Len(list[i]) = 1 THEN "" ELSE list[i][2]] :
            i \in DOMAIN list}

DefaultHosts(list) ==
    IF \E i \in DOMAIN list : list[i] \notin SupportedHosts THEN Refused ELSE list

\* A list of separators only has no items, which is not the default.
HostsToFollow(list) ==
    IF list = Unset THEN DefaultRedirectHosts ELSE {list[i] : i \in DOMAIN list}

-----------------------------------------------------------------------------
(* Load. *)

\* What Load has read before it checks how the parts fit.
Loaded(env) ==
    [token |-> Secret(env.token, env.tokenFile),
     anonymous |-> EnvBool(env.anonymous, FALSE),
     upstreamToken |-> Secret(env.upstreamToken, env.upstreamTokenFile),
     source |-> IF env.source = Unset THEN "env" ELSE env.source,
     refresh |-> EnvDuration(env.refresh, 5),
     prefix |-> NormalizePrefix(env.prefix),
     allow |-> Rules(env.allow), deny |-> Rules(env.deny),
     defaults |-> DefaultHosts(env.defaults),
     statusPath |-> NormalizeStatusPath(env.statusPath),
     statusAuth |-> IF env.statusAuth = Unset THEN "token" ELSE env.statusAuth,
     maxRedirects |-> EnvInt(env.maxRedirects, 5),
     sizeLimit |-> EnvBytes(env.sizeLimit, 0),
     redirectHosts |-> HostsToFollow(env.redirectHosts)]

\* loadUpstreamSource.
SourceRefused(c) ==
    \/ c.source \notin {"env", "gh"}
    \/ c.source = "gh" /\ (c.upstreamToken # "" \/ c.refresh < 0)

TokenRefusedOnlyIfBad(c) ==   \* seeded fault: no token at all is let through
    c.token # "" /\ (c.anonymous \/ c.token \in Short \cup Unpathable)
TokenRefused(c) ==
    \/ c.anonymous = (c.token # "")
    \/ c.token # "" /\ c.token \in Short \cup Unpathable

\* The configuration, Refused with some error: which one is left out.
Load(env) ==
    LET c == Loaded(env)
    IN  IF \/ Refused \in {c.prefix, c.allow, c.deny, c.defaults, c.statusPath,
                           c.maxRedirects, c.sizeLimit}
           \/ Unreadable \in {c.token, c.upstreamToken}
           \/ TokenRefused(c) \/ SourceRefused(c)
           \/ c.statusAuth \notin {"token", "none"}
        THEN Refused ELSE c
=============================================================================
