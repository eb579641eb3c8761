-------------------------------- MODULE GhUrl --------------------------------
(***************************************************************************)
(* Which GitHub URL an embedded URL stands for: internal/ghurl/ghurl.go.   *)
(* Operators only.                                                         *)
(*                                                                         *)
(* A string with slashes is the sequence of what stands between them:      *)
(* "https://github.com/o/r" is <<"https:","","github.com","o","r">>, a     *)
(* path "/o/r" that of the rest, "/" is <<"">> and no path at all <<>>.    *)
(* What a single word is, the CONSTANTS say.  A word stands for all its    *)
(* spellings in upper and lower case where the code folds case (schemes    *)
(* and hosts).  The query is carried through unchanged and left out.       *)
(***************************************************************************)
EXTENDS Naturals, Sequences, SequencesExt

CONSTANTS
    Unescape,        \* what a word is without percent-encoding: a sequence,
                     \* an encoded slash counts; undefined for a broken one
    EncodedSchemes,  \* words that begin with "https%3a" or "http%3a"
    Unglued,         \* words that begin with "https:" or "http:" and what follows
    Authority,       \* host of what url.Parse takes for an authority, without
                     \* user and port; undefined for a word it refuses
    Dotted,          \* the authorities whose host has a dot or a colon
    None             \* no kind

Decodable(path) == \A i \in DOMAIN path : path[i] \in DOMAIN Unescape
Decoded(path) == FlattenSeq([i \in DOMAIN path |-> Unescape[path[i]]])

-----------------------------------------------------------------------------
(* From the request to a URL. *)

\* RepairScheme: what follows the scheme, however many slashes are left of it.
AfterScheme(s) ==
    IF s[1] \in {"https:", "http:"} /\ Len(s) >= 3 /\ s[2] = "" THEN SubSeq(s, 3, Len(s))
    ELSE IF s[1] \in {"https:", "http:"} /\ Len(s) >= 2 THEN Tail(s)
    ELSE IF s[1] \in DOMAIN Unglued THEN <<Unglued[s[1]]>> \o Tail(s)
    ELSE s
RepairScheme(raw) ==
    AfterScheme(IF raw[1] \in EncodedSchemes /\ Decodable(raw) THEN Decoded(raw) ELSE raw)

\* prepare: authority and escaped path; an https URL without user in the end.
NoURL == [authority |-> None, path |-> <<>>]
Prepare(raw) ==
    LET s == RepairScheme(raw)
    IN  IF s[1] \in DOMAIN Authority /\ Decodable(Tail(s))
        THEN [authority |-> s[1], path |-> Tail(s)] ELSE NoURL

\* namesAHost and hostless, of a URL that was prepared.
SupportedHosts == {"github.com", "www.github.com", "raw.githubusercontent.com",
                   "raw.github.com", "gist.github.com", "gist.githubusercontent.com"}
NamesAHost(u) == Authority[u.authority] \in SupportedHosts \/ u.authority \in Dotted
Hostless(u) ==
    IF Authority[u.authority] # "" THEN <<Authority[u.authority]>> \o u.path
    ELSE IF u.path = <<>> THEN <<"">> ELSE u.path

-----------------------------------------------------------------------------
(* Path shapes, on the decoded path s.  None of these has an empty tail. *)

HasTail(s, n) == Len(s) > n /\ SubSeq(s, n + 1, Len(s)) # <<"">>
OwnerRepo(s) == HasTail(s, 2) /\ s[1] # "" /\ s[2] # ""

\* The kind of a path on github.com, None when no matcher takes it.
GithubKind(s) ==
    IF ~OwnerRepo(s) THEN None
    ELSE IF s[3] \in {"releases", "archive"} /\ HasTail(s, 3) THEN "release"
    ELSE IF s[3] \in {"blob", "raw"} /\ HasTail(s, 3) THEN "blob"
    ELSE IF SubSeq(s, 3, Len(s)) \in {<<"info", "refs">>, <<"git-upload-pack">>, <<"git-receive-pack">>}
    THEN "git"
    ELSE IF s[3] = "tags" THEN "tags" ELSE None

RawKind(s) == IF OwnerRepo(s) /\ HasTail(s, 3) THEN "raw" ELSE None
GistKind(s) == IF HasTail(s, 2) /\ s[1] # "" THEN "gist" ELSE None

\* hostCandidates, then the first candidate that matches.
KindOf(host, s) ==
    CASE host \in {"github.com", "www.github.com"} -> GithubKind(s)
      [] host \in {"raw.githubusercontent.com", "raw.github.com"} -> RawKind(s)
      [] host \in {"gist.github.com", "gist.githubusercontent.com"} -> GistKind(s)
      [] OTHER -> None

\* rewriteBlobToRaw: the first "/blob/" of the escaped path.
RewriteBlobToRaw(path) ==
    LET blobs == {i \in 1 .. Len(path) - 1 : path[i] = "blob"}
    IN  IF blobs = {} THEN path
        ELSE [path EXCEPT ![CHOOSE i \in blobs : \A j \in blobs : i <= j] = "raw"]

TargetKinds == {"release", "blob", "git", "tags", "raw", "gist"}

\* match.  A gist has no repository.
NoTarget == [kind |-> None, owner |-> "", repo |-> "", host |-> "", path |-> <<>>]
Match(u) ==
    LET host == Authority[u.authority]
        s == Decoded(u.path)
        kind == KindOf(host, s)
    IN  IF kind = None THEN NoTarget
        ELSE [kind |-> kind, owner |-> s[1], repo |-> IF kind = "gist" THEN "" ELSE s[2],
              host |-> IF host = "www.github.com" THEN "github.com" ELSE host,
              path |-> IF kind = "blob" THEN RewriteBlobToRaw(u.path) ELSE u.path]

-----------------------------------------------------------------------------
\* ParseWithDefaults.
AtDefault(u, host) ==
    LET v == Prepare(<<host>> \o Hostless(u)) IN IF v = NoURL THEN NoTarget ELSE Match(v)

Fallback(u, defaults) ==
    LET found == {i \in DOMAIN defaults : AtDefault(u, defaults[i]) # NoTarget}
    IN  IF found = {} THEN NoTarget
        ELSE AtDefault(u, defaults[CHOOSE i \in found : \A j \in found : i <= j])

ParseWithDefaultsAlways(raw, defaults) ==   \* seeded fault: a host that was named is retried
    LET u == Prepare(raw)
    IN  IF u = NoURL THEN NoTarget
        ELSE IF Match(u) # NoTarget THEN Match(u) ELSE Fallback(u, defaults)
ParseWithDefaults(raw, defaults) ==
    LET u == Prepare(raw)
    IN  IF u = NoURL THEN NoTarget
        ELSE IF Match(u) # NoTarget THEN Match(u)
        ELSE IF NamesAHost(u) THEN NoTarget ELSE Fallback(u, defaults)
=============================================================================
