------------------------------ MODULE MCGhCli ------------------------------
(* Instances of GhCli for TLC. *)
EXTENDS GhCli

Line(at, key, value) == [at |-> at, key |-> key, value |-> value]
Host == Line("top", "host", "")
Other == Line("top", "other", "")
Comment == Line("skip", "", "")
User == Line("deep", "user", "t1")
Holds(word) == Line("deep", "oauth_token", word)

\* The token of another host before ours, after ours and instead of ours; two
\* copies; an empty one first; none.
HostsFiles == {
    <<Other, Holds("t2"), Host, Comment, User, Holds("t1")>>,
    <<Host, Holds("t1"), Holds("t1"), Other, Holds("t2")>>,
    <<Holds("t1"), Host, User, Comment, Other, Holds("t2")>>,
    <<Host, Holds(""), Holds("t2")>>}
=============================================================================
