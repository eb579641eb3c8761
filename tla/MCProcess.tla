------------------------------ MODULE MCProcess ------------------------------
(* Instances of Process for TLC: environments that differ in one setting or    *)
(* two from one that is accepted.                                              *)
EXTENDS Process, TLC

Base ==
    [prefix |-> <<"">>, token |-> "long", tokenFile |-> Unset, upstreamToken |-> Unset,
     upstreamTokenFile |-> Unset, anonymous |-> Unset, source |-> Unset, refresh |-> Unset,
     allow |-> <<>>, deny |-> <<>>, defaults |-> <<>>, statusPath |-> <<"">>,
     statusAuth |-> Unset, maxRedirects |-> Unset, sizeLimit |-> Unset, redirectHosts |-> Unset]

Bytes(n, unit) == [n |-> n, unit |-> unit]

Tokens ==
    {[Base EXCEPT !.token = word, !.tokenFile = from, !.anonymous = anonymous] :
        word \in {Unset, "long", "short", "sla/sh"},
        from \in {Unset, "", "short", Unreadable}, anonymous \in {Unset, "0", "1", Unparsable}}
Sources ==
    {[Base EXCEPT !.source = source, !.upstreamToken = word, !.upstreamTokenFile = from, !.refresh = refresh] :
        source \in {Unset, "env", "gh", "other"}, word \in {Unset, "pat"},
        from \in {Unset, "pat", Unreadable}, refresh \in {Unset, Unparsable, -1}}
Paths ==
    {[Base EXCEPT !.prefix = path] :
        path \in {<<"gh">>, <<"", "gh">>, <<"gh", "">>, <<"", "a", "", "b">>, <<"", "", "">>, <<"a?">>}}
    \cup {[Base EXCEPT !.statusPath = path, !.statusAuth = auth] :
        path \in {<<"">>, <<"stat">>, <<"", "stat", "", "">>, <<"", "">>, <<"", "a", "", "b">>, <<"a?">>},
        auth \in {Unset, "none", "basic"}}
Lists ==
    {[Base EXCEPT !.allow = list, !.deny = list] :
        list \in {<<<<"o">>>>, <<<<"o", "r">>, <<"*", "s">>>>, <<<<"o">>, <<"", "r">>>>, <<<<"o", "r", "s">>>>}}
    \cup {[Base EXCEPT !.defaults = hosts, !.redirectHosts = hosts] :
        hosts \in {<<"github.com">>, <<"github.com", "gitlab.com">>}}
    \cup {[Base EXCEPT !.redirectHosts = <<>>]}
Numbers ==
    {[Base EXCEPT !.maxRedirects = n] : n \in {Unset, Unparsable, -1, 0, 3}}
    \cup {[Base EXCEPT !.sizeLimit = limit] :
        limit \in {Unparsable} \cup {Bytes(n, unit) : n \in {-1, 0, 1, 3, 63, 127, 128}, unit \in 0 .. 3}}

MCEnvironments == Tokens \cup Sources \cup Paths \cup Lists \cup Numbers

HostsFile == {<<[at |-> "top", key |-> "host", value |-> ""],
                [at |-> "deep", key |-> "oauth_token", value |-> "t1"]>>}
Nowhere == [w \in {} |-> w]
=============================================================================
