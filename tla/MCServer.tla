------------------------------ MODULE MCServer ------------------------------
(* Instances of Server for TLC: what Load makes of environments, and requests *)
(* of every form.                                                            *)
EXTENDS Server, Config, TLC

\* Words that are percent-encoded, each with what it decodes to; the rest decode
\* to themselves.
WholeURL == "https%3A%2F%2Fgithub.com%2Fo%2Fr%2Fblob%2Ff"
Encoded == ("%tok" :> <<"tok">>) @@ ("%stat" :> <<"stat">>) @@ ("http%3A" :> <<"http:">>)
           @@ ("f%2Fg" :> <<"f", "g">>)
           @@ (WholeURL :> <<"https:", "", "github.com", "o", "r", "blob", "f">>)
EncodedScheme == {"http%3A", WholeURL}
Glued == "https:github.com" :> "github.com"
HostOf == [h \in SupportedHosts \cup {"", "o", "p", "r", "s", "tok", "wrong", "stat", "gitlab.com", "elsewhere"} |-> h]
          @@ ("me@www.github.com:443" :> "www.github.com")
WithDot == {"gitlab.com", "me@www.github.com:443"} \cup SupportedHosts
AllWords == DOMAIN HostOf \cup DOMAIN Glued
          \cup {"gh", "json", "nothing", "https:", "http:", "blob", "raw", "info", "refs", "id", "f",
                "releases", "tags", "main"}
Decode == [w \in AllWords |-> <<w>>] @@ Encoded

-----------------------------------------------------------------------------
(* Embedded URLs. *)

\* Things on GitHub; any three segments are a gist, any four a raw file.
Paths == {<<"o", "r", "blob", "f">>, <<"o", "r", "blob", "f%2Fg">>, <<"o", "s", "info", "refs">>,
          <<"o", "r", "releases", "blob", "f">>, <<"o", "r", "tags">>, <<"o", "r", "main", "f">>,
          <<"p", "id", "f">>}

\* Ways to write that a host is meant, with no slash, one and two.
Spellings(host) ==
    {<<"https:", "", host>>, <<host>>}
    \cup IF host # "github.com" THEN {}
         ELSE {<<"http:", host>>, <<"https:github.com">>, <<"http%3A", "", host>>, <<"https:", "", "me@www.github.com:443">>}
SpelledHosts == {"github.com", "gist.github.com", "raw.githubusercontent.com", "gitlab.com"}
NamedURLs(paths) == {s \o path : s \in UNION {Spellings(host) : host \in SpelledHosts}, path \in paths}
URLs == NamedURLs(Paths) \cup Paths \cup {<<"https:", "", "">> \o path : path \in Paths} \cup {<<WholeURL>>}

\* A release, which is a raw file and a gist as well.
AnyThing == {<<"o", "r", "releases", "blob", "f">>}

\* A blob whose branch is called blob, and a raw URL with such a directory.
BlobURLs == NamedURLs({<<"o", "blob", "blob", "f">>, <<"o", "r", "raw", "main", "blob", "f">>})

-----------------------------------------------------------------------------
(* Environments, and what Load makes of them. *)

Environment ==
    [prefix |-> <<"gh">>, token |-> "tok", tokenFile |-> Unset, upstreamToken |-> Unset,
     upstreamTokenFile |-> Unset, anonymous |-> Unset, source |-> Unset, refresh |-> Unset,
     allow |-> <<>>, deny |-> <<>>, defaults |-> <<>>, statusPath |-> <<"", "stat">>,
     statusAuth |-> Unset, maxRedirects |-> Unset, sizeLimit |-> Unset, redirectHosts |-> Unset]
Anonymous == [Environment EXCEPT !.token = Unset, !.anonymous = "1"]
ShortForm == <<"github.com", "raw.githubusercontent.com">>

Environments ==
    {[e EXCEPT !.prefix = prefix, !.allow = allow, !.deny = <<<<"o", "s">>>>] :
        e \in {Environment, Anonymous}, prefix \in {<<"">>, <<"", "gh">>}, allow \in {<<>>, <<<<"o">>>>}}
    \cup {[e EXCEPT !.defaults = defaults] :
            e \in {Environment, [Anonymous EXCEPT !.prefix = <<"">>]},
            defaults \in {ShortForm, <<"raw.githubusercontent.com", "github.com">>, <<"gist.github.com">>}}
    \cup {[Environment EXCEPT !.statusAuth = "none"],
          [Environment EXCEPT !.statusPath = <<"">>, !.deny = <<<<"*", "r">>>>],
          [Environment EXCEPT !.statusPath = <<"gh", "">>],
          [Environment EXCEPT !.statusPath = <<"", "gh", "to">>],
          [Anonymous EXCEPT !.statusPath = <<"", "gh", "o">>, !.defaults = ShortForm]}
GateConfigs == {Load(e) : e \in Environments}

-----------------------------------------------------------------------------
(* Requests. *)

PlainHeaders == [proxy |-> "", scheme |-> "", user |-> "", pass |-> ""]
TokenHeader == [PlainHeaders EXCEPT !.proxy = "tok"]
Headers == {PlainHeaders, TokenHeader, [PlainHeaders EXCEPT !.proxy = "wrong"]}
           \cup {[proxy |-> "", scheme |-> "bearer", user |-> "", pass |-> p] : p \in {"tok", "wrong"}}
           \cup {[proxy |-> "", scheme |-> "basic", user |-> u, pass |-> p] :
                    u \in {"tok", "wrong"}, p \in {"", "tok"}}

Ask(method, raw, headers, query) ==
    [method |-> method, raw |-> raw, headers |-> headers, query |-> query]

BlobURL == <<"https:", "", "github.com", "o", "r", "blob", "f">>
GitURL == <<"https:", "github.com", "o", "s", "info", "refs">>
GistURL == <<"gist.github.com", "p", "id", "f">>
Mounts == {<<>>, <<"gh">>}

\* The token in every place, right and wrong.
EmbeddedPaths(urls) ==
    {prefix \o token \o url :
        prefix \in Mounts, token \in {<<>>, <<"tok">>, <<"%tok">>, <<"wrong">>}, url \in urls}
StatusPaths == {<<"stat">> \o sub : sub \in {<<>>, <<"">>, <<"json">>, <<"nothing">>}}
               \cup {<<"%stat", "json">>, <<"gh", "o", "r", "raw", "f">>}

\* Of all these URLs a few are forwarded, each of them in every spelling.
GateAsks ==
    {Ask("GET", raw, PlainHeaders, "") :
        raw \in EmbeddedPaths({BlobURL, GitURL, GistURL, <<"">>, <<"https:", "nothing">>}) \cup {<<>>}}
    \cup {Ask("GET", raw, TokenHeader, "") : raw \in EmbeddedPaths({BlobURL, <<"">>}) \cup {<<>>}}
    \cup {Ask("GET", <<"gh">> \o BlobURL, h, "") : h \in Headers}
    \cup {Ask(m, prefix \o BlobURL, h, "") : m \in {"PUT", "OPTIONS"}, prefix \in Mounts, h \in Headers}
    \cup {Ask(m, raw, h, q) : m \in {"GET", "POST"}, raw \in StatusPaths,
                              h \in {PlainHeaders, TokenHeader}, q \in {"", "tok", "wrong"}}
    \cup {Ask("OPTIONS", prefix \o u, TokenHeader, "") : prefix \in Mounts, u \in URLs}
    \cup {Ask("GET", prefix \o u, TokenHeader, "") : prefix \in Mounts, u \in AnyThing \cup NamedURLs(AnyThing)}

\* What the URLs of all these requests name, one way or another.
NamedBy(configs, asks) ==
    {NameOf(TargetOf(p[1], p[2])) : p \in {q \in configs \X asks : UnderPrefix(q[1], q[2])}}
GateNames == NamedBy(GateConfigs, GateAsks)

\* Few requests, whose exchanges then take every course.
OneConfig == {Load(Environment)}
ExchangeAsks ==
    {Ask(m, <<"gh", "tok">> \o BlobURL, PlainHeaders, "") : m \in {"GET", "POST", "OPTIONS"}}
    \cup {Ask("GET", <<"gh">> \o BlobURL, PlainHeaders, "")}
ExchangeNames == NamedBy(OneConfig, ExchangeAsks)
BlobAsks == {Ask("GET", <<"gh", "tok">> \o u, PlainHeaders, "") : u \in BlobURLs}

BlobNames == NamedBy(OneConfig, BlobAsks)

\* What the configurations give the constants.  TLC evaluates a definition once
\* but the body of one that replaces a constant every time, so the bodies are names.
MCUnescape == Decode
MCAuthority == HostOf
MCGateConfigs == GateConfigs
MCOneConfig == OneConfig
MCGateAsks == GateAsks
MCExchangeAsks == ExchangeAsks
MCBlobAsks == BlobAsks
MCGateNames == GateNames
MCExchangeNames == ExchangeNames
MCBlobNames == BlobNames

DeclaredLengths == {-1, 1}
UnknownLength == {-1}
=============================================================================
