------------------------------- MODULE Meaning -------------------------------
(***************************************************************************)
(* What a client means by an embedded URL, said of how one is written and  *)
(* not of how it is read: the reference that GhUrl is held against.        *)
(* Operators only, from the comments of internal/ghurl/ghurl.go.           *)
(***************************************************************************)
EXTENDS GhUrl

Schemes == {"https:", "http:"}

\* A word that begins no URL.
Bare(word) == word \notin Schemes \cup EncodedSchemes \cup DOMAIN Unglued

\* Ways to write an authority in front of a path: with the two slashes of a
\* scheme, with one, with none, and by itself (ghurl.go:344-350).
Spells(spelling, word) ==
    \/ spelling = <<word>> /\ Bare(word)
    \/ \E scheme \in Schemes : \/ spelling = <<scheme, "", word>>
                               \/ spelling = <<scheme, word>> /\ word # ""
    \/ \E glued \in DOMAIN Unglued : spelling = <<glued>> /\ word = Unglued[glued]

\* Some clients encode the whole URL (ghurl.go:350).
Unwrapped(raw) == IF raw[1] \in EncodedSchemes THEN Decoded(raw) ELSE raw

-----------------------------------------------------------------------------
(* The shapes that Kind lists (ghurl.go:22-28): on which hosts, how many     *)
(* segments of any name come first, what follows them, and whether there is  *)
(* more behind it.                                                           *)

GitHub == {"github.com", "www.github.com"}
Shapes == {
    [kind |-> "release", hosts |-> GitHub, any |-> 2, then |-> {<<"releases">>, <<"archive">>}, end |-> "more"],
    [kind |-> "blob", hosts |-> GitHub, any |-> 2, then |-> {<<"blob">>, <<"raw">>}, end |-> "more"],
    [kind |-> "git", hosts |-> GitHub, any |-> 2, end |-> "here",
     then |-> {<<"info", "refs">>, <<"git-upload-pack">>, <<"git-receive-pack">>}],
    [kind |-> "tags", hosts |-> GitHub, any |-> 2, then |-> {<<"tags">>}, end |-> "open"],
    [kind |-> "raw", hosts |-> {"raw.githubusercontent.com", "raw.github.com"}, any |-> 3,
     then |-> {<<>>}, end |-> "more"],
    [kind |-> "gist", hosts |-> {"gist.github.com", "gist.githubusercontent.com"}, any |-> 2,
     then |-> {<<>>}, end |-> "more"]}

\* A gist has no repository.
Names(kind) == IF kind = "gist" THEN 1 ELSE 2

Fits(shape, s) ==
    /\ \A i \in 1 .. Names(shape.kind) : i <= Len(s) /\ s[i] # ""
    /\ \E w \in shape.then :
          LET n == shape.any + Len(w) IN
          /\ n <= Len(s) /\ SubSeq(s, shape.any + 1, n) = w
          /\ shape.end = "here" => Len(s) = n
          /\ shape.end = "more" => Len(s) > n /\ SubSeq(s, n + 1, Len(s)) # <<"">>

\* A blob is wanted as the file and not as the page about it: the segment behind
\* owner and repository says raw (ghurl.go:140-141).
AsFile(path) ==
    [i \in DOMAIN path |->
        IF path[i] = "blob" /\ Len(Decoded(SubSeq(path, 1, i - 1))) = 2 THEN "raw" ELSE path[i]]

\* What a path names on a host.
KindsAt(host, s) == {shape.kind : shape \in {x \in Shapes : host \in x.hosts /\ Fits(x, s)}}
Thing(host, path) ==
    LET s == Decoded(path)
        kind == CHOOSE k \in KindsAt(host, s) : TRUE
    IN  IF ~Decodable(path) \/ KindsAt(host, s) = {} THEN NoTarget
        ELSE [kind |-> kind, owner |-> s[1], repo |-> IF Names(kind) = 2 THEN s[2] ELSE "",
              host |-> IF host \in GitHub THEN "github.com" ELSE host,
              path |-> IF kind = "blob" THEN AsFile(path) ELSE path]

\* What an authority and a path mean: a host that is named is meant, and else the
\* first default host that has such a thing, with the word as an owner's
\* (ghurl.go:66-73, 82-86).
NamesHost(word) == Authority[word] \in SupportedHosts \/ word \in Dotted
Meant(word, path, defaults) ==
    LET whole == IF Authority[word] = "" THEN path ELSE <<Authority[word]>> \o path
        at == {i \in DOMAIN defaults : Thing(defaults[i], whole) # NoTarget}
    IN  IF NamesHost(word) THEN Thing(Authority[word], path)
        ELSE IF at = {} THEN NoTarget
        ELSE Thing(defaults[CHOOSE i \in at : \A j \in at : i <= j], whole)

\* A target is the thing that was meant, up to the path of a blob with another
\* "blob" in it.
SecondBlob(t) == t.kind = "blob" /\ \E i \in DOMAIN t.path : t.path[i] = "blob"
Is(t, thing) ==
    /\ [t EXCEPT !.path = thing.path] = thing
    /\ ~SecondBlob(thing) => t.path = thing.path
=============================================================================
