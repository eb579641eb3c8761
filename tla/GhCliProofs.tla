---------------------------- MODULE GhCliProofs ----------------------------
(***************************************************************************)
(* Theorems on GhCli, for every set of credentials, every content of       *)
(* hosts.yml and any number of changes of the world.                       *)
(***************************************************************************)
EXTENDS GhCli, Induction

\* While gh runs, what it prints or has printed it could print since its start.
PrintedIsFresh == pc = "running" => login \in seen /\ (printed = "" \/ printed \in seen)

GhInv == TypeOK /\ ServesWithCredential /\ PrintedIsFresh

-----------------------------------------------------------------------------
(* The scanner.                                                               *)

\* Where a token stands for the scanner that is at line i, inside the block or not.
InBlock(lines, i, inHost, j) ==
    \/ inHost /\ \A k \in i .. j - 1 : lines[k].at # "top"
    \/ \E t \in i .. j - 1 :
          /\ lines[t].at = "top" /\ lines[t].key = "host"
          /\ \A k \in t + 1 .. j - 1 : lines[k].at # "top"
Tokens(lines, i, inHost) ==
    {j \in i .. Len(lines) : lines[j].at = "deep" /\ lines[j].key = "oauth_token" /\ InBlock(lines, i, inHost, j)}
FirstToken(lines, i, inHost) ==
    LET found == Tokens(lines, i, inHost)
    IN  IF found = {} THEN "" ELSE lines[CHOOSE j \in found : \A k \in found : j <= k].value

\* One round of the loop, f being what the rest of the loop returns; a function
\* is the scanner if it is one round followed by itself.
Round(lines, f, i, inHost) ==
    IF i > Len(lines) THEN ""
    ELSE IF lines[i].at = "skip" THEN f[i + 1][inHost]
    ELSE IF lines[i].at = "top" THEN f[i + 1][lines[i].key = "host"]
    ELSE IF inHost /\ lines[i].key = "oauth_token" THEN lines[i].value
    ELSE f[i + 1][inHost]
Scans(lines, f) ==
    f = [i \in 1 .. Len(lines) + 1 |-> [inHost \in BOOLEAN |-> Round(lines, f, i, inHost)]]

LEMMA Unfold ==
    ASSUME NEW lines, NEW f, Scans(lines, f), NEW i \in 1 .. Len(lines) + 1
    PROVE  /\ f[i] = [inHost \in BOOLEAN |-> f[i][inHost]]
           /\ \A inHost \in BOOLEAN : f[i][inHost] = Round(lines, f, i, inHost)
<1>1. f[i] = [inHost \in BOOLEAN |-> Round(lines, f, i, inHost)]
    BY DEF Scans
<1>. QED BY <1>1

LEMMA ScansScan ==
    ASSUME NEW lines, NEW f, Scans(lines, f), \A g : Scans(lines, g) => g = f
    PROVE  ScannedWord(lines) = f[1][FALSE]
BY DEF ScannedWord, Scans, Round

LEMMA BlockStep ==
    ASSUME NEW lines \in Seq(Lines), NEW i \in 1 .. Len(lines), NEW inHost \in BOOLEAN, NEW j \in i + 1 .. Len(lines)
    PROVE  /\ lines[i].at # "top" => (InBlock(lines, i, inHost, j) <=> InBlock(lines, i + 1, inHost, j))
           /\ lines[i].at = "top" =>
                 (InBlock(lines, i, inHost, j) <=> InBlock(lines, i + 1, lines[i].key = "host", j))
<1>1. /\ i \in i .. j - 1 /\ i \in Nat /\ j \in Nat
      /\ i .. j - 1 = {i} \cup (i + 1 .. j - 1)
      /\ i \notin i + 1 .. j - 1
    OBVIOUS
<1>2. ASSUME lines[i].at # "top"
      PROVE  InBlock(lines, i, inHost, j) <=> InBlock(lines, i + 1, inHost, j)
    BY <1>1, <1>2 DEF InBlock
<1>3. ASSUME lines[i].at = "top"
      PROVE  InBlock(lines, i, inHost, j) <=> InBlock(lines, i + 1, lines[i].key = "host", j)
  <2>1. ~(\A k \in i .. j - 1 : lines[k].at # "top")
      BY <1>1, <1>3
  <2>. QED BY <1>1, <1>3, <2>1 DEF InBlock
<1>. QED BY <1>2, <1>3

LEMMA TokensStep ==
    ASSUME NEW lines \in Seq(Lines), NEW i \in 1 .. Len(lines), NEW inHost \in BOOLEAN
    PROVE  /\ lines[i].at = "top" => Tokens(lines, i, inHost) = Tokens(lines, i + 1, lines[i].key = "host")
           /\ lines[i].at # "top" /\ ~(lines[i].at = "deep" /\ inHost /\ lines[i].key = "oauth_token")
                 => Tokens(lines, i, inHost) = Tokens(lines, i + 1, inHost)
           /\ lines[i].at = "deep" /\ inHost /\ lines[i].key = "oauth_token" => i \in Tokens(lines, i, inHost)
<1>1. i .. Len(lines) = {i} \cup (i + 1 .. Len(lines)) /\ i .. i - 1 = {} /\ i \in i .. Len(lines)
    OBVIOUS
<1>2. InBlock(lines, i, inHost, i) <=> inHost
    BY <1>1 DEF InBlock
<1>3. i \in Tokens(lines, i, inHost) <=> lines[i].at = "deep" /\ inHost /\ lines[i].key = "oauth_token"
    BY <1>1, <1>2 DEF Tokens
<1>4. CASE lines[i].at = "top"
  <2>1. \A j \in i + 1 .. Len(lines) :
           InBlock(lines, i, inHost, j) <=> InBlock(lines, i + 1, lines[i].key = "host", j)
      BY <1>4, BlockStep
  <2>. QED BY <1>1, <1>3, <1>4, <2>1 DEF Tokens
<1>5. CASE lines[i].at # "top"
  <2>1. \A j \in i + 1 .. Len(lines) :
           InBlock(lines, i, inHost, j) <=> InBlock(lines, i + 1, inHost, j)
      BY <1>5, BlockStep
  <2>. QED BY <1>1, <1>3, <1>5, <2>1 DEF Tokens
<1>. QED BY <1>4, <1>5

\* What the scanner returns from line i on is the first token there.
LEMMA FirstTokenStep ==
    ASSUME NEW lines \in Seq(Lines), NEW i \in 1 .. Len(lines) + 1, NEW inHost \in BOOLEAN
    PROVE  FirstToken(lines, i, inHost) =
            IF i > Len(lines) THEN ""
            ELSE IF lines[i].at = "skip" THEN FirstToken(lines, i + 1, inHost)
            ELSE IF lines[i].at = "top" THEN FirstToken(lines, i + 1, lines[i].key = "host")
            ELSE IF inHost /\ lines[i].key = "oauth_token" THEN lines[i].value
            ELSE FirstToken(lines, i + 1, inHost)
<1>1. CASE i > Len(lines)
  <2>1. Tokens(lines, i, inHost) = {}
      BY <1>1 DEF Tokens
  <2>. QED BY <1>1, <2>1 DEF FirstToken
<1>2. CASE i <= Len(lines)
  <2>1. i \in 1 .. Len(lines) /\ ~(i > Len(lines)) /\ lines[i].at \in {"skip", "top", "deep"}
    <3>1. Len(lines) \in Nat /\ i \in 1 .. Len(lines)
        BY <1>2
    <3>2. lines[i] \in Lines
        BY <3>1
    <3>. QED BY <1>2, <3>1, <3>2 DEF Lines
  <2>2. CASE lines[i].at = "top"
    <3>1. Tokens(lines, i, inHost) = Tokens(lines, i + 1, lines[i].key = "host")
        BY <2>1, <2>2, TokensStep
    <3>2. FirstToken(lines, i, inHost) = FirstToken(lines, i + 1, lines[i].key = "host")
        BY <3>1 DEF FirstToken
    <3>. QED BY <2>1, <2>2, <3>2
  <2>3. CASE lines[i].at = "deep" /\ inHost /\ lines[i].key = "oauth_token"
    <3> DEFINE found == Tokens(lines, i, inHost)
    <3>1. i \in found
        BY <2>1, <2>3, TokensStep
    <3>2. \A j \in found : j \in Nat /\ i <= j
        BY <2>1 DEF Tokens
    <3>3. FirstToken(lines, i, inHost) =
            IF found = {} THEN "" ELSE lines[CHOOSE j \in found : \A k \in found : j <= k].value
        BY DEF FirstToken
    <3> HIDE DEF found
    <3> DEFINE first == CHOOSE j \in found : \A k \in found : j <= k
    <3>4. first \in found /\ \A k \in found : first <= k
        BY <3>1, <3>2
    <3>5. first = i
      <4> HIDE DEF first
      <4>. QED BY <3>1, <3>2, <3>4
    <3>6. FirstToken(lines, i, inHost) = lines[i].value
        BY <3>1, <3>3, <3>5
    <3>. QED BY <2>1, <2>3, <3>6
  <2>4. CASE lines[i].at # "top" /\ ~(lines[i].at = "deep" /\ inHost /\ lines[i].key = "oauth_token")
    <3>1. Tokens(lines, i, inHost) = Tokens(lines, i + 1, inHost)
        BY <2>1, <2>4, TokensStep
    <3>2. FirstToken(lines, i, inHost) = FirstToken(lines, i + 1, inHost)
        BY <3>1 DEF FirstToken
    <3>3. CASE lines[i].at = "skip"
        BY <2>1, <3>2, <3>3
    <3>4. CASE lines[i].at = "deep"
      <4>1. ~(inHost /\ lines[i].key = "oauth_token")
          BY <2>4, <3>4
      <4>. QED BY <2>1, <3>2, <3>4, <4>1
    <3>. QED BY <2>1, <2>4, <3>3, <3>4
  <2>. QED BY <2>2, <2>3, <2>4
<1>3. i > Len(lines) \/ i <= Len(lines)
    OBVIOUS
<1>. QED BY <1>1, <1>2, <1>3

LEMMA ScanIsFirstToken ==
    ASSUME NEW lines \in Seq(Lines)
    PROVE  ScannedWord(lines) = FirstToken(lines, 1, FALSE)
<1> DEFINE n == Len(lines)
           ref == [i \in 1 .. n + 1 |-> [inHost \in BOOLEAN |-> FirstToken(lines, i, inHost)]]
<1>1. n \in Nat /\ 1 \in 1 .. n + 1
    OBVIOUS
<1>2. \A i \in 1 .. n + 1, inHost \in BOOLEAN : ref[i][inHost] = FirstToken(lines, i, inHost)
    OBVIOUS
<1>3. Scans(lines, ref)
  <2>1. ASSUME NEW i \in 1 .. n + 1, NEW inHost \in BOOLEAN
        PROVE  FirstToken(lines, i, inHost) = Round(lines, ref, i, inHost)
    <3>1. CASE i > Len(lines)
        BY <3>1, FirstTokenStep DEF Round
    <3>2. CASE ~(i > Len(lines))
      <4>1. i + 1 \in 1 .. n + 1 /\ (lines[i].key = "host") \in BOOLEAN
          BY <3>2
      <4>2. /\ ref[i + 1][inHost] = FirstToken(lines, i + 1, inHost)
            /\ ref[i + 1][lines[i].key = "host"] = FirstToken(lines, i + 1, lines[i].key = "host")
          BY <1>2, <4>1
      <4> HIDE DEF ref
      <4>. QED BY <3>2, <4>2, FirstTokenStep DEF Round
    <3>. QED BY <3>1, <3>2
  <2>. QED BY <2>1 DEF Scans
<1> HIDE DEF ref
<1>4. ASSUME NEW g, Scans(lines, g) PROVE g = ref
  <2> DEFINE T == {k \in Nat : k <= n => g[n + 1 - k] = ref[n + 1 - k]}
  <2>1. ASSUME NEW i \in 1 .. n + 1, \A inHost \in BOOLEAN : Round(lines, g, i, inHost) = Round(lines, ref, i, inHost)
        PROVE  g[i] = ref[i]
    <3>1. i \in 1 .. Len(lines) + 1
        OBVIOUS
    <3>2. /\ \A inHost \in BOOLEAN : g[i][inHost] = Round(lines, g, i, inHost)
          /\ \A inHost \in BOOLEAN : ref[i][inHost] = Round(lines, ref, i, inHost)
        BY <1>3, <1>4, <3>1, Unfold
    <3>3. \A inHost \in BOOLEAN : g[i][inHost] = ref[i][inHost]
        BY <2>1, <3>2
    <3>4. g[i] = [inHost \in BOOLEAN |-> g[i][inHost]] /\ ref[i] = [inHost \in BOOLEAN |-> ref[i][inHost]]
        BY <1>3, <1>4, <3>1, Unfold
    <3>. QED BY <3>3, <3>4
  <2>2. \A k \in Nat : k \in T <=> (k <= n => g[n + 1 - k] = ref[n + 1 - k])
      OBVIOUS
  <2>3. T \in SUBSET Nat
      OBVIOUS
  <2> HIDE DEF T
  <2>4. 0 \in T
    <3>1. n + 1 \in 1 .. n + 1 /\ n + 1 > Len(lines) /\ n + 1 - 0 = n + 1
        BY <1>1
    <3>2. \A inHost \in BOOLEAN : Round(lines, g, n + 1, inHost) = Round(lines, ref, n + 1, inHost)
        BY <3>1 DEF Round
    <3>. QED BY <2>1, <2>2, <3>1, <3>2
  <2>5. ASSUME NEW k \in T PROVE k + 1 \in T
    <3>1. k \in Nat /\ k + 1 \in Nat
        BY <2>3
    <3>2. SUFFICES ASSUME k + 1 <= n PROVE g[n + 1 - (k + 1)] = ref[n + 1 - (k + 1)]
        BY <2>2, <3>1
    <3>3. PICK i \in 1 .. n + 1 : i = n + 1 - (k + 1) /\ i + 1 = n + 1 - k /\ k <= n
        BY <1>1, <3>1, <3>2
    <3>4. g[i + 1] = ref[i + 1]
        BY <2>2, <3>1, <3>3
    <3>5. \A inHost \in BOOLEAN : Round(lines, g, i, inHost) = Round(lines, ref, i, inHost)
        BY <3>4 DEF Round
    <3>. QED BY <2>1, <3>3, <3>5
  <2>6. T = Nat
      BY <2>3, <2>4, <2>5, InductionOnSets
  <2>7. ASSUME NEW i \in 1 .. n + 1 PROVE g[i] = ref[i]
    <3>1. n + 1 - i \in T /\ n + 1 - i <= n /\ n + 1 - (n + 1 - i) = i
        BY <1>1, <2>6
    <3>. QED BY <2>2, <2>3, <3>1
  <2>8. g = [i \in 1 .. n + 1 |-> g[i]] /\ ref = [i \in 1 .. n + 1 |-> ref[i]]
      BY <1>3, <1>4, Zenon DEF Scans
  <2>. QED BY <2>7, <2>8
<1>5. ScannedWord(lines) = ref[1][FALSE]
    BY <1>3, <1>4, ScansScan
<1>. QED BY <1>1, <1>2, <1>5

\* The scanner of hosts.yml, one pass with one flag, finds in every file what
\* HostToken says: the first token of the host's block (ghcli.go:228-257).
THEOREM ReadsTheHostsToken == \A lines \in Seq(Lines) : FromHostsFile(lines) = HostToken(lines)
<1> SUFFICES ASSUME NEW lines \in Seq(Lines) PROVE FromHostsFile(lines) = HostToken(lines)
    OBVIOUS
<1> DEFINE named(i) == \E j \in 1 .. i - 1 :
                        /\ lines[j].at = "top" /\ lines[j].key = "host"
                        /\ \A k \in j + 1 .. i - 1 : lines[k].at # "top"
           found == {i \in DOMAIN lines :
                       lines[i].at = "deep" /\ lines[i].key = "oauth_token" /\ named(i)}
<1>1. \A j : InBlock(lines, 1, FALSE, j) <=> named(j)
    BY DEF InBlock
<1>2. DOMAIN lines = 1 .. Len(lines)
    OBVIOUS
<1>3. Tokens(lines, 1, FALSE) = found
    BY <1>1, <1>2 DEF Tokens
<1>4. HostToken(lines) = IF found = {} THEN None
                         ELSE Clean(lines[CHOOSE i \in found : \A j \in found : i <= j].value)
    BY DEF HostToken
<1>5. Clean("") = None
    BY GhConstants DEF GhConstants, Clean
<1> HIDE DEF found
<1>. QED BY <1>3, <1>4, <1>5, ScanIsFirstToken DEF FromHostsFile, FirstToken

-----------------------------------------------------------------------------
LEMMA CleanType ==
    ASSUME NEW word
    PROVE  Clean(word) \in Credentials \cup {None}
BY DEF Clean

LEMMA FileTokenType == FileToken \in Credentials \cup {None}
BY CleanType DEF FileToken, FromHostsFile

\* A fetch that returns leaves a process that has a credential or has failed.
LEMMA FetchedStep ==
    ASSUME NEW answer, answer \in Credentials \cup {None}, Fetched(answer),
           token \in Credentials \cup {None}
    PROVE  /\ token' \in Credentials \cup {None}
           /\ pc' \in {"select", "stopped", "failed"}
           /\ pc' \in {"select", "stopped"} => token' # None
BY DEF Fetched

-----------------------------------------------------------------------------
LEMMA MaxChangesType == MaxChanges \in Nat
BY GhConstants DEF GhConstants

LEMMA Initially == Init => GhInv
<1> SUFFICES ASSUME Init PROVE GhInv
  OBVIOUS
<1>1. changes = 0 /\ printed \in Words
  BY GhConstants DEF Init, GhConstants, Words
<1>2. changes \in 0 .. MaxChanges
  BY <1>1, MaxChangesType
<1>3. TypeOK
  BY <1>1, <1>2, Zenon DEF Init, TypeOK
<1> QED
  BY <1>3 DEF Init, GhInv, ServesWithCredential, PrintedIsFresh

\* Steps of the source.
LEMMA SourceStep == ASSUME GhInv, Source PROVE GhInv'
<1> USE DEF GhInv, TypeOK, ServesWithCredential, PrintedIsFresh, Words
<1>1. CASE StartBinary
  BY <1>1, GhConstants DEF GhConstants, StartBinary, world, Words
<1>2. CASE StartFails
  BY <1>2, FetchedStep DEF StartFails, world, process
<1>3. CASE ReadFile
  BY <1>3, FetchedStep, FileTokenType DEF ReadFile, world, process
<1>4. CASE Kill
  BY ZenonT(40), <1>4 DEF Kill, world
<1>5. ASSUME NEW answer, answer \in Credentials \cup {None}, Reaped(answer)
      PROVE  GhInv'
  BY <1>5, FetchedStep DEF Reaped, Waited, world
<1>6. CASE ReapOk
  BY <1>5, <1>6, CleanType DEF ReapOk
<1>7. CASE ReapError
  BY <1>5, <1>7 DEF ReapError
<1>8. CASE TakeTick
  BY <1>8 DEF TakeTick, world, process
<1>9. CASE TakeDone
  BY <1>9 DEF TakeDone, world, process
<1> QED
  BY <1>1, <1>2, <1>3, <1>4, <1>6, <1>7, <1>8, <1>9 DEF Source

\* Steps of the world.
LEMMA WorldStep == ASSUME GhInv, World PROVE GhInv'
<1> USE DEF GhInv
<1>1. CASE Tick \/ Expire \/ Signal
  <2>1. TypeOK'
    BY ZenonT(40), <1>1, MaxChangesType DEF Tick, Expire, Signal, world, process, TypeOK, Words
  <2>2. ServesWithCredential'
    BY <1>1 DEF Tick, Expire, Signal, world, process, TypeOK, ServesWithCredential
  <2>3. UNCHANGED <<login, pc, printed, seen>>
    BY <1>1 DEF Tick, Expire, Signal, world, process
  <2>4. PrintedIsFresh'
    BY <2>3 DEF PrintedIsFresh
  <2> QED
    BY <2>1, <2>2, <2>4
<1>2. CASE PrintToken
  <2>1. TypeOK'
    BY <1>2, MaxChangesType DEF PrintToken, world, TypeOK, Words
  <2>2. ServesWithCredential'
    BY <1>2 DEF PrintToken, world, TypeOK, ServesWithCredential
  <2>3. PrintedIsFresh'
    BY <1>2 DEF PrintToken, world, PrintedIsFresh
  <2> QED
    BY <2>1, <2>2, <2>3
<1>3. CASE Exit("ok") \/ Exit("failed") \/ SpawnHelper \/ HelperExits
  <2>1. TypeOK'
    BY ZenonT(40), <1>3, MaxChangesType DEF Exit, SpawnHelper, HelperExits, world, TypeOK, Words
  <2>2. ServesWithCredential'
    BY <1>3 DEF Exit, SpawnHelper, HelperExits, world, TypeOK, ServesWithCredential
  <2>3. UNCHANGED <<login, pc, printed, seen>>
    BY <1>3 DEF Exit, SpawnHelper, HelperExits, world
  <2>4. PrintedIsFresh'
    BY <2>3 DEF PrintedIsFresh
  <2> QED
    BY <2>1, <2>2, <2>4
<1>4. CASE ChangeLogin
  <2>1. TypeOK'
    BY <1>4, MaxChangesType DEF ChangeLogin, Changed, process, TypeOK, Words
  <2>2. ServesWithCredential'
    BY <1>4 DEF ChangeLogin, Changed, process, TypeOK, ServesWithCredential
  <2>3. PrintedIsFresh'
    BY <1>4 DEF ChangeLogin, Changed, process, PrintedIsFresh
  <2> QED
    BY <2>1, <2>2, <2>3
<1>5. CASE ChangeBinary \/ ChangeFile
  <2>1. TypeOK'
    <3>1. CASE ChangeBinary
      BY <3>1, MaxChangesType DEF ChangeBinary, Changed, process, TypeOK, Words
    <3>2. CASE ChangeFile
      BY <3>2, MaxChangesType DEF ChangeFile, Changed, process, TypeOK, Words
    <3> QED
      BY <1>5, <3>1, <3>2
  <2>2. ServesWithCredential'
    BY <1>5 DEF ChangeBinary, ChangeFile, Changed, process, TypeOK, ServesWithCredential
  <2>3. pc' = pc /\ printed' = printed /\ login' = login /\ seen' = seen
    BY <1>5 DEF ChangeBinary, ChangeFile, Changed, process
  <2>4. PrintedIsFresh'
    BY <2>3 DEF PrintedIsFresh
  <2> QED
    BY <2>1, <2>2, <2>4
<1> QED
  BY <1>1, <1>2, <1>3, <1>4, <1>5 DEF World

LEMMA Inductive == GhInv /\ [Next]_vars => GhInv'
<1> SUFFICES ASSUME GhInv, [Next]_vars PROVE GhInv'
  OBVIOUS
<1>1. CASE Over \/ UNCHANGED vars
  <2>1. UNCHANGED <<world, process, tick, cancelled, pc, token, seen>>
    BY <1>1 DEF Over, vars
  <2>2. TypeOK'
    BY <2>1 DEF world, process, GhInv, TypeOK, Words
  <2>3. ServesWithCredential'
    BY <2>1 DEF process, GhInv, ServesWithCredential
  <2>4. UNCHANGED <<login, pc, printed, seen>>
    BY <2>1 DEF world, process
  <2>5. PrintedIsFresh'
    BY <2>4 DEF GhInv, PrintedIsFresh
  <2> QED
    BY <2>2, <2>3, <2>5 DEF GhInv
<1> QED
  BY <1>1, SourceStep, WorldStep DEF Next

LEMMA Invariance == Spec => []GhInv
BY Initially, Inductive, PTL DEF Spec

-----------------------------------------------------------------------------
\* Type correctness.
THEOREM TypeCorrect == Spec => []TypeOK
BY Invariance, PTL DEF GhInv

\* Whatever gh, its helpers and its file do, requests are served with a
\* credential, and no fetch returns before its gh and its helpers are gone.
THEOREM ServesCorrect == Spec => []ServesWithCredential
BY Invariance, PTL DEF GhInv

\* A step that does not store a credential leaves the one in hand.
LEMMA OnlyFetches ==
    ASSUME [Next]_vars, token' # token
    PROVE  \/ StartFails \/ ReadFile \/ ReapOk \/ ReapError
BY DEF Next, Source, World, Over, vars, StartBinary, Kill, TakeTick, TakeDone, Tick, Expire, Signal,
       PrintToken, Exit, SpawnHelper, HelperExits, Changed, ChangeLogin, ChangeBinary, ChangeFile

LEMMA StoredStep ==
    ASSUME GhInv, [Next]_vars, token' # token
    PROVE  /\ token' \in Credentials
           /\ \/ pc = "running" /\ gh = "ok" /\ token' \in seen
              \/ pc = "fetch" /\ ~bin /\ file # NoFile /\ token' = HostToken(file)
<1>1. ASSUME Fetched(None) PROVE FALSE
  BY <1>1 DEF Fetched
<1>2. CASE ReadFile
  <2>1. token' = FileToken /\ FileToken # None /\ pc = "fetch" /\ ~bin
    BY <1>2 DEF ReadFile, Fetched
  <2>2. file # NoFile /\ FileToken = FromHostsFile(file)
    BY <2>1 DEF FileToken
  <2>3. file \in Seq(Lines)
    BY <2>2, GhConstants DEF GhConstants, GhInv, TypeOK
  <2>4. token' = HostToken(file)
    BY <2>1, <2>2, <2>3, ReadsTheHostsToken
  <2> QED
    BY <2>1, <2>2, <2>4, FileTokenType
<1>3. CASE ReapOk
  <2>1. token' = Clean(printed) /\ Clean(printed) # None
    BY <1>3 DEF ReapOk, Reaped, Fetched
  <2>2. token' = printed /\ printed \in Credentials
    BY <2>1 DEF Clean
  <2>3. printed # ""
    BY <2>2, GhConstants DEF GhConstants
  <2> QED
    BY <1>3, <2>2, <2>3 DEF ReapOk, Reaped, Waited, GhInv, PrintedIsFresh
<1> QED
  BY <1>1, <1>2, <1>3, OnlyFetches DEF StartFails, ReapError, Reaped

\* The credential in hand changes only to one gh or its file gave in the fetch
\* that stores it: never to nothing, to what another invocation printed, or to
\* what a failed one did.
THEOREM CredentialCorrect == Spec => OnlyGhsCredential
<1>1. GhInv /\ [Next]_vars =>
        [token' # token =>
            /\ token' \in Credentials
            /\ \/ pc = "running" /\ gh = "ok" /\ token' \in seen
               \/ pc = "fetch" /\ ~bin /\ file # NoFile /\ token' = HostToken(file)]_vars
  BY StoredStep
<1> QED
  BY <1>1, Invariance, PTL DEF Spec, OnlyGhsCredential
=============================================================================
