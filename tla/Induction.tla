------------------------------ MODULE Induction ------------------------------
(***************************************************************************)
(* Induction over the naturals, stated of sets, and what follows for the   *)
(* concatenation of a sequence of sequences.  The library's theorems take  *)
(* a predicate as a parameter; that < is well founded takes none.          *)
(***************************************************************************)
EXTENDS Naturals, Sequences, SequencesExt, WellFoundedInduction, TLAPS

\* A set of naturals that is not empty has a least element.
LEMMA Least ==
    ASSUME NEW T \in SUBSET Nat, T # {}
    PROVE  \E n \in T : \A m \in T : n <= m
<1> DEFINE R == OpToRel(<, Nat)
<1>1. \A m, n \in Nat : m < n => <<m, n>> \in R
    BY DEF OpToRel
<1>2. IsWellFoundedOn(R, Nat)
    BY NatLessThanWellFounded
<1> HIDE DEF R
<1>3. PICK n \in T : \A m \in T : <<m, n>> \notin R
    BY <1>2, WFMin
<1>4. \A m \in T : m \in Nat /\ n \in Nat /\ ~(m < n)
    BY <1>1, <1>3
<1>. QED BY <1>4

\* A set that has 0, and with each n also n + 1, is all of Nat.
LEMMA InductionOnSets ==
    ASSUME NEW T \in SUBSET Nat, 0 \in T, \A n \in T : n + 1 \in T
    PROVE  T = Nat
<1> SUFFICES ASSUME Nat \ T # {} PROVE FALSE
    OBVIOUS
<1>1. PICK n \in Nat \ T : \A m \in Nat \ T : n <= m
    BY Least
<1>2. n # 0 /\ n - 1 \in Nat
    BY <1>1
<1>3. n - 1 \in T
    BY <1>1, <1>2
<1>. QED BY <1>1, <1>2, <1>3

-----------------------------------------------------------------------------
(* FlattenSeq, which is recursive. *)

\* f[i] is the concatenation of the first i of n sequences.
Joins(s, f, n) == f = [i \in 1 .. n |-> IF i = 1 THEN s[i] ELSE f[i - 1] \o s[i]]

LEMMA JoinsMore ==
    ASSUME NEW n \in Nat \ {0}, NEW s, NEW t, NEW f, Joins(s, f, n), \A i \in 1 .. n : t[i] = s[i]
    PROVE  Joins(t, [i \in 1 .. n + 1 |-> IF i = n + 1 THEN f[n] \o t[n + 1] ELSE f[i]], n + 1)
<1> DEFINE g == [i \in 1 .. n + 1 |-> IF i = n + 1 THEN f[n] \o t[n + 1] ELSE f[i]]
<1>1. ASSUME NEW i \in 1 .. n + 1 PROVE g[i] = IF i = 1 THEN t[i] ELSE g[i - 1] \o t[i]
  <2>1. CASE i = n + 1
    <3>1. i # 1 /\ i - 1 = n /\ n \in 1 .. n + 1 /\ n # n + 1
        BY <2>1
    <3>2. g[i] = f[n] \o t[i] /\ g[i - 1] = f[n]
        BY <2>1, <3>1
    <3>. QED BY <3>1, <3>2
  <2>2. CASE i # n + 1
    <3>1. i \in 1 .. n
        BY <2>2
    <3>2. f[i] = IF i = 1 THEN s[i] ELSE f[i - 1] \o s[i]
        BY <3>1 DEF Joins
    <3>. QED BY <2>2, <3>1, <3>2
  <2>. QED BY <2>1, <2>2
<1>. QED BY <1>1 DEF Joins

LEMMA JoinsAgree ==
    ASSUME NEW n \in Nat, NEW s, NEW f, NEW g, Joins(s, f, n), Joins(s, g, n)
    PROVE  f = g
<1> DEFINE T == {i \in 1 .. n : f[i] # g[i]}
<1>1. /\ \A i \in 1 .. n : f[i] = IF i = 1 THEN s[i] ELSE f[i - 1] \o s[i]
      /\ \A i \in 1 .. n : g[i] = IF i = 1 THEN s[i] ELSE g[i - 1] \o s[i]
    BY DEF Joins
<1>2. T = {}
  <2>1. SUFFICES ASSUME T # {} PROVE FALSE
      OBVIOUS
  <2>2. T \in SUBSET Nat
      OBVIOUS
  <2>3. PICK i \in T : \A j \in T : i <= j
      BY <2>1, <2>2, Least
  <2>4. i # 1 /\ i - 1 \in 1 .. n /\ ~(i <= i - 1)
      BY <1>1
  <2>5. i - 1 \notin T
      BY <2>3, <2>4
  <2>. QED BY <1>1, <2>4, <2>5
<1>3. f = [i \in 1 .. n |-> f[i]] /\ g = [i \in 1 .. n |-> g[i]]
    BY DEF Joins
<1>. QED BY <1>2, <1>3

LEMMA JoinsExists == ASSUME NEW s, NEW n \in Nat PROVE \E f : Joins(s, f, n)
<1> DEFINE T == {k \in Nat : \E f : Joins(s, f, k)}
<1>1. 0 \in T
  <2>1. Joins(s, [i \in 1 .. 0 |-> 0], 0)
      BY DEF Joins
  <2>. QED BY <2>1
<1>2. ASSUME NEW k \in T PROVE k + 1 \in T
  <2>1. CASE k = 0
    <3>1. Joins(s, [i \in 1 .. 1 |-> s[1]], 1)
        BY DEF Joins
    <3>. QED BY <2>1, <3>1
  <2>2. CASE k # 0
    <3>1. PICK f : Joins(s, f, k)
        OBVIOUS
    <3>2. Joins(s, [i \in 1 .. k + 1 |-> IF i = k + 1 THEN f[k] \o s[k + 1] ELSE f[i]], k + 1)
        BY <2>2, <3>1, JoinsMore
    <3>. QED BY <3>2
  <2>. QED BY <2>1, <2>2
<1>3. T = Nat
    BY <1>1, <1>2, InductionOnSets
<1>. QED BY <1>3

LEMMA FlattenIs ==
    ASSUME NEW s \in Seq(Seq(STRING)), Len(s) # 0, NEW f, Joins(s, f, Len(s))
    PROVE  FlattenSeq(s) = f[Len(s)]
<1> DEFINE g == CHOOSE h : h = [i \in 1 .. Len(s) |-> IF i = 1 THEN s[i] ELSE h[i - 1] \o s[i]]
<1>1. FlattenSeq(s) = g[Len(s)]
    BY DEF FlattenSeq
<1>2. Joins(s, g, Len(s))
    BY JoinsExists DEF Joins
<1>. QED BY <1>1, <1>2, JoinsAgree

LEMMA FlattenAppend ==
    ASSUME NEW s \in Seq(Seq(STRING)), NEW e \in Seq(STRING)
    PROVE  FlattenSeq(Append(s, e)) = FlattenSeq(s) \o e
<1> DEFINE t == Append(s, e)
           n == Len(s)
<1>1. t \in Seq(Seq(STRING)) /\ Len(t) = n + 1 /\ n \in Nat /\ t[n + 1] = e
      /\ \A i \in 1 .. n : t[i] = s[i]
    OBVIOUS
<1>4. n = Len(s) /\ t = Append(s, e)
    OBVIOUS
<1> HIDE DEF n, t
<1>2. CASE n = 0
  <2>1. FlattenSeq(s) = <<>>
      BY <1>2, <1>4 DEF FlattenSeq
  <2>2. Joins(t, [i \in 1 .. 1 |-> t[1]], 1)
      BY DEF Joins
  <2>3. FlattenSeq(t) = t[1]
    <3>1. Len(t) # 0 /\ Joins(t, [i \in 1 .. 1 |-> t[1]], Len(t))
        BY <1>1, <1>2, <2>2
    <3>2. FlattenSeq(t) = [i \in 1 .. 1 |-> t[1]][Len(t)]
        BY <1>1, <3>1, FlattenIs
    <3>. QED BY <1>1, <1>2, <3>2
  <2>4. t[1] = e /\ <<>> \o e = e
      BY <1>1, <1>2
  <2>. QED BY <1>4, <2>1, <2>3, <2>4
<1>3. CASE n # 0
  <2>1. PICK f : Joins(s, f, n)
      BY <1>1, JoinsExists
  <2> DEFINE g == [i \in 1 .. n + 1 |-> IF i = n + 1 THEN f[n] \o t[n + 1] ELSE f[i]]
  <2>2. Joins(t, g, n + 1)
      BY <1>1, <1>3, <2>1, JoinsMore
  <2>3. g[n + 1] = f[n] \o e
      BY <1>1
  <2> HIDE DEF g
  <2>4. FlattenSeq(s) = f[n]
      BY <1>3, <1>4, <2>1, FlattenIs
  <2>5. FlattenSeq(t) = g[n + 1]
    <3>1. Len(t) # 0 /\ Joins(t, g, Len(t))
        BY <1>1, <2>2
    <3>. QED BY <1>1, <3>1, FlattenIs
  <2>. QED BY <1>4, <2>3, <2>4, <2>5
<1>. QED BY <1>2, <1>3
=============================================================================
