------------------------------- MODULE MCProxy -------------------------------
(* Instances of Proxy for TLC. *)
EXTENDS Proxy

\* Declared lengths: none, empty, at the limit, over it.
DeclaredLengths == {-1, 0, 1, 2}
==============================================================================
