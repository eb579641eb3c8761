------------------------------ MODULE Exchange ------------------------------
(***************************************************************************)
(* What an exchange promises the client, and nothing of how GitHub comes   *)
(* into it: whatever chain of hops, timeouts and errors lies behind, the   *)
(* client gets one final status and the body that goes with it, or the     *)
(* connection is cut; only a client that hung up gets nothing.             *)
(*                                                                         *)
(* The comments of internal/proxy promise it (redirect.go:12-18,           *)
(* proxy.go:236-251); Proxy is shown to implement it.                      *)
(***************************************************************************)
EXTENDS Naturals

CONSTANTS
    Requests,   \* exchanges
    Codes,      \* final statuses
    Sizes       \* chunks a body may have

VARIABLES
    phase,      \* idle, waiting for an answer, answering, over
    code,       \* the final status the client was sent, 0 before
    owed,       \* the chunks of body that are still to come
    sent,       \* the chunks written so far
    cut,        \* the exchanges whose connection was cut
    gone        \* the exchanges whose client hung up

vars == <<phase, code, owed, sent, cut, gone>>

Init ==
    /\ phase = [r \in Requests |-> "idle"]
    /\ code = [r \in Requests |-> 0]
    /\ owed = [r \in Requests |-> 0]
    /\ sent = [r \in Requests |-> 0]
    /\ cut = {} /\ gone = {}

Moves(r, from, to) == phase[r] = from /\ phase' = [phase EXCEPT ![r] = to]

\* The target goes to GitHub.
Ask(r) == Moves(r, "idle", "waiting") /\ UNCHANGED <<code, owed, sent, cut, gone>>

\* The final status, once.
Answer(r, c, n) ==
    /\ Moves(r, "waiting", "answering")
    /\ code' = [code EXCEPT ![r] = c] /\ owed' = [owed EXCEPT ![r] = n]
    /\ UNCHANGED <<sent, cut, gone>>

Write(r) ==
    /\ phase[r] = "answering" /\ owed[r] > 0
    /\ owed' = [owed EXCEPT ![r] = @ - 1] /\ sent' = [sent EXCEPT ![r] = @ + 1]
    /\ UNCHANGED <<phase, code, cut, gone>>

\* The whole body was written, or the client sees that it was not.
Complete(r) ==
    /\ Moves(r, "answering", "over") /\ owed[r] = 0
    /\ UNCHANGED <<code, owed, sent, cut, gone>>
Cut(r) ==
    /\ Moves(r, "answering", "over") /\ cut' = cut \cup {r}
    /\ owed' = [owed EXCEPT ![r] = 0]
    /\ UNCHANGED <<code, sent, gone>>

\* There is no answer: a 502 of one chunk, or nothing once the client hung up,
\* which may go unnoticed.
Fail(r) ==
    /\ Moves(r, "waiting", "over")
    /\ code' = [code EXCEPT ![r] = 502] /\ sent' = [sent EXCEPT ![r] = 1]
    /\ UNCHANGED <<owed, cut, gone>>
Abandon(r) ==
    /\ Moves(r, "waiting", "over") /\ r \in gone
    /\ UNCHANGED <<code, owed, sent, cut, gone>>

Hangup(r) ==
    /\ phase[r] \in {"waiting", "answering"} /\ gone' = gone \cup {r}
    /\ UNCHANGED <<phase, code, owed, sent, cut>>

Next == \E r \in Requests :
    \/ Ask(r) \/ Write(r) \/ Complete(r) \/ Cut(r) \/ Fail(r) \/ Abandon(r) \/ Hangup(r)
    \/ \E c \in Codes, n \in Sizes : Answer(r, c, n)

Spec == Init /\ [][Next]_vars
=============================================================================
