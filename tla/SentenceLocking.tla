-------------------------- MODULE SentenceLocking --------------------------
(***************************************************************************)
(* What the sentence locks of a document promise, without saying how the    *)
(* storage server keeps them: a user opens an editing session on a sentence *)
(* only while holding its lock, and gives the lock up only with the session *)
(* closed.                                                                  *)
(***************************************************************************)
CONSTANTS Users, NoUser, Index

VARIABLES
    holder,     \* who holds the lock of each sentence
    open        \* the <<user, sentence>> pairs of the open sessions

vars == <<holder, open>>

Init ==
    /\ holder = [i \in Index |-> NoUser]
    /\ open = {}

\* A free lock is taken; its holder may take it again.
Acquire(u, i) ==
    /\ holder[i] \in {NoUser, u}
    /\ holder' = [holder EXCEPT ![i] = u]
    /\ UNCHANGED open

\* The holder opens, or reopens, a session.
Open(u, i) ==
    /\ holder[i] = u
    /\ open' = open \cup {<<u, i>>}
    /\ UNCHANGED holder

\* A session is closed, by a commit or a cancel.
Close(u, i) ==
    /\ open' = open \ {<<u, i>>}
    /\ UNCHANGED holder

Release(u, i) ==
    /\ holder[i] = u
    /\ <<u, i>> \notin open
    /\ holder' = [holder EXCEPT ![i] = NoUser]
    /\ UNCHANGED open

\* The server restarts: locks and sessions are in its memory only.
Reset ==
    /\ holder' = [i \in Index |-> NoUser]
    /\ open' = {}

Next ==
    \/ \E u \in Users, i \in Index : Acquire(u, i) \/ Open(u, i) \/ Close(u, i) \/ Release(u, i)
    \/ Reset

Spec == Init /\ [][Next]_vars

-----------------------------------------------------------------------------

TypeOK ==
    /\ holder \in [Index -> Users \cup {NoUser}]
    /\ open \subseteq Users \X Index

\* A sentence being edited is locked by the user who edits it.
OpenIsHeld == \A key \in open : holder[key[2]] = key[1]

\* No two users have sessions on the same sentence index: "preventing
\* simultaneous edits to the same sentence" (notes.md).
Exclusion == \A a, b \in open : a[2] = b[2] => a = b
=============================================================================
