----------------------------- MODULE LRUCacheMC -----------------------------
(* Small instances of LRUCache for TLC. *)
EXTENDS LRUCache, TLC

CONSTANTS nm1, nm2, a, b, c, v

MCThreads == {nm1, nm2}
MCValues  == {v}

\* As many keys as slots, two of which collide.
MCKeys   == {a, b, c}
MCHash   == a :> 2 @@ b :> 2 @@ c :> 0
=============================================================================
