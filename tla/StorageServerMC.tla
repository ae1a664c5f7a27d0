--------------------------- MODULE StorageServerMC ---------------------------
(* Small instances of StorageServer for TLC. *)
EXTENDS StorageServerProperties, TLC

CONSTANTS alice, bob

MCUsers == {alice, bob}

Symmetric == Permutations(MCUsers)

MCSources == 1 .. 2

\* An original sentence.
Original(n, e) == [src |-> {n}, by |-> {}, end |-> e]

\* A document of two sentences, both ended; one whose second is not.
TwoEnded  == <<Original(1, "delim"), Original(2, "delim")>>
SecondOpen == <<Original(1, "delim"), Original(2, "open")>>

TwoEndedOnly == {TwoEnded}
SecondOpenOnly == {SecondOpen}
=============================================================================
