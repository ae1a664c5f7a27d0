--------------------------- MODULE WriteClientMC ---------------------------
(* WriteClient for TLC. *)
EXTENDS WriteClient, TLC

CONSTANTS alice, bob

Both == {alice, bob}
TwoOne == (alice :> 2) @@ (bob :> 1)
OneUser == {alice}
OneEdit == [c \in OneUser |-> 1]
TwoLines == [c \in OneUser |-> 2]
OneTwo == (alice :> 1) @@ (bob :> 2)
=============================================================================
