-------------------------- MODULE ClientSessionsMC --------------------------
(* Small instances of ClientSessions for TLC. *)
EXTENDS ClientSessions, TLC

CONSTANTS alice, bob, carol, dave, s1, s2, s3

MCUsers == {alice, bob, carol, dave}
MCSocks == {s1, s2, s3}

Symmetric == Permutations(MCUsers) \cup Permutations(MCSocks)
=============================================================================
