--------------------------- MODULE FileMetadataMC ---------------------------
(* Small instances of FileMetadata for TLC. *)
EXTENDS FileMetadata, TLC

CONSTANTS alice, bob, carol, ss1, ss2

ThreeUsers == {alice, bob, carol}
MCServers  == {ss1, ss2}

Symmetric == Permutations(ThreeUsers) \cup Permutations(MCServers)
=============================================================================
