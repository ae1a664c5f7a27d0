---------------------------- MODULE NameSpaceMC ----------------------------
(* NameSpace for TLC. *)
EXTENDS NameSpace, TLC

CONSTANTS alice, bob, f1, f2, d, ss1, ss2

MCUsers   == {alice, bob}
MCFiles   == {f1, f2}
MCFolders == {d}
MCServers == {ss1, ss2}
Symmetric == Permutations(MCUsers) \cup Permutations(MCFiles) \cup Permutations(MCServers)
=============================================================================
