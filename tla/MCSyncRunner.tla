---------------------------- MODULE MCSyncRunner ----------------------------
(* Finite instances of SyncRunner: two accounts with the same folder name.    *)
EXTENDS SyncRunner, TLC

Symmetry == Permutations(Accounts) \cup Permutations(Foregrounds)
=============================================================================
