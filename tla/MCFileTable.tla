---------------------------- MODULE MCFileTable ----------------------------
(* Two threads with one shared file table, or with a copy each. *)
EXTENDS FileTable, TLC

Symmetry == Permutations(Threads) \cup Permutations(Tables)
=============================================================================
