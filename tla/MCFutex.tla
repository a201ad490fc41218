------------------------------ MODULE MCFutex ------------------------------
(* Instance of Futex for TLC. *)
EXTENDS Futex, TLC

Symmetry == Permutations(Threads) \cup Permutations(Addrs) \cup Permutations(Values)
=============================================================================
