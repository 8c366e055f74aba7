----------------------------- MODULE MCRecovery -----------------------------
(* A small instance of RecoverySerial for TLC. *)
EXTENDS RecoverySerial, TLC

Symmetry == Permutations(Reqs) \cup Permutations(Reports)
=============================================================================
