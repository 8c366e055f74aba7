----------------------------- MODULE MCGroups ------------------------------
(* Small instances of GroupsSerial for TLC. *)
EXTENDS GroupsSerial, TLC

\* Users and requests are interchangeable.
Symmetry == Permutations(Reqs) \cup Permutations(Users)
=============================================================================
