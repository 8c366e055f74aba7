------------------------------ MODULE MCSnaps ------------------------------
(* Small instances of Snaps and SnapsSerial for TLC. *)
EXTENDS SnapsSerial, TLC

\* No action and no property tells two requests apart.
Symmetry == Permutations(Reqs)
=============================================================================
