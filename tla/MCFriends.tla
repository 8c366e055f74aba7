----------------------------- MODULE MCFriends ------------------------------
(* Small instances of FriendsSerial for TLC. *)
EXTENDS FriendsSerial, TLC

\* Requests and keys are interchangeable, and so are the users where all or none
\* of them are open to everyone.
Symmetry      == Permutations(Reqs) \cup Permutations(RequestIds)
UsersSymmetry == Symmetry \cup Permutations(Users)
=============================================================================
