----------------------------- MODULE MCMessages -----------------------------
(* Small instances of Messages for TLC. *)
EXTENDS MessagesSerial, TLC

\* No action and no property tells two of a kind apart.
Symmetry == Permutations(Reqs) \cup Permutations(Convs) \cup Permutations(Msgs)
              \cup Permutations(Nonces) \cup Permutations(Users)
=============================================================================
