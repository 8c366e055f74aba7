----------------------------- MODULE MCSessions -----------------------------
(* Small instances of SessionsSerial for TLC. *)
EXTENDS SessionsSerial, TLC

\* Keys, requests and accounts are interchangeable.
Symmetry == Permutations(Reqs) \cup Permutations(SessionIds)
              \cup Permutations(Devices) \cup Permutations(Users)

\* A bound of the instance: three tokens while nothing has overlapped, two otherwise.
Scope == serial \/ SessionRows # SessionIds
=============================================================================
