------------------------------ MODULE MCCalls ------------------------------
(* Small instances of CallsSerial for TLC. *)
EXTENDS CallsSerial, TLC

\* A bound of the instance: two calls while nothing has overlapped, one otherwise.
Scope == serial \/ Cardinality(Rows) <= 1
=============================================================================
