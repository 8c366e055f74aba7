------------------------------ MODULE Counting ------------------------------
(***************************************************************************)
(* The argument shared by the limits of this system.  A handler checks a   *)
(* count in one statement and adds to it in a later one, so that a limit   *)
(* is overrun by the handlers that are past the check.  Once the count is  *)
(* above the limit nobody passes any more: the count and the handlers      *)
(* still to add to it are together no more than the handlers there are.    *)
(***************************************************************************)
EXTENDS Naturals, FiniteSets

\* k has been counted; of the handlers R, those in S are past the check and still to
\* add one each, which nobody joins once k is above base; alone: handlers have not
\* overlapped.
Counted(k, base, S, R, alone) ==
  k > base => /\ k + Cardinality(S) <= base + Cardinality(R)
              /\ alone => S = {} /\ k = base + 1
=============================================================================
