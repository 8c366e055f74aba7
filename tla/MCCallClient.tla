---------------------------- MODULE MCCallClient ----------------------------
(* A small instance of CallClientSerial for TLC: ann makes every call to bob. *)
EXTENDS CallClientSerial

CONSTANTS ann, bob

MadeByAnn == [c \in Calls |-> ann]
=============================================================================
