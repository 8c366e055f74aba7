----------------------------- MODULE MCRealtime -----------------------------
(* A small instance of RealtimeSerial for TLC: two sockets and two messages. *)
EXTENDS RealtimeSerial
=============================================================================
