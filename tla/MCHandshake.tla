---------------------------- MODULE MCHandshake ----------------------------
(* Model-checking instances of Handshake.                                  *)
EXTENDS Handshake
=============================================================================
