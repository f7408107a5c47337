---------------------------- MODULE MCColorFrames ----------------------------
(* Model-checking instances of ColorFrames.                                *)
EXTENDS ColorFrames
=============================================================================
