------------------------------ MODULE MCWtype ------------------------------
(* Texts longer than the pipe, two calls and a signal.                     *)
EXTENDS Wtype
=============================================================================
