------------------------------ MODULE MCEngine -------------------------------
(* Engine for TLC: with two recordings the second meets what the first one   *)
(* left, with two texts a partial may come back.                             *)
EXTENDS Engine
=============================================================================
