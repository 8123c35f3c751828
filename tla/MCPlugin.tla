------------------------------ MODULE MCPlugin -------------------------------
(* Plugin for TLC: two windows, two recordings of which a restart may come   *)
(* between, and two keys: one that captures a target, and another that        *)
(* captures a second one before, or after, the first recording is over.      *)
EXTENDS Plugin
=============================================================================
