------------------------------ MODULE MCSystem ------------------------------
(* System for TLC.  One window, and none in focus, are two targets, enough to *)
(* tell a text's own from another.  Three keys and a command of the tool, in  *)
(* any order, are enough for a start key that is stopped, or cancelled, and   *)
(* one that disturbs it.  Five generations let every one of them become a     *)
(* recording.                                                                *)
EXTENDS System
=============================================================================
