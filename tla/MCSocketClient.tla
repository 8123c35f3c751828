--------------------------- MODULE MCSocketClient ---------------------------
(* SocketClient for TLC: three connections, so that what is left of two      *)
(* greetings that were cut can meet the third, and three events on each.     *)
(* The delays are the program's own; there are eight of them.                *)
EXTENDS SocketClient
=============================================================================
