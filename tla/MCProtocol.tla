----------------------------- MODULE MCProtocol ------------------------------
(* Protocol for TLC: of the texts one is also a state's name, one a command's.      *)
EXTENDS Protocol
=============================================================================
