---------------------------- MODULE MCIpcServer -----------------------------
(* IpcServer for TLC.  The safety run has a subscriber that writes what it    *)
(* likes, and need not read, beside one run of the tool: two lines are what   *)
(* it takes to answer out of order, two state changes what it takes for a     *)
(* greeting to overtake one that is posted and for an older one to follow it. *)
(* The live run has two subscribers of which one need not read: the other     *)
(* must not wait for it.                                                      *)
EXTENDS IpcServer
=============================================================================
