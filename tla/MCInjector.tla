----------------------------- MODULE MCInjector -----------------------------
(* Injector for TLC: three windows (the target, the one the user was in, and *)
(* another), two texts so that the second meets the first, and a deadline of *)
(* two ticks, so that a release may come before, at and after it.            *)
EXTENDS Injector
=============================================================================
