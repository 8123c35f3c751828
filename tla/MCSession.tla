----------------------------- MODULE MCSession -----------------------------
(* Session for TLC.  MaxGen 4 gives two to four recordings, so that a finish *)
(* worker may outlive its recording by two; one partial per recording is     *)
(* enough, since no count above zero is told apart.                          *)
EXTENDS Session, TLC

CONSTANTS w1, w2

MCWindows == {w1, w2}
Symmetry == Permutations(MCWindows)
=============================================================================
