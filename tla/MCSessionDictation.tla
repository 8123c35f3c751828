------------------------- MODULE MCSessionDictation -------------------------
(* Refinement and liveness of Session for TLC: one window, three values of *)
(* m_generation, so that a second recording meets the worker of the first. *)
EXTENDS SessionDictation
=============================================================================
