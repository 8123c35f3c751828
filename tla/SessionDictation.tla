-------------------------- MODULE SessionDictation --------------------------
(***************************************************************************)
(* The Session implements Dictation.  A recording listens from the moment  *)
(* beginRecording takes the lock; it ends where the code goes Idle; while  *)
(* Error is announced it is still what it was before.                      *)
(***************************************************************************)
EXTENDS Session

phaseOf ==
    CASE state = "Cancelled"                     -> "discarding"
      [] \E g \in Gens : fate[g] = "recording"   -> "listening"
      [] \E g \in Gens : fate[g] = "draining"    -> "settling"
      [] OTHER                                   -> "idle"

\* The largest recording begun so far.
currentOf ==
    IF \A g \in Gens : fate[g] = "none" THEN 0
    ELSE CHOOSE g \in Gens :
            fate[g] # "none" /\ \A h \in Gens : h > g => fate[h] = "none"

outcomeOf ==
    [g \in Gens |-> IF fate[g] \in {"recording", "draining"} THEN "none"
                    ELSE fate[g]]

D == INSTANCE Dictation WITH
         Recordings <- Gens, phase <- phaseOf, current <- currentOf,
         outcome <- outcomeOf, owner <- given, announced <- finals

(* Whatever the threads interleave, clients see a Dictation: every step of *)
(* the Session is one of its steps or none of their business.              *)
RefinesDictation == D!Spec

(* And the Session keeps Dictation's promises of progress: recordings that *)
(* were stopped or cancelled end, and accepted texts are delivered, even   *)
(* when the daemon shuts down in between.                                  *)
KeepsDictationFair == D!Fairness
=============================================================================
