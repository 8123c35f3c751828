----------------------------- MODULE Dictation -----------------------------
(***************************************************************************)
(* What the daemon's Session promises to its clients, without threads,     *)
(* locks or an engine.  Recordings follow one another: each listens, is    *)
(* then settled or discarded, and has one outcome for good.  The text of a *)
(* delivered recording is announced once, and typed once by the daemon if  *)
(* no client owns it, at any time after the session went idle.             *)
(***************************************************************************)
EXTENDS Naturals

CONSTANTS Windows, NoWindow, Recordings

VARIABLES
    phase,      \* idle, listening, settling or discarding
    current,    \* the latest recording, 0 before the first
    outcome,    \* outcome[r], "none" while r has not ended
    owner,      \* the window r was started with
    announced,  \* how often the final transcript of r was announced
    typed       \* how often the daemon typed it

vars == <<phase, current, outcome, owner, announced, typed>>

Init ==
    /\ phase = "idle"
    /\ current = 0
    /\ outcome = [r \in Recordings |-> "none"]
    /\ owner = [r \in Recordings |-> NoWindow]
    /\ announced = [r \in Recordings |-> 0]
    /\ typed = [r \in Recordings |-> 0]

Begin(r, w) ==
    /\ phase = "idle" /\ r > current
    /\ phase' = "listening"
    /\ current' = r
    /\ owner' = [owner EXCEPT ![r] = w]
    /\ UNCHANGED <<outcome, announced, typed>>

Stop ==
    /\ phase = "listening"
    /\ phase' = "settling"
    /\ UNCHANGED <<current, outcome, owner, announced, typed>>

\* The recording ends with an outcome.  One that still listens can only have
\* failed (its stream broke) or been given up (it could not be started).
End ==
    /\ \E o \in CASE phase = "settling"  -> {"delivered", "empty", "failed"}
                  [] phase = "listening" -> {"failed", "aborted"}
                  [] OTHER               -> {} :
           outcome' = [outcome EXCEPT ![current] = o]
    /\ phase' = "idle"
    /\ UNCHANGED <<current, owner, announced, typed>>

Cancel ==
    /\ phase \in {"listening", "settling"}
    /\ phase' = "discarding"
    /\ outcome' = [outcome EXCEPT ![current] = "cancelled"]
    /\ UNCHANGED <<current, owner, announced, typed>>

Discarded ==
    /\ phase = "discarding"
    /\ phase' = "idle"
    /\ UNCHANGED <<current, outcome, owner, announced, typed>>

Announce(r) ==
    /\ outcome[r] = "delivered" /\ announced[r] = 0
    /\ announced' = [announced EXCEPT ![r] = 1]
    /\ UNCHANGED <<phase, current, outcome, owner, typed>>

Type(r) ==
    /\ announced[r] = 1 /\ typed[r] = 0 /\ owner[r] = NoWindow
    /\ typed' = [typed EXCEPT ![r] = 1]
    /\ UNCHANGED <<phase, current, outcome, owner, announced>>

Next ==
    \/ \E r \in Recordings, w \in Windows \union {NoWindow} : Begin(r, w)
    \/ Stop \/ End \/ Cancel \/ Discarded
    \/ \E r \in Recordings : Announce(r) \/ Type(r)

\* Nothing that was stopped or cancelled hangs, and no text is lost.
Fairness ==
    /\ WF_vars(phase = "settling" /\ (End \/ Cancel))
    /\ WF_vars(Discarded)
    /\ \A r \in Recordings : WF_vars(Announce(r)) /\ WF_vars(Type(r))

Spec == Init /\ [][Next]_vars
FairSpec == Spec /\ Fairness
=============================================================================
