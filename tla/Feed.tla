-------------------------------- MODULE Feed --------------------------------
(***************************************************************************)
(* What the daemon's socket promises to those who stay connected: one log  *)
(* of announced events, which every subscriber reads from a position of    *)
(* its own, in order, with nothing left out and nothing twice.             *)
(***************************************************************************)
EXTENDS Naturals, Sequences

CONSTANTS
    Clients,
    Readers,   \* the clients that read what is sent to them
    Events     \* what can be announced

VARIABLES
    log,       \* the events announced so far
    place,     \* place[c]: away, present or gone
    from,      \* the length of the log a present client has skipped,
    seen       \*   and the events it has been sent

vars == <<log, place, from, seen>>

Init ==
    /\ log = <<>>
    /\ place = [c \in Clients |-> "away"]
    /\ from = [c \in Clients |-> 0]
    /\ seen = [c \in Clients |-> <<>>]

Announce ==
    /\ \E e \in Events : log' = Append(log, e)
    /\ UNCHANGED <<place, from, seen>>

\* Announced events may still be on their way when a client subscribes.
Subscribe(c) ==
    /\ place[c] = "away"
    /\ place' = [place EXCEPT ![c] = "present"]
    /\ \E n \in 0 .. Len(log) : from' = [from EXCEPT ![c] = n]
    /\ UNCHANGED <<log, seen>>

Behind(c) == from[c] + Len(seen[c]) < Len(log)

See(c) ==
    /\ place[c] = "present" /\ Behind(c)
    /\ seen' = [seen EXCEPT ![c] = Append(@, log[from[c] + Len(@) + 1])]
    /\ UNCHANGED <<log, place, from>>

\* A client leaves, or all do because the daemon stops.
Leave(cs) ==
    /\ \A c \in cs : place[c] # "gone"
    /\ place' = [c \in Clients |-> IF c \in cs THEN "gone" ELSE place[c]]
    /\ from' = [c \in Clients |-> IF c \in cs THEN 0 ELSE from[c]]
    /\ seen' = [c \in Clients |-> IF c \in cs THEN <<>> ELSE seen[c]]
    /\ UNCHANGED log

Next ==
    \/ Announce
    \/ \E c \in Clients : Subscribe(c) \/ See(c)
    \/ \E cs \in SUBSET Clients : Leave(cs)

\* Whoever stays and reads is sent everything.
Fairness == \A c \in Readers : WF_vars(See(c))

Spec == Init /\ [][Next]_vars
FairSpec == Spec /\ Fairness
=============================================================================
