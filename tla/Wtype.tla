------------------------------- MODULE Wtype -------------------------------
(***************************************************************************)
(* WtypeInjector::inject of daemon/src/inject.cpp: a pipe, a child that      *)
(* becomes wtype, and a finish worker that writes the text and waits.  The   *)
(* worker, the child and the signals interleave.  A text is its length, and  *)
(* what wtype has typed of it is a length too.                              *)
(*                                                                         *)
(* A write to a pipe without a reader raises SIGPIPE.  The code never        *)
(* changes what becomes of it: systemd starts a service with the signal      *)
(* ignored, a shell does not (ignored).  Definitions marked "Faulty:" are no *)
(* part of the model; see README.md.                                        *)
(***************************************************************************)
EXTENDS Integers

CONSTANTS
    MaxText,      \* bound: the longest text
    Capacity,     \* what the pipe holds before a write blocks
    MaxCalls,     \* bound: calls of inject
    MaxSignals    \* bound: SIGINT or SIGTERM taken by the worker's thread

ASSUME WtypeAssumption ==
    /\ {MaxText, MaxCalls, MaxSignals} \subseteq Nat
    /\ Capacity \in Nat \ {0}

VARIABLES
    ignored,    \* SIGPIPE is ignored
    pc,         \* where the worker is in inject, or "killed" with the daemon
    text,       \* the length of the text
    written,    \* written, as the loop counts
    sent,       \* put into the pipe, by the write under way too
    typed,      \* taken out of the pipe and typed
    fds,        \* the daemon's ends of the pipe
    child,      \* "none", "forked", "wtype", or "zombie" until it is reaped
    childFds,   \* the child's ends
    status,     \* its exit status
    result,     \* what the last call returned
    calls, signals

vars == <<ignored, pc, text, written, sent, typed, fds, child, childFds,
          status, result, calls, signals>>

Init ==
    /\ ignored \in BOOLEAN
    /\ pc = "out" /\ child = "none"
    /\ text = 0 /\ written = 0 /\ sent = 0 /\ typed = 0
    /\ fds = {} /\ childFds = {}
    /\ status = 0 /\ result = FALSE
    /\ calls = 0 /\ signals = 0

Return(r) == pc' = "out" /\ result' = r

-----------------------------------------------------------------------------
(* The worker.                                                             *)

\* A child that was given up on a signal is still there when the daemon ends:
\* no text follows it.
Call ==
    /\ pc = "out" /\ child = "none" /\ calls < MaxCalls
    /\ calls' = calls + 1
    /\ \E n \in 0 .. MaxText :
          /\ text' = n
          /\ IF n = 0 THEN Return(TRUE) ELSE pc' = "pipe" /\ UNCHANGED result
    /\ written' = 0 /\ sent' = 0 /\ typed' = 0
    /\ UNCHANGED <<ignored, fds, child, childFds, status, signals>>

Pipe ==
    /\ pc = "pipe"
    /\ \/ Return(FALSE) /\ UNCHANGED fds
       \/ pc' = "fork" /\ fds' = {"read", "write"} /\ UNCHANGED result
    /\ UNCHANGED <<ignored, text, written, sent, typed, child, childFds,
                   status, calls, signals>>

\* Faulty: a fork that fails leaves the pipe open.
ForkFailsOpen ==
    /\ pc = "fork"
    /\ Return(FALSE)
    /\ UNCHANGED <<ignored, text, written, sent, typed, fds, child, childFds,
                   status, calls, signals>>

ForkFails ==
    /\ pc = "fork"
    /\ fds' = {}
    /\ Return(FALSE)
    /\ UNCHANGED <<ignored, text, written, sent, typed, child, childFds,
                   status, calls, signals>>

\* fork, and the parent's close of the end the child reads from.
Fork ==
    /\ pc = "fork"
    /\ child' = "forked" /\ childFds' = fds
    /\ pc' = "close"
    /\ UNCHANGED <<ignored, text, written, sent, typed, fds, status, result,
                   calls, signals>>

CloseRead ==
    /\ pc = "close"
    /\ fds' = fds \ {"read"}
    /\ pc' = "write"
    /\ UNCHANGED <<ignored, text, written, sent, typed, child, childFds,
                   status, result, calls, signals>>

Readers == "read" \in fds \union childFds
Writers == "write" \in fds \union childFds

\* A write is under way; it blocks while the pipe is full.
Fill ==
    /\ pc = "write" /\ sent < text
    /\ Readers /\ sent - typed < Capacity
    /\ sent' = sent + 1
    /\ UNCHANGED <<ignored, pc, text, written, typed, fds, child, childFds,
                   status, result, calls, signals>>

\* The write returns: with everything, or short, on a signal.
WriteReturns(signal) ==
    /\ pc = "write" /\ written < text
    /\ IF signal THEN signals < MaxSignals /\ signals' = signals + 1
       ELSE sent = text /\ UNCHANGED signals
    /\ written' = sent
    /\ UNCHANGED <<ignored, pc, text, sent, typed, fds, child, childFds,
                   status, result, calls>>

\* Nobody will read: SIGPIPE kills the daemon, or the write fails with EPIPE.
WriteFails ==
    /\ pc = "write" /\ sent < text /\ ~Readers
    /\ pc' = IF ignored THEN "reap" ELSE "killed"
    /\ fds' = {}
    /\ UNCHANGED <<ignored, text, written, sent, typed, child, childFds,
                   status, result, calls, signals>>

\* Faulty: one write is taken to have written the text.
CloseWriteShort ==
    /\ pc = "write" /\ written > 0
    /\ fds' = {} /\ pc' = "wait"
    /\ UNCHANGED <<ignored, text, written, sent, typed, child, childFds,
                   status, result, calls, signals>>

\* The loop has written the text; closing the pipe tells wtype that this is all.
CloseWrite ==
    /\ pc = "write" /\ written = text
    /\ fds' = {} /\ pc' = "wait"
    /\ UNCHANGED <<ignored, text, written, sent, typed, child, childFds,
                   status, result, calls, signals>>

Waitpid ==
    /\ pc \in {"wait", "reap"} /\ child = "zombie"
    /\ child' = "none"
    /\ Return(pc = "wait" /\ status = 0)
    /\ UNCHANGED <<ignored, text, written, sent, typed, fds, childFds, status,
                   calls, signals>>

\* waitpid is not tried again.
WaitpidInterrupted ==
    /\ pc \in {"wait", "reap"} /\ signals < MaxSignals
    /\ signals' = signals + 1
    /\ Return(FALSE)
    /\ UNCHANGED <<ignored, text, written, sent, typed, fds, child, childFds,
                   status, calls>>

-----------------------------------------------------------------------------
(* The child.                                                              *)

Exit(s) == child' = "zombie" /\ childFds' = {} /\ status' = s

\* Faulty: wtype inherits the end its own text comes from.
ExecKeepsPipe ==
    /\ child = "forked"
    /\ child' = "wtype"
    /\ UNCHANGED <<ignored, pc, text, written, sent, typed, fds, childFds,
                   status, result, calls, signals>>

\* dup2 over stdin, both ends closed, exec.
Exec ==
    /\ child = "forked"
    /\ child' = "wtype" /\ childFds' = {"read"}
    /\ UNCHANGED <<ignored, pc, text, written, sent, typed, fds, status,
                   result, calls, signals>>

\* dup2 or exec fails: there is no wtype.
ExecFails ==
    /\ child = "forked"
    /\ Exit(127)
    /\ UNCHANGED <<ignored, pc, text, written, sent, typed, fds, result,
                   calls, signals>>

WtypeTypes ==
    /\ child = "wtype" /\ typed < sent
    /\ typed' = typed + 1
    /\ UNCHANGED <<ignored, pc, text, written, sent, fds, child, childFds,
                   status, result, calls, signals>>

\* The pipe is empty and every end to write to it is closed.
WtypeEnds ==
    /\ child = "wtype" /\ typed = sent /\ ~Writers
    /\ Exit(0)
    /\ UNCHANGED <<ignored, pc, text, written, sent, typed, fds, result,
                   calls, signals>>

\* The compositor has no virtual keyboard, or wtype is killed.
WtypeDies ==
    /\ child = "wtype"
    /\ Exit(1)
    /\ UNCHANGED <<ignored, pc, text, written, sent, typed, fds, result,
                   calls, signals>>

-----------------------------------------------------------------------------
Worker ==
    \/ Pipe \/ ForkFails \/ Fork \/ CloseRead
    \/ Fill \/ WriteReturns(FALSE) \/ WriteFails \/ CloseWrite \/ Waitpid

Child == Exec \/ ExecFails \/ WtypeTypes \/ WtypeEnds

Signal == WriteReturns(TRUE) \/ WaitpidInterrupted

Rest ==
    /\ pc = "killed" \/ (pc = "out" /\ (calls = MaxCalls \/ child # "none"))
    /\ UNCHANGED vars

Next == Call \/ Worker \/ Child \/ WtypeDies \/ Signal \/ Rest

(* The worker's thread runs, and so does wtype, which types what it gets and *)
(* ends at the end of its input.  No signal and no call has to come.         *)
Spec == Init /\ [][Next]_vars /\ WF_vars(Worker) /\ WF_vars(Child)

-----------------------------------------------------------------------------
(* Properties.                                                             *)

Ends == {"read", "write"}

TypeOK ==
    /\ ignored \in BOOLEAN /\ result \in BOOLEAN
    /\ pc \in {"out", "pipe", "fork", "close", "write", "reap", "wait", "killed"}
    /\ text \in 0 .. MaxText /\ sent \in 0 .. text
    /\ written \in 0 .. sent /\ typed \in 0 .. sent
    /\ fds \subseteq Ends /\ childFds \subseteq Ends
    /\ child \in {"none", "forked", "wtype", "zombie"}
    /\ status \in {0, 1, 127}
    /\ calls \in 0 .. MaxCalls /\ signals \in 0 .. MaxSignals

(* inject.hpp:42, "Returns true on wtype exit status 0, false on any          *)
(* failure": true means that wtype has typed the whole text, also when a     *)
(* write was cut short or wtype gave up with the text still in the pipe.     *)
TrueMeansTyped == pc = "out" /\ calls > 0 /\ result => typed = text

(* A call leaves no end of the pipe open, and no child unless a signal came   *)
(* while it was waited for.                                                 *)
NothingLeft ==
    pc = "out" =>
        /\ fds = {}
        /\ child # "none" => signals > 0

(* inject ends: wtype sees the end of its input, so the wait for it is over,  *)
(* and a full pipe is emptied or has no reader.                             *)
InjectEnds == pc # "out" ~> pc \in {"out", "killed"}
=============================================================================
