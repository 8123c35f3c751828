---------------------------- MODULE WtypeProofs -----------------------------
(***************************************************************************)
(* The safety of Wtype, proved for texts and pipes of every size and for    *)
(* any number of calls and signals.  It rests on who holds which end of the *)
(* pipe while the worker and the child go their ways.                       *)
(***************************************************************************)
EXTENDS Wtype, TLAPS

\* The worker's ends of the pipe, and when it has a child.
WorkerInv ==
    /\ pc \in {"out", "pipe", "reap", "wait", "killed"} => fds = {}
    /\ pc \in {"fork", "close"} => fds = Ends
    /\ pc = "write" => fds = {"write"}
    /\ pc \in {"pipe", "fork"} => child = "none"
    /\ pc \in {"close", "write", "reap", "wait"} => child # "none"
    /\ pc = "out" /\ child # "none" => signals > 0

\* The child's ends: wtype holds no end to write to.
ChildInv ==
    /\ child \in {"none", "zombie"} => childFds = {}
    /\ child = "wtype" => childFds = {"read"}

\* Only what was written entirely is waited for, and a wtype that ended well
\* saw the end of its input, with nothing left in the pipe.
TextInv ==
    /\ pc = "wait" => written = text
    /\ child = "zombie" /\ status = 0 => typed = sent /\ "write" \notin fds

IInv == TypeOK /\ WorkerInv /\ ChildInv /\ TextInv

USE DEF Ends

-----------------------------------------------------------------------------
(* The lengths are numbers in their order, step by step.                   *)
Lengths ==
    /\ text \in 0 .. MaxText /\ sent \in 0 .. text
    /\ written \in 0 .. sent /\ typed \in 0 .. sent
    /\ calls \in 0 .. MaxCalls /\ signals \in 0 .. MaxSignals

LEMMA LengthsStep == Lengths /\ [Next]_vars => Lengths'
  <1> SUFFICES ASSUME Lengths, [Next]_vars PROVE Lengths'
    OBVIOUS
  <1> USE WtypeAssumption DEF Lengths
  <1>1. CASE Call
    BY <1>1 DEF Call
  <1>2. CASE Pipe \/ ForkFails \/ Fork \/ CloseRead
    BY <1>2 DEF Pipe, ForkFails, Fork, CloseRead
  <1>3. CASE Fill
    BY <1>3 DEF Fill
  <1>4. ASSUME NEW s \in BOOLEAN, WriteReturns(s) PROVE Lengths'
    <2>1. signals' \in 0 .. MaxSignals
      <3>1. CASE s
        BY <1>4, <3>1 DEF WriteReturns
      <3>2. CASE ~s
        BY <1>4, <3>2 DEF WriteReturns
      <3> QED BY <3>1, <3>2
    <2> QED
      BY <1>4, <2>1 DEF WriteReturns
  <1>5. ASSUME WriteFails \/ CloseWrite \/ Waitpid PROVE Lengths'
    <2>1. UNCHANGED <<text, written, sent, typed, calls, signals>>
      BY <1>5, Zenon DEF WriteFails, CloseWrite, Waitpid
    <2> QED BY <2>1
  <1>6. CASE WaitpidInterrupted
    BY <1>6 DEF WaitpidInterrupted
  <1>7. CASE Exec \/ ExecFails \/ WtypeEnds \/ WtypeDies
    BY <1>7 DEF Exec, ExecFails, WtypeEnds, WtypeDies
  <1>8. CASE WtypeTypes
    BY <1>8 DEF WtypeTypes
  <1>9. CASE Rest \/ UNCHANGED vars
    BY <1>9 DEF Rest, vars
  <1> QED
    BY <1>1, <1>2, <1>3, <1>4, <1>5, <1>6, <1>7, <1>8, <1>9
    DEF Next, Worker, Child, Signal

(* The rest of the types, without a number in sight: what is true or false, *)
(* and what is not.                                                        *)
Flags == ignored \in BOOLEAN /\ result \in BOOLEAN

Kinds ==
    /\ pc \in {"out", "pipe", "fork", "close", "write", "reap", "wait", "killed"}
    /\ fds \subseteq Ends /\ childFds \subseteq Ends
    /\ child \in {"none", "forked", "wtype", "zombie"}
    /\ status \in {0, 1, 127}

LEMMA FlagsStep == Flags /\ [Next]_vars => Flags'
  <1> SUFFICES ASSUME Flags, [Next]_vars PROVE Flags'
    OBVIOUS
  <1>1. ignored' = ignored
    BY Zenon DEF Next, Worker, Child, Signal, Call, Pipe, ForkFails, Fork,
        CloseRead, Fill, WriteReturns, WriteFails, CloseWrite, Waitpid,
        WaitpidInterrupted, Exec, ExecFails, WtypeTypes, WtypeEnds, WtypeDies,
        Rest, vars
  <1>2. result' = result \/ result' = TRUE \/ result' = FALSE
    BY Zenon DEF Next, Worker, Child, Signal, Call, Pipe, ForkFails, Fork,
        CloseRead, Fill, WriteReturns, WriteFails, CloseWrite, Waitpid,
        WaitpidInterrupted, Exec, ExecFails, WtypeTypes, WtypeEnds, WtypeDies,
        Rest, vars, Return
  <1> QED
    BY <1>1, <1>2, Zenon DEF Flags

LEMMA KindsStep == Kinds /\ [Next]_vars => Kinds'
  <1> SUFFICES ASSUME Kinds, [Next]_vars PROVE Kinds'
    OBVIOUS
  <1> USE DEF Kinds, Return, Exit
  <1>1. CASE Call
    BY <1>1 DEF Call
  <1>2. CASE Pipe
    BY <1>2 DEF Pipe
  <1>3. CASE ForkFails \/ Fork \/ CloseRead
    BY <1>3 DEF ForkFails, Fork, CloseRead
  <1>4. CASE Fill \/ CloseWrite
    BY <1>4 DEF Fill, CloseWrite
  <1>5. CASE WriteFails
    <2>1. pc' \in {"reap", "killed"}
      BY <1>5, Zenon DEF WriteFails
    <2>2. fds' = {} /\ UNCHANGED <<childFds, child, status>>
      BY <1>5, Zenon DEF WriteFails
    <2> QED BY <2>1, <2>2
  <1>6. ASSUME NEW s \in BOOLEAN, WriteReturns(s) PROVE Kinds'
    BY <1>6 DEF WriteReturns
  <1>7. CASE Waitpid
    <2>1. pc' = "out" /\ child' = "none" /\ UNCHANGED <<fds, childFds, status>>
      BY <1>7, Zenon DEF Waitpid
    <2> QED BY <2>1
  <1>8. CASE WaitpidInterrupted
    BY <1>8 DEF WaitpidInterrupted
  <1>9. CASE Exec \/ ExecFails \/ WtypeEnds
    BY <1>9 DEF Exec, ExecFails, WtypeEnds
  <1>10. CASE WtypeTypes \/ WtypeDies
    BY <1>10 DEF WtypeTypes, WtypeDies
  <1>11. CASE Rest \/ UNCHANGED vars
    <2>1. UNCHANGED <<pc, fds, childFds, child, status>>
      BY <1>11, Zenon DEF Rest, vars
    <2> QED BY <2>1
  <1> QED
    BY <1>1, <1>2, <1>3, <1>4, <1>5, <1>6, <1>7, <1>8, <1>9, <1>10, <1>11
    DEF Next, Worker, Child, Signal

LEMMA Types == TypeOK = (Flags /\ Kinds /\ Lengths)
  BY Zenon DEF TypeOK, Flags, Kinds, Lengths

LEMMA IInvInit == Init => IInv
  <1>1. Init => Flags
    BY Zenon DEF Init, Flags
  <1>2. Init => Kinds /\ Lengths
    BY WtypeAssumption DEF Init, Kinds, Lengths
  <1> QED
    BY <1>1, <1>2, Types DEF Init, IInv, WorkerInv, ChildInv, TextInv

(* Every step keeps the invariant.                                         *)
LEMMA IInvStep == IInv /\ [Next]_vars => IInv'
  <1> SUFFICES ASSUME IInv, [Next]_vars PROVE IInv'
    OBVIOUS
  <1>1. TypeOK'
    <2>1. Flags' /\ Kinds' /\ Lengths'
      BY FlagsStep, KindsStep, LengthsStep, Types DEF IInv
    <2> QED
      BY <2>1, Zenon DEF TypeOK, Flags, Kinds, Lengths
  <1> DEFINE Others == WorkerInv /\ ChildInv /\ TextInv
  <1> SUFFICES Others'
    BY <1>1 DEF IInv
  <1> USE DEF IInv, WorkerInv, ChildInv, TextInv, Return, Exit
  <1>2. CASE Call
    BY <1>2 DEF Call
  <1>3. CASE Pipe
    BY <1>3 DEF Pipe
  <1>4. CASE ForkFails
    BY <1>4 DEF ForkFails
  <1>5. CASE Fork
    BY <1>5 DEF Fork
  <1>6. CASE CloseRead
    BY <1>6 DEF CloseRead
  <1>7. CASE Fill
    BY <1>7 DEF Fill
  <1>8. ASSUME NEW s \in BOOLEAN, WriteReturns(s) PROVE Others'
    BY <1>8 DEF WriteReturns
  <1>9. CASE WriteFails
    BY <1>9 DEF WriteFails
  <1>10. CASE CloseWrite
    BY <1>10 DEF CloseWrite
  <1>11. CASE Waitpid
    BY <1>11 DEF Waitpid
  <1>12. CASE WaitpidInterrupted
    BY <1>12 DEF WaitpidInterrupted, TypeOK
  <1>13. CASE Exec
    BY <1>13 DEF Exec
  <1>14. CASE ExecFails
    BY <1>14 DEF ExecFails
  <1>15. CASE WtypeTypes
    BY <1>15 DEF WtypeTypes
  <1>16. CASE WtypeEnds
    BY <1>16 DEF WtypeEnds, Writers
  <1>17. CASE WtypeDies
    BY <1>17 DEF WtypeDies
  <1>18. CASE Rest \/ UNCHANGED vars
    BY <1>18, <1>1 DEF Rest, vars
  <1> QED
    BY <1>1, <1>2, <1>3, <1>4, <1>5, <1>6, <1>7, <1>8, <1>9, <1>10, <1>11,
       <1>12, <1>13, <1>14, <1>15, <1>16, <1>17, <1>18
    DEF Next, Worker, Child, Signal

(* The invariant of Wtype: who holds the pipe, and what was written.        *)
THEOREM Invariant == Spec => []IInv
  BY IInvInit, IInvStep, PTL DEF Spec

(* The types of Wtype, with the lengths in their order.                    *)
THEOREM TypeCorrect == Spec => []TypeOK
  <1>1. IInv => TypeOK
    BY DEF IInv
  <1> QED
    BY <1>1, Invariant, PTL

(* A call of inject leaves no end of the pipe open and no child behind.     *)
THEOREM LeavesNothing == Spec => []NothingLeft
  <1>1. IInv => NothingLeft
    BY DEF IInv, WorkerInv, NothingLeft
  <1> QED
    BY <1>1, Invariant, PTL

(* What the last call returned, on top of the invariant.                   *)
LEMMA TrueStep == IInv /\ TrueMeansTyped /\ [Next]_vars => TrueMeansTyped'
  <1> SUFFICES ASSUME IInv, TrueMeansTyped, [Next]_vars, pc' = "out",
                      calls' > 0, result'
               PROVE  typed' = text'
    BY DEF TrueMeansTyped
  <1>1. CASE Call
    <2>1. text' = 0 /\ typed' = 0
      BY <1>1 DEF Call, Return
    <2> QED BY <2>1
  <1>2. CASE Pipe \/ ForkFails \/ WaitpidInterrupted
    <2>1. result' = FALSE
      BY <1>2 DEF Pipe, ForkFails, WaitpidInterrupted, Return
    <2> QED BY <2>1
  <1>3. CASE Waitpid
    <2>1. pc = "wait" /\ status = 0 /\ child = "zombie"
      BY <1>3 DEF Waitpid, Return
    <2>2. typed = sent /\ written = text
      BY <2>1 DEF IInv, TextInv
    <2>3. typed = text
      BY <2>2 DEF IInv, TypeOK
    <2> QED
      BY <2>3, <1>3 DEF Waitpid
  <1>4. CASE Fork \/ CloseRead \/ Fill \/ WriteFails \/ CloseWrite
    BY <1>4 DEF Fork, CloseRead, Fill, WriteFails, CloseWrite
  <1>5. ASSUME NEW s \in BOOLEAN, WriteReturns(s) PROVE FALSE
    BY <1>5 DEF WriteReturns
  <1>6. CASE Exec \/ ExecFails \/ WtypeEnds \/ WtypeDies \/ Rest \/ UNCHANGED vars
    BY <1>6 DEF Exec, ExecFails, WtypeEnds, WtypeDies, Rest, vars,
                TrueMeansTyped, Exit
  <1>7. CASE WtypeTypes
    BY <1>7 DEF WtypeTypes, TrueMeansTyped, IInv, TypeOK, WorkerInv
  <1> QED
    BY <1>1, <1>2, <1>3, <1>4, <1>5, <1>6, <1>7 DEF Next, Worker, Child, Signal

(* inject returns true only if wtype typed the whole text.                 *)
THEOREM TrueIsTyped == Spec => []TrueMeansTyped
  <1>1. Init => TrueMeansTyped
    BY DEF Init, TrueMeansTyped
  <1> QED
    BY <1>1, Invariant, TrueStep, PTL DEF Spec
=============================================================================
