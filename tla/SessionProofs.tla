--------------------------- MODULE SessionProofs ---------------------------
(***************************************************************************)
(* The safety properties of Session, proved for every set of windows and   *)
(* every bound.  None of them is inductive: they rest on where the three   *)
(* kinds of threads can be together, which IInv says part by part.  From    *)
(* the same invariant, that Session implements Dictation.  And on top of    *)
(* it, the safety of System, the Session and its plugin together, whatever  *)
(* users and the command line do.                                          *)
(***************************************************************************)
EXTENDS SessionDictation, System, TLAPS

Starting   == {"startEngine", "startAudio", "undoStart", "undoJoin"}
Cancelling == {"cancelEngine", "joinPoll"}
Closing    == {"joinFinish", "destroyEngine", "joinLast", "gone"}

\* While a recording starts or runs it is current, and cancel can still bump
\* m_generation.
BoundInv ==
    io \in Starting \/ state = "Recording" => generation \in 1 .. MaxGen - 1

\* Who holds m_mutex from one step to the next.
MutexInv ==
    /\ mutex = "io" <=> io \in Starting \union {"joinOld"}
    /\ mutex = "poll" <=> poll.pc = "erring"
    /\ mutex = "finish" <=> \E g \in Gens : fin[g].pc = "erring"

\* What the announced state says of the IO thread and of the lock.
PhaseInv ==
    /\ io \in Starting => state = "Idle"
    /\ io \in Cancelling => state = "Cancelled"
    /\ io = "joinOld" => state = "Transcribing"
    /\ state = "Recording" => io = "ready" \/ io \in Closing
    /\ state = "Error" <=> mutex \in {"poll", "finish"}
    /\ poll.pc = "erring" => poll.gen = generation

CaptureInv ==
    /\ capturing => state = "Recording" /\ io = "ready"
    /\ state = "Recording" /\ ~capturing => io \in Closing

\* Only the current recording has a worker that is not yet past the lock,
\* and m_finishWorker holds every worker that has not returned.
FinishInv ==
    \A g \in Gens :
        /\ g > generation => fin[g].pc = "none"
        /\ g = generation /\ (io \in Starting \/ state = "Recording")
              => fin[g].pc = "none"
        /\ g = generation /\ state = "Transcribing"
              => fin[g].pc \in {"start", "join", "lock"}
        /\ fin[g].pc \in {"start", "join", "lock"}
              => /\ g = generation /\ state \in {"Transcribing", "Cancelled"}
                 /\ io \notin Cancelling
        /\ fin[g].pc = "erring" => g = generation
        /\ fin[g].pc \notin {"none", "done"}
              => g = finishWorker \/ (io = "joinOld" /\ g = generation)
        /\ io \in {"destroyEngine", "joinLast", "gone"}
              => fin[g].pc \in {"none", "done"}

FateInv ==
    \A g \in Gens :
        /\ g > generation => fate[g] = "none"
        /\ g = generation /\ (\/ io \in Starting
                              \/ state = "Recording"
                              \/ poll.pc = "erring")
              => fate[g] = "recording"
        /\ g = generation /\ state = "Transcribing" => fate[g] = "draining"
        /\ fin[g].pc = "erring" => fate[g] = "draining"

\* m_window and m_clientOwnsInjection are those of the current recording
\* until it is settled.
OwnerInv ==
    \A g \in Gens :
        g = generation /\ (\/ io \in Starting
                           \/ state \in {"Recording", "Transcribing"})
            => window = given[g] /\ clientOwns = (given[g] # NoWindow)

\* How far the text of a recording has gone.
DeliveryInv ==
    \A g \in Gens :
        /\ fin[g].pc \notin {"inject", "done"} => finals[g] = 0 /\ typed[g] = 0
        /\ fin[g].pc \notin {"emit", "inject", "done"} => fate[g] # "delivered"
        /\ fin[g].pc \in {"emit", "inject"} =>
              /\ fate[g] = "delivered"
              /\ fin[g].win = given[g]
              /\ fin[g].owns = (given[g] # NoWindow)
        /\ fin[g].pc = "inject" =>
              finals[g] = 1 /\ typed[g] = 0 /\ given[g] = NoWindow
        /\ fin[g].pc = "done" =>
              IF fate[g] = "delivered"
              THEN /\ finals[g] = 1
                   /\ typed[g] = IF given[g] = NoWindow THEN 1 ELSE 0
              ELSE finals[g] = 0 /\ typed[g] = 0

\* A poll worker that may still announce belongs to a session that is open.
PollInv ==
    /\ poll.pc \notin {"none", "exited", "report", "erring"} =>
          \/ /\ poll.gen = generation
             /\ io \in {"startAudio", "undoStart", "undoJoin"}
             /\ poll.pc \in {"wait", "pull", "failed"}
          \/ poll.gen = generation /\ state = "Recording"
          \/ /\ poll.gen = generation /\ generation \in Gens
             /\ fin[generation].pc \in {"start", "join"}
          \/ /\ poll.gen + 1 = generation /\ poll.gen \in Gens
             /\ io \in Cancelling
             /\ fin[poll.gen].pc = "none"
    /\ poll.pc \notin {"none", "exited"} => io # "gone"

IInv ==
    /\ TypeOK /\ BoundInv /\ MutexInv /\ PhaseInv /\ CaptureInv
    /\ FinishInv /\ FateInv /\ OwnerInv /\ DeliveryInv /\ PollInv

USE DEF Starting, Cancelling, Closing, lifecycle, threads, history,
        SetState, FinishGoto, Settle, RequestStop, PollJoined, FinishJoined

-----------------------------------------------------------------------------
(* Types.                                                                  *)

\* Moving a finish worker on keeps the functions of workers well typed.
LEMMA FinGoto ==
    ASSUME fin \in [Gens -> FinishWorkers], NEW g \in Gens, NEW pc \in FinSteps
    PROVE  [fin EXCEPT ![g].pc = pc] \in [Gens -> FinishWorkers]
<1> fin[g] \in FinishWorkers
    OBVIOUS
<1> [fin[g] EXCEPT !.pc = pc] \in FinishWorkers
    BY DEF FinishWorkers
<1> QED OBVIOUS

\* Counting one more event of a recording keeps the counters well typed.
LEMMA CountUp ==
    ASSUME NEW f \in [Gens -> Nat], NEW n
    PROVE  [f EXCEPT ![n] = f[n] + 1] \in [Gens -> Nat]
<1>1. CASE n \in Gens
    <2> f[n] + 1 \in Nat
        BY <1>1
    <2> QED OBVIOUS
<1>2. CASE n \notin Gens
    BY <1>2
<1> QED BY <1>1, <1>2

\* TypeOK, with BoundInv, holds initially and is kept by every step.
LEMMA TypeInit == Init => TypeOK /\ BoundInv
<1> SUFFICES ASSUME Init PROVE TypeOK /\ BoundInv
    OBVIOUS
<1>1. poll \in PollWorkers
    BY SessionAssumption DEF Init, PollWorkers, PollSteps
<1>2. fin \in [Gens -> FinishWorkers]
    BY DEF Init, FinishWorkers, FinSteps, Outcomes
<1>3. BoundInv
    BY DEF Init, BoundInv
<1>4. generation \in 0 .. MaxGen /\ finishWorker \in 0 .. MaxGen
    BY SessionAssumption DEF Init
<1>5. /\ fate \in [Gens -> Fates] /\ given \in [Gens -> Windows \union {NoWindow}]
      /\ partials \in [Gens -> Nat] /\ finals \in [Gens -> Nat]
      /\ typed \in [Gens -> Nat]
    BY DEF Init, Fates
<1> QED BY <1>1, <1>2, <1>3, <1>4, <1>5 DEF Init, TypeOK, States, IOSteps

\* One step per action; only FinishDrain and CompleteTranscription rebuild a
\* worker's whole record, the others move it with FinishGoto.
LEMMA TypeStep ==
    ASSUME TypeOK, BoundInv, [Next]_vars
    PROVE  TypeOK' /\ BoundInv'
<1> USE SessionAssumption DEF TypeOK, BoundInv, Gens
<1>1. ASSUME NEW w \in Windows \union {NoWindow}, BeginRecording(w)
      PROVE  TypeOK' /\ BoundInv'
    <2>1. generation' \in 1 .. MaxGen - 1
        BY <1>1 DEF BeginRecording
    <2>2. fate' \in [Gens -> Fates]
        BY <1>1 DEF BeginRecording, Fates
    <2>3. given' \in [Gens -> Windows \union {NoWindow}]
        BY <1>1 DEF BeginRecording
    <2> QED BY <1>1, <2>1, <2>2, <2>3 DEF BeginRecording, IOSteps
<1>2. CASE StartFinalization
    <2> generation \in Gens /\ "start" \in FinSteps
        BY <1>2 DEF StartFinalization, FinSteps
    <2> fin' \in [Gens -> FinishWorkers]
        BY <1>2, FinGoto DEF StartFinalization
    <2> QED BY <1>2 DEF StartFinalization, States, IOSteps, Fates
<1>3. CASE CancelRecording
    <2>1. generation + 1 \in 0 .. MaxGen
        BY <1>3 DEF CancelRecording
    <2>2. fate' \in [Gens -> Fates]
        BY <1>3 DEF CancelRecording, Fates
    <2> QED BY <1>3, <2>1, <2>2 DEF CancelRecording, States, IOSteps
<1>4. CASE CancelFinalization
    BY <1>4 DEF CancelFinalization, States, IOSteps, Fates
<1>5. CASE Shutdown
    BY <1>5 DEF Shutdown, States, IOSteps, Fates
<1>6. CASE StartEngine
    <2>1. [pc |-> "wait", gen |-> generation, stop |-> FALSE] \in PollWorkers
        BY DEF PollWorkers, PollSteps
    <2>2. poll' \in PollWorkers
        BY <1>6, <2>1 DEF StartEngine
    <2> QED BY <1>6, <2>2 DEF StartEngine, IOSteps
<1>7. CASE StartAudio
    BY <1>7 DEF StartAudio, States, IOSteps, Fates
<1>8. CASE StartAudioFails
    BY <1>8 DEF StartAudioFails, States, IOSteps, Fates
<1>9. CASE UndoStart
    BY <1>9 DEF UndoStart, IOSteps, PollWorkers
<1>10. CASE UndoDone
    BY <1>10 DEF UndoDone, States, IOSteps, Fates
<1>11. CASE JoinOld
    BY <1>11 DEF JoinOld, States, IOSteps, Fates
<1>12. CASE CancelEngine
    BY <1>12 DEF CancelEngine, IOSteps, PollWorkers
<1>13. CASE CancelDone
    BY <1>13 DEF CancelDone, States, IOSteps, Fates
<1>14. CASE JoinFinish
    BY <1>14 DEF JoinFinish, States, IOSteps, Fates
<1>15. CASE DestroyEngine
    BY <1>15 DEF DestroyEngine, IOSteps, PollWorkers
<1>16. CASE Destroyed
    BY <1>16 DEF Destroyed, States, IOSteps, Fates
<1>17. CASE PollWake
    BY <1>17 DEF PollWake, States, Fates, PollWorkers, PollSteps
<1>18. CASE PollNothing
    BY <1>18 DEF PollNothing, States, Fates, PollWorkers, PollSteps
<1>19. CASE PollText
    BY <1>19 DEF PollText, States, Fates, PollWorkers, PollSteps
<1>20. CASE PollFails
    BY <1>20 DEF PollFails, States, Fates, PollWorkers, PollSteps
<1>21. CASE PartialCheck
    BY <1>21 DEF PartialCheck, States, Fates, PollWorkers, PollSteps
<1>22. CASE PartialEmit
    BY <1>22, CountUp DEF PartialEmit, PollWorkers, PollSteps
<1>23. CASE StreamingErrorStale
    BY <1>23 DEF StreamingErrorStale, States, Fates, PollWorkers, PollSteps
<1>24. CASE StreamingError
    BY <1>24 DEF StreamingError, States, Fates, PollWorkers, PollSteps
<1>25. CASE StreamingErrorIdle
    BY <1>25 DEF StreamingErrorIdle, States, Fates, PollWorkers, PollSteps
<1>26. CASE StreamingErrorReport
    BY <1>26 DEF StreamingErrorReport, States, Fates, PollWorkers, PollSteps
<1>27. ASSUME NEW g \in Gens, FinishStep(g) PROVE TypeOK' /\ BoundInv'
    <2>1. CASE FinishStop(g)
        <3> fin' \in [Gens -> FinishWorkers]
            BY <2>1, FinGoto DEF FinishStop, FinSteps
        <3> QED BY <2>1 DEF FinishStop, PollWorkers
    <2>2. CASE FinishDrain(g)
        <3>1. PICK out \in {"text", "empty", "error"} :
                 fin' = [fin EXCEPT ![g] = [@ EXCEPT !.pc = "lock", !.out = out]]
            BY <2>2 DEF FinishDrain
        <3> fin[g] \in FinishWorkers
            OBVIOUS
        <3>2. [fin[g] EXCEPT !.pc = "lock", !.out = out] \in FinishWorkers
            BY DEF FinishWorkers, FinSteps, Outcomes
        <3>3. UNCHANGED <<lifecycle, io, poll, finishWorker, history>>
            BY <2>2 DEF FinishDrain
        <3> QED BY <3>1, <3>2, <3>3
    <2>3. CASE FinishDropped(g)
        <3> fin' \in [Gens -> FinishWorkers]
            BY <2>3, FinGoto DEF FinishDropped, FinSteps
        <3> QED BY <2>3 DEF FinishDropped, States
    <2>4. CASE CompleteTranscription(g)
        <3> fin[g] \in FinishWorkers
            OBVIOUS
        <3> [fin[g] EXCEPT !.win = window, !.owns = clientOwns,
                !.pc = IF fin[g].out = "empty" THEN "done" ELSE "emit"]
                    \in FinishWorkers
            BY DEF FinishWorkers, FinSteps
        <3> fin' \in [Gens -> FinishWorkers]
            BY <2>4 DEF CompleteTranscription
        <3> QED BY <2>4 DEF CompleteTranscription, States, Fates
    <2>5. CASE FailTranscription(g)
        <3> fin' \in [Gens -> FinishWorkers]
            BY <2>5, FinGoto DEF FailTranscription, FinSteps
        <3> QED BY <2>5 DEF FailTranscription, States, Fates
    <2>6. CASE FailedIdle(g)
        <3> fin' \in [Gens -> FinishWorkers]
            BY <2>6, FinGoto DEF FailedIdle, FinSteps
        <3> QED BY <2>6 DEF FailedIdle, States, Fates
    <2>7. CASE FailedReport(g)
        <3> fin' \in [Gens -> FinishWorkers]
            BY <2>7, FinGoto DEF FailedReport, FinSteps
        <3> QED BY <2>7 DEF FailedReport
    <2>8. CASE EmitFinal(g)
        <3> fin' \in [Gens -> FinishWorkers]
            BY <2>8, FinGoto DEF EmitFinal, FinSteps
        <3> QED BY <2>8, CountUp DEF EmitFinal
    <2>9. CASE Inject(g)
        <3> fin' \in [Gens -> FinishWorkers]
            BY <2>9, FinGoto DEF Inject, FinSteps
        <3> QED BY <2>9, CountUp DEF Inject
    <2> QED BY <1>27, <2>1, <2>2, <2>3, <2>4, <2>5, <2>6, <2>7, <2>8, <2>9 DEF
               FinishStep
<1>28. CASE UNCHANGED vars
    BY <1>28 DEF vars
<1> QED BY <1>1, <1>2, <1>3, <1>4, <1>5, <1>6, <1>7, <1>8, <1>9, <1>10, <1>11,
           <1>12, <1>13, <1>14, <1>15, <1>16, <1>17, <1>18, <1>19, <1>20,
           <1>21, <1>22, <1>23, <1>24, <1>25, <1>26, <1>27, <1>28
       DEF Next, Command, IOStep, PollStep, Terminated

-----------------------------------------------------------------------------
(* The inductive invariant.                                                *)

\* IInv without what TypeStep is about.
Parts ==
    /\ MutexInv /\ PhaseInv /\ CaptureInv /\ FinishInv
    /\ FateInv /\ OwnerInv /\ DeliveryInv /\ PollInv

\* Before the first command every thread is where IInv wants it.
LEMMA PartsInit == Init => Parts
<1> SUFFICES ASSUME Init PROVE Parts
    OBVIOUS
<1> USE SessionAssumption DEF Init, Gens
<1>1. MutexInv /\ PhaseInv /\ CaptureInv /\ PollInv
    BY DEF MutexInv, PhaseInv, CaptureInv, PollInv
<1>2. FinishInv /\ DeliveryInv
    BY DEF FinishInv, DeliveryInv
<1>3. FateInv /\ OwnerInv
    BY DEF FateInv, OwnerInv
<1> QED BY <1>1, <1>2, <1>3 DEF Parts

\* The rest of IInv survives a command.
LEMMA CommandStep ==
    ASSUME TypeOK, BoundInv, MutexInv, PhaseInv, CaptureInv,
           FinishInv, FateInv, OwnerInv, DeliveryInv, PollInv,
           Command
    PROVE  Parts'
<1> USE SessionAssumption DEF TypeOK, Gens, PollWorkers, FinishWorkers
<1>1. ASSUME NEW w \in Windows \union {NoWindow}, BeginRecording(w)
       PROVE  Parts'
    <2>0. generation + 1 \in Gens /\ fin[generation + 1].pc = "none"
        BY <1>1 DEF BeginRecording, FinishInv
    <2>1. MutexInv'
        BY <1>1 DEF BeginRecording, MutexInv
    <2>2. PhaseInv'
        BY <1>1 DEF BeginRecording, PhaseInv, MutexInv
    <2>3. CaptureInv'
        BY <1>1 DEF BeginRecording, CaptureInv
    <2>4. FinishInv'
        BY <1>1 DEF BeginRecording, FinishInv, MutexInv
    <2>5. FateInv'
        BY <1>1 DEF BeginRecording, FateInv
    <2>6. OwnerInv'
        BY <1>1 DEF BeginRecording, OwnerInv
    <2>7. DeliveryInv'
        BY <1>1, <2>0 DEF BeginRecording, DeliveryInv
    <2>8. PollInv'
        BY <1>1 DEF BeginRecording, PollInv, FinishInv
    <2> QED BY <2>1, <2>2, <2>3, <2>4, <2>5, <2>6, <2>7, <2>8 DEF Parts
<1>2. CASE StartFinalization
    <2>1. MutexInv'
        BY <1>2 DEF StartFinalization, MutexInv
    <2>2. PhaseInv'
        BY <1>2 DEF StartFinalization, PhaseInv
    <2>3. CaptureInv'
        BY <1>2 DEF StartFinalization, CaptureInv
    <2>4. FinishInv'
        BY <1>2 DEF StartFinalization, FinishInv
    <2>5. FateInv'
        BY <1>2 DEF StartFinalization, FateInv, MutexInv
    <2>6. OwnerInv'
        BY <1>2 DEF StartFinalization, OwnerInv
    <2>7. DeliveryInv'
        BY <1>2 DEF StartFinalization, DeliveryInv, FinishInv
    <2>8. PollInv'
        BY <1>2 DEF StartFinalization, PollInv, BoundInv
    <2> QED BY <2>1, <2>2, <2>3, <2>4, <2>5, <2>6, <2>7, <2>8 DEF Parts
<1>3. CASE CancelRecording
    <2>1. MutexInv'
        BY <1>3 DEF CancelRecording, MutexInv
    <2>2. PhaseInv'
        BY <1>3 DEF CancelRecording, PhaseInv, MutexInv
    <2>3. CaptureInv'
        BY <1>3 DEF CancelRecording, CaptureInv
    <2>4. FinishInv'
        BY <1>3 DEF CancelRecording, FinishInv
    <2>5. FateInv'
        BY <1>3 DEF CancelRecording, FateInv, MutexInv
    <2>6. OwnerInv'
        BY <1>3 DEF CancelRecording, OwnerInv
    <2>7. DeliveryInv'
        BY <1>3 DEF CancelRecording, DeliveryInv, FinishInv
    <2>8. PollInv'
        BY <1>3 DEF CancelRecording, PollInv, BoundInv, FinishInv
    <2> QED BY <2>1, <2>2, <2>3, <2>4, <2>5, <2>6, <2>7, <2>8 DEF Parts
<1>4. CASE CancelFinalization
    <2>1. PhaseInv'
        BY <1>4 DEF CancelFinalization, PhaseInv
    <2>2. CaptureInv'
        BY <1>4 DEF CancelFinalization, CaptureInv
    <2>3. FinishInv'
        BY <1>4 DEF CancelFinalization, FinishInv
    <2>4. FateInv'
        BY <1>4 DEF CancelFinalization, FateInv, MutexInv
    <2>5. OwnerInv'
        BY <1>4 DEF CancelFinalization, OwnerInv
    <2>6. DeliveryInv'
        BY <1>4 DEF CancelFinalization, DeliveryInv, FinishInv
    <2>7. PollInv'
        BY <1>4 DEF CancelFinalization, PollInv
    <2>8. MutexInv'
        BY <1>4 DEF CancelFinalization, MutexInv
    <2> QED BY <2>1, <2>2, <2>3, <2>4, <2>5, <2>6, <2>7, <2>8 DEF Parts
<1>5. CASE Shutdown
    <2>1. MutexInv'
        BY <1>5 DEF Shutdown, MutexInv
    <2>2. PhaseInv'
        BY <1>5 DEF Shutdown, PhaseInv
    <2>3. CaptureInv'
        BY <1>5 DEF Shutdown, CaptureInv
    <2>4. FinishInv'
        BY <1>5 DEF Shutdown, FinishInv
    <2>5. FateInv'
        BY <1>5 DEF Shutdown, FateInv
    <2>6. OwnerInv'
        BY <1>5 DEF Shutdown, OwnerInv
    <2>7. PollInv'
        BY <1>5 DEF Shutdown, PollInv
    <2>8. DeliveryInv'
        BY <1>5 DEF Shutdown, DeliveryInv
    <2> QED BY <2>1, <2>2, <2>3, <2>4, <2>5, <2>6, <2>7, <2>8 DEF Parts
<1> QED BY <1>1, <1>2, <1>3, <1>4, <1>5 DEF Command

\* The rest of IInv survives a step of the IO thread inside a command.
LEMMA IOStepInv ==
    ASSUME TypeOK, BoundInv, MutexInv, PhaseInv, CaptureInv,
           FinishInv, FateInv, OwnerInv, DeliveryInv, PollInv,
           IOStep
    PROVE  Parts'
<1> USE SessionAssumption DEF TypeOK, Gens, PollWorkers, FinishWorkers
<1>1. CASE StartEngine
    <2>1. MutexInv'
        BY <1>1 DEF StartEngine, MutexInv
    <2>2. PhaseInv'
        BY <1>1 DEF StartEngine, PhaseInv
    <2>3. CaptureInv'
        BY <1>1 DEF StartEngine, CaptureInv
    <2>4. FinishInv'
        BY <1>1 DEF StartEngine, FinishInv
    <2>5. FateInv'
        BY <1>1 DEF StartEngine, FateInv
    <2>6. OwnerInv'
        BY <1>1 DEF StartEngine, OwnerInv
    <2>7. PollInv'
        BY <1>1 DEF StartEngine, PollInv
    <2>8. DeliveryInv'
        BY <1>1 DEF StartEngine, DeliveryInv
    <2> QED BY <2>1, <2>2, <2>3, <2>4, <2>5, <2>6, <2>7, <2>8 DEF Parts
<1>2. CASE StartAudio
    <2>1. MutexInv'
        BY <1>2 DEF StartAudio, MutexInv
    <2>2. PhaseInv'
        BY <1>2 DEF StartAudio, PhaseInv
    <2>3. CaptureInv'
        BY <1>2 DEF StartAudio, CaptureInv
    <2>4. FinishInv'
        BY <1>2 DEF StartAudio, FinishInv
    <2>5. FateInv'
        BY <1>2 DEF StartAudio, FateInv
    <2>6. OwnerInv'
        BY <1>2 DEF StartAudio, OwnerInv
    <2>7. PollInv'
        BY <1>2 DEF StartAudio, PollInv
    <2>8. DeliveryInv'
        BY <1>2 DEF StartAudio, DeliveryInv
    <2> QED BY <2>1, <2>2, <2>3, <2>4, <2>5, <2>6, <2>7, <2>8 DEF Parts
<1>3. CASE StartAudioFails
    <2>1. MutexInv'
        BY <1>3 DEF StartAudioFails, MutexInv
    <2>2. PhaseInv'
        BY <1>3 DEF StartAudioFails, PhaseInv
    <2>3. CaptureInv'
        BY <1>3 DEF StartAudioFails, CaptureInv
    <2>4. FinishInv'
        BY <1>3 DEF StartAudioFails, FinishInv
    <2>5. FateInv'
        BY <1>3 DEF StartAudioFails, FateInv
    <2>6. OwnerInv'
        BY <1>3 DEF StartAudioFails, OwnerInv
    <2>7. PollInv'
        BY <1>3 DEF StartAudioFails, PollInv
    <2>8. DeliveryInv'
        BY <1>3 DEF StartAudioFails, DeliveryInv
    <2> QED BY <2>1, <2>2, <2>3, <2>4, <2>5, <2>6, <2>7, <2>8 DEF Parts
<1>4. CASE UndoStart
    <2>1. MutexInv'
        BY <1>4 DEF UndoStart, MutexInv
    <2>2. PhaseInv'
        BY <1>4 DEF UndoStart, PhaseInv
    <2>3. CaptureInv'
        BY <1>4 DEF UndoStart, CaptureInv
    <2>4. FinishInv'
        BY <1>4 DEF UndoStart, FinishInv
    <2>5. FateInv'
        BY <1>4 DEF UndoStart, FateInv
    <2>6. OwnerInv'
        BY <1>4 DEF UndoStart, OwnerInv
    <2>7. PollInv'
        BY <1>4 DEF UndoStart, PollInv
    <2>8. DeliveryInv'
        BY <1>4 DEF UndoStart, DeliveryInv
    <2> QED BY <2>1, <2>2, <2>3, <2>4, <2>5, <2>6, <2>7, <2>8 DEF Parts
<1>5. CASE UndoDone
    <2>0. generation \in Gens /\ fin[generation].pc = "none"
        BY <1>5 DEF UndoDone, BoundInv, FinishInv
    <2>1. MutexInv'
        BY <1>5 DEF UndoDone, MutexInv
    <2>2. PhaseInv'
        BY <1>5 DEF UndoDone, PhaseInv
    <2>3. CaptureInv'
        BY <1>5 DEF UndoDone, CaptureInv
    <2>4. FinishInv'
        BY <1>5 DEF UndoDone, FinishInv
    <2>5. FateInv'
        BY <1>5 DEF UndoDone, FateInv, PhaseInv
    <2>6. OwnerInv'
        BY <1>5 DEF UndoDone, OwnerInv, PhaseInv
    <2>7. DeliveryInv'
        BY <1>5, <2>0 DEF UndoDone, DeliveryInv
    <2>8. PollInv'
        BY <1>5 DEF UndoDone, PollInv
    <2> QED BY <2>1, <2>2, <2>3, <2>4, <2>5, <2>6, <2>7, <2>8 DEF Parts
<1>6. CASE JoinOld
    <2>1. MutexInv'
        BY <1>6 DEF JoinOld, MutexInv
    <2>2. PhaseInv'
        BY <1>6 DEF JoinOld, PhaseInv
    <2>3. CaptureInv'
        BY <1>6 DEF JoinOld, CaptureInv
    <2>4. FinishInv'
        BY <1>6 DEF JoinOld, FinishInv
    <2>5. FateInv'
        BY <1>6 DEF JoinOld, FateInv
    <2>6. OwnerInv'
        BY <1>6 DEF JoinOld, OwnerInv
    <2>7. PollInv'
        BY <1>6 DEF JoinOld, PollInv
    <2>8. DeliveryInv'
        BY <1>6 DEF JoinOld, DeliveryInv
    <2> QED BY <2>1, <2>2, <2>3, <2>4, <2>5, <2>6, <2>7, <2>8 DEF Parts
<1>7. CASE CancelEngine
    <2>1. MutexInv'
        BY <1>7 DEF CancelEngine, MutexInv
    <2>2. PhaseInv'
        BY <1>7 DEF CancelEngine, PhaseInv
    <2>3. CaptureInv'
        BY <1>7 DEF CancelEngine, CaptureInv
    <2>4. FinishInv'
        BY <1>7 DEF CancelEngine, FinishInv
    <2>5. FateInv'
        BY <1>7 DEF CancelEngine, FateInv
    <2>6. OwnerInv'
        BY <1>7 DEF CancelEngine, OwnerInv
    <2>7. PollInv'
        BY <1>7 DEF CancelEngine, PollInv
    <2>8. DeliveryInv'
        BY <1>7 DEF CancelEngine, DeliveryInv
    <2> QED BY <2>1, <2>2, <2>3, <2>4, <2>5, <2>6, <2>7, <2>8 DEF Parts
<1>8. CASE CancelDone
    <2>1. MutexInv'
        BY <1>8 DEF CancelDone, MutexInv
    <2>2. PhaseInv'
        BY <1>8 DEF CancelDone, PhaseInv
    <2>3. CaptureInv'
        BY <1>8 DEF CancelDone, CaptureInv
    <2>4. FinishInv'
        BY <1>8 DEF CancelDone, FinishInv
    <2>5. FateInv'
        BY <1>8 DEF CancelDone, FateInv
    <2>6. OwnerInv'
        BY <1>8 DEF CancelDone, OwnerInv
    <2>7. PollInv'
        BY <1>8 DEF CancelDone, PollInv
    <2>8. DeliveryInv'
        BY <1>8 DEF CancelDone, DeliveryInv
    <2> QED BY <2>1, <2>2, <2>3, <2>4, <2>5, <2>6, <2>7, <2>8 DEF Parts
<1>9. CASE JoinFinish
    <2>1. MutexInv'
        BY <1>9 DEF JoinFinish, MutexInv
    <2>2. PhaseInv'
        BY <1>9 DEF JoinFinish, PhaseInv
    <2>3. CaptureInv'
        BY <1>9 DEF JoinFinish, CaptureInv
    <2>4. FinishInv'
        BY <1>9 DEF JoinFinish, FinishInv
    <2>5. FateInv'
        BY <1>9 DEF JoinFinish, FateInv
    <2>6. OwnerInv'
        BY <1>9 DEF JoinFinish, OwnerInv
    <2>7. PollInv'
        BY <1>9 DEF JoinFinish, PollInv
    <2>8. DeliveryInv'
        BY <1>9 DEF JoinFinish, DeliveryInv
    <2> QED BY <2>1, <2>2, <2>3, <2>4, <2>5, <2>6, <2>7, <2>8 DEF Parts
<1>10. CASE DestroyEngine
    <2>1. MutexInv'
        BY <1>10 DEF DestroyEngine, MutexInv
    <2>2. PhaseInv'
        BY <1>10 DEF DestroyEngine, PhaseInv
    <2>3. CaptureInv'
        BY <1>10 DEF DestroyEngine, CaptureInv
    <2>4. FinishInv'
        BY <1>10 DEF DestroyEngine, FinishInv
    <2>5. FateInv'
        BY <1>10 DEF DestroyEngine, FateInv
    <2>6. OwnerInv'
        BY <1>10 DEF DestroyEngine, OwnerInv
    <2>7. PollInv'
        BY <1>10 DEF DestroyEngine, PollInv
    <2>8. DeliveryInv'
        BY <1>10 DEF DestroyEngine, DeliveryInv
    <2> QED BY <2>1, <2>2, <2>3, <2>4, <2>5, <2>6, <2>7, <2>8 DEF Parts
<1>11. CASE Destroyed
    <2>1. MutexInv'
        BY <1>11 DEF Destroyed, MutexInv
    <2>2. PhaseInv'
        BY <1>11 DEF Destroyed, PhaseInv
    <2>3. CaptureInv'
        BY <1>11 DEF Destroyed, CaptureInv
    <2>4. FinishInv'
        BY <1>11 DEF Destroyed, FinishInv
    <2>5. FateInv'
        BY <1>11 DEF Destroyed, FateInv
    <2>6. OwnerInv'
        BY <1>11 DEF Destroyed, OwnerInv
    <2>7. PollInv'
        BY <1>11 DEF Destroyed, PollInv
    <2>8. DeliveryInv'
        BY <1>11 DEF Destroyed, DeliveryInv
    <2> QED BY <2>1, <2>2, <2>3, <2>4, <2>5, <2>6, <2>7, <2>8 DEF Parts
<1> QED BY <1>1, <1>2, <1>3, <1>4, <1>5, <1>6, <1>7, <1>8, <1>9, <1>10, <1>11
           DEF IOStep

\* The rest of IInv survives a step of the poll worker.
LEMMA PollStepInv ==
    ASSUME TypeOK, BoundInv, MutexInv, PhaseInv, CaptureInv,
           FinishInv, FateInv, OwnerInv, DeliveryInv, PollInv,
           PollStep
    PROVE  Parts'
<1> USE SessionAssumption DEF TypeOK, Gens, PollWorkers, FinishWorkers
<1>1. CASE PollWake
    <2>1. MutexInv'
        BY <1>1 DEF PollWake, MutexInv
    <2>2. PhaseInv'
        BY <1>1 DEF PollWake, PhaseInv
    <2>3. FateInv'
        BY <1>1 DEF PollWake, FateInv
    <2>4. PollInv'
        BY <1>1 DEF PollWake, PollInv
    <2>5. CaptureInv' /\ FinishInv' /\ OwnerInv' /\ DeliveryInv'
        BY <1>1 DEF PollWake, CaptureInv, FinishInv, OwnerInv, DeliveryInv
    <2> QED BY <2>1, <2>2, <2>3, <2>4, <2>5 DEF Parts
<1>2. CASE PollNothing
    <2>1. MutexInv'
        BY <1>2 DEF PollNothing, MutexInv
    <2>2. PhaseInv'
        BY <1>2 DEF PollNothing, PhaseInv
    <2>3. FateInv'
        BY <1>2 DEF PollNothing, FateInv
    <2>4. PollInv'
        BY <1>2 DEF PollNothing, PollInv
    <2>5. CaptureInv' /\ FinishInv' /\ OwnerInv' /\ DeliveryInv'
        BY <1>2 DEF PollNothing, CaptureInv, FinishInv, OwnerInv, DeliveryInv
    <2> QED BY <2>1, <2>2, <2>3, <2>4, <2>5 DEF Parts
<1>3. CASE PollText
    <2>1. MutexInv'
        BY <1>3 DEF PollText, MutexInv
    <2>2. PhaseInv'
        BY <1>3 DEF PollText, PhaseInv
    <2>3. FateInv'
        BY <1>3 DEF PollText, FateInv
    <2>4. PollInv'
        BY <1>3 DEF PollText, PollInv
    <2>5. CaptureInv' /\ FinishInv' /\ OwnerInv' /\ DeliveryInv'
        BY <1>3 DEF PollText, CaptureInv, FinishInv, OwnerInv, DeliveryInv
    <2> QED BY <2>1, <2>2, <2>3, <2>4, <2>5 DEF Parts
<1>4. CASE PollFails
    <2>1. MutexInv'
        BY <1>4 DEF PollFails, MutexInv
    <2>2. PhaseInv'
        BY <1>4 DEF PollFails, PhaseInv
    <2>3. FateInv'
        BY <1>4 DEF PollFails, FateInv
    <2>4. PollInv'
        BY <1>4 DEF PollFails, PollInv
    <2>5. CaptureInv' /\ FinishInv' /\ OwnerInv' /\ DeliveryInv'
        BY <1>4 DEF PollFails, CaptureInv, FinishInv, OwnerInv, DeliveryInv
    <2> QED BY <2>1, <2>2, <2>3, <2>4, <2>5 DEF Parts
<1>5. CASE PartialCheck
    <2>1. MutexInv'
        BY <1>5 DEF PartialCheck, MutexInv
    <2>2. PhaseInv'
        BY <1>5 DEF PartialCheck, PhaseInv
    <2>3. FateInv'
        BY <1>5 DEF PartialCheck, FateInv
    <2>4. PollInv'
        BY <1>5 DEF PartialCheck, PollInv
    <2>5. CaptureInv' /\ FinishInv' /\ OwnerInv' /\ DeliveryInv'
        BY <1>5 DEF PartialCheck, CaptureInv, FinishInv, OwnerInv, DeliveryInv
    <2> QED BY <2>1, <2>2, <2>3, <2>4, <2>5 DEF Parts
<1>6. CASE PartialEmit
    <2>1. MutexInv'
        BY <1>6 DEF PartialEmit, MutexInv
    <2>2. PhaseInv'
        BY <1>6 DEF PartialEmit, PhaseInv
    <2>3. FateInv'
        BY <1>6 DEF PartialEmit, FateInv
    <2>4. PollInv'
        BY <1>6 DEF PartialEmit, PollInv
    <2>5. CaptureInv' /\ FinishInv' /\ OwnerInv' /\ DeliveryInv'
        BY <1>6 DEF PartialEmit, CaptureInv, FinishInv, OwnerInv, DeliveryInv
    <2> QED BY <2>1, <2>2, <2>3, <2>4, <2>5 DEF Parts
<1>7. CASE StreamingErrorStale
    <2>1. MutexInv'
        BY <1>7 DEF StreamingErrorStale, MutexInv
    <2>2. PhaseInv'
        BY <1>7 DEF StreamingErrorStale, PhaseInv
    <2>3. FateInv'
        BY <1>7 DEF StreamingErrorStale, FateInv
    <2>4. PollInv'
        BY <1>7 DEF StreamingErrorStale, PollInv
    <2>5. CaptureInv' /\ FinishInv' /\ OwnerInv' /\ DeliveryInv'
        BY <1>7 DEF StreamingErrorStale, CaptureInv, FinishInv, OwnerInv,
               DeliveryInv
    <2> QED BY <2>1, <2>2, <2>3, <2>4, <2>5 DEF Parts
<1>8. CASE StreamingError
    <2>1. MutexInv'
        BY <1>8 DEF StreamingError, MutexInv
    <2>2. PhaseInv'
        BY <1>8 DEF StreamingError, PhaseInv
    <2>3. CaptureInv'
        BY <1>8 DEF StreamingError, CaptureInv
    <2>4. FinishInv'
        BY <1>8 DEF StreamingError, FinishInv
    <2>5. FateInv'
        BY <1>8 DEF StreamingError, FateInv
    <2>6. OwnerInv'
        BY <1>8 DEF StreamingError, OwnerInv, PhaseInv
    <2>7. PollInv'
        BY <1>8 DEF StreamingError, PollInv
    <2>8. DeliveryInv'
        BY <1>8 DEF StreamingError, DeliveryInv
    <2> QED BY <2>1, <2>2, <2>3, <2>4, <2>5, <2>6, <2>7, <2>8 DEF Parts
<1>9. CASE StreamingErrorIdle
    <2>1. MutexInv'
        BY <1>9 DEF StreamingErrorIdle, MutexInv
    <2>2. PhaseInv'
        BY <1>9 DEF StreamingErrorIdle, PhaseInv, MutexInv
    <2>3. CaptureInv'
        BY <1>9 DEF StreamingErrorIdle, CaptureInv, MutexInv, PhaseInv
    <2>4. FinishInv'
        BY <1>9 DEF StreamingErrorIdle, FinishInv, MutexInv, PhaseInv
    <2>5. FateInv'
        BY <1>9 DEF StreamingErrorIdle, FateInv, MutexInv, PhaseInv
    <2>6. OwnerInv'
        BY <1>9 DEF StreamingErrorIdle, OwnerInv, MutexInv
    <2>7. DeliveryInv'
        BY <1>9 DEF StreamingErrorIdle, DeliveryInv, PhaseInv, FateInv
    <2>8. PollInv'
        BY <1>9 DEF StreamingErrorIdle, PollInv
    <2> QED BY <2>1, <2>2, <2>3, <2>4, <2>5, <2>6, <2>7, <2>8 DEF Parts
<1>10. CASE StreamingErrorReport
    <2>1. MutexInv'
        BY <1>10 DEF StreamingErrorReport, MutexInv
    <2>2. PhaseInv'
        BY <1>10 DEF StreamingErrorReport, PhaseInv
    <2>3. FateInv'
        BY <1>10 DEF StreamingErrorReport, FateInv
    <2>4. PollInv'
        BY <1>10 DEF StreamingErrorReport, PollInv
    <2>5. CaptureInv' /\ FinishInv' /\ OwnerInv' /\ DeliveryInv'
        BY <1>10 DEF StreamingErrorReport, CaptureInv, FinishInv, OwnerInv,
               DeliveryInv
    <2> QED BY <2>1, <2>2, <2>3, <2>4, <2>5 DEF Parts
<1> QED BY <1>1, <1>2, <1>3, <1>4, <1>5, <1>6, <1>7, <1>8, <1>9, <1>10 DEF
           PollStep

\* The rest of IInv survives a step of a finish worker.
LEMMA FinishStepInv ==
    ASSUME NEW g \in Gens, TypeOK, BoundInv, MutexInv, PhaseInv, CaptureInv,
           FinishInv, FateInv, OwnerInv, DeliveryInv, PollInv,
           FinishStep(g)
    PROVE  Parts'
<1> USE SessionAssumption DEF TypeOK, Gens, PollWorkers, FinishWorkers
<1>1. CASE FinishStop(g)
    <2>1. MutexInv'
        BY <1>1 DEF FinishStop, MutexInv
    <2>2. PhaseInv'
        BY <1>1 DEF FinishStop, PhaseInv
    <2>3. FinishInv'
        BY <1>1 DEF FinishStop, FinishInv
    <2>4. FateInv'
        BY <1>1 DEF FinishStop, FateInv
    <2>5. DeliveryInv'
        BY <1>1 DEF FinishStop, DeliveryInv
    <2>6. PollInv'
        BY <1>1 DEF FinishStop, PollInv
    <2>7. CaptureInv' /\ OwnerInv'
        BY <1>1 DEF FinishStop, CaptureInv, OwnerInv
    <2> QED BY <2>1, <2>2, <2>3, <2>4, <2>5, <2>6, <2>7 DEF Parts
<1>2. CASE FinishDrain(g)
    <2>1. MutexInv'
        BY <1>2 DEF FinishDrain, MutexInv
    <2>2. FinishInv'
        BY <1>2 DEF FinishDrain, FinishInv
    <2>3. FateInv'
        BY <1>2 DEF FinishDrain, FateInv
    <2>4. DeliveryInv'
        BY <1>2 DEF FinishDrain, DeliveryInv
    <2>5. PollInv'
        BY <1>2 DEF FinishDrain, PollInv
    <2>6. PhaseInv' /\ CaptureInv' /\ OwnerInv'
        BY <1>2 DEF FinishDrain, PhaseInv, CaptureInv, OwnerInv
    <2> QED BY <2>1, <2>2, <2>3, <2>4, <2>5, <2>6 DEF Parts
<1>3. CASE FinishDropped(g)
    <2>0. /\ g = generation /\ state = "Cancelled" /\ mutex = "free"
          /\ fin[g].pc = "lock" /\ io \notin Cancelling
          /\ FinishGoto(g, "done")
          /\ state' = "Idle" /\ clientOwns' = FALSE /\ window' = NoWindow
          /\ UNCHANGED <<generation, mutex, capturing, io, poll,
                         finishWorker, history>>
        <3>1. g = generation /\ io \notin Cancelling
            BY <1>3 DEF FinishDropped, FinishInv
        <3> QED BY <1>3, <3>1 DEF FinishDropped
    <2>1. MutexInv'
        BY <2>0 DEF MutexInv
    <2>2. PhaseInv'
        BY <2>0 DEF PhaseInv, MutexInv
    <2>3. CaptureInv'
        BY <2>0 DEF CaptureInv, PhaseInv
    <2>4. FinishInv'
        BY <2>0 DEF FinishInv
    <2>5. FateInv'
        BY <2>0 DEF FateInv, MutexInv
    <2>6. OwnerInv'
        BY <2>0 DEF OwnerInv, PhaseInv
    <2>7. DeliveryInv'
        BY <2>0 DEF DeliveryInv
    <2>8. PollInv'
        BY <2>0 DEF PollInv, FinishInv
    <2> QED BY <2>1, <2>2, <2>3, <2>4, <2>5, <2>6, <2>7, <2>8 DEF Parts
<1>4. CASE CompleteTranscription(g)
    <2>1. MutexInv'
        BY <1>4 DEF CompleteTranscription, MutexInv
    <2>2. PhaseInv'
        BY <1>4 DEF CompleteTranscription, PhaseInv, MutexInv
    <2>3. CaptureInv'
        BY <1>4 DEF CompleteTranscription, CaptureInv, FinishInv
    <2>4. FinishInv'
        BY <1>4 DEF CompleteTranscription, FinishInv
    <2>5. FateInv'
        BY <1>4 DEF CompleteTranscription, FateInv, MutexInv
    <2>6. OwnerInv'
        BY <1>4 DEF CompleteTranscription, OwnerInv, MutexInv
    <2>7. DeliveryInv'
        BY <1>4 DEF CompleteTranscription, DeliveryInv, FinishInv, FateInv,
               OwnerInv
    <2>8. PollInv'
        BY <1>4 DEF CompleteTranscription, PollInv, FinishInv
    <2> QED BY <2>1, <2>2, <2>3, <2>4, <2>5, <2>6, <2>7, <2>8 DEF Parts
<1>5. CASE FailTranscription(g)
    <2>1. MutexInv'
        BY <1>5 DEF FailTranscription, MutexInv
    <2>2. PhaseInv'
        BY <1>5 DEF FailTranscription, PhaseInv, MutexInv
    <2>3. CaptureInv'
        BY <1>5 DEF FailTranscription, CaptureInv, FinishInv
    <2>4. FinishInv'
        BY <1>5 DEF FailTranscription, FinishInv
    <2>5. FateInv'
        BY <1>5 DEF FailTranscription, FateInv, FinishInv
    <2>6. OwnerInv'
        BY <1>5 DEF FailTranscription, OwnerInv, MutexInv
    <2>7. DeliveryInv'
        BY <1>5 DEF FailTranscription, DeliveryInv
    <2>8. PollInv'
        BY <1>5 DEF FailTranscription, PollInv, FinishInv
    <2> QED BY <2>1, <2>2, <2>3, <2>4, <2>5, <2>6, <2>7, <2>8 DEF Parts
<1>6. CASE FailedIdle(g)
    <2>1. MutexInv'
        BY <1>6 DEF FailedIdle, MutexInv, FinishInv
    <2>2. PhaseInv'
        BY <1>6 DEF FailedIdle, PhaseInv, MutexInv
    <2>3. CaptureInv'
        BY <1>6 DEF FailedIdle, CaptureInv, MutexInv, PhaseInv
    <2>4. FinishInv'
        BY <1>6 DEF FailedIdle, FinishInv
    <2>5. FateInv'
        BY <1>6 DEF FailedIdle, FateInv
    <2>6. OwnerInv'
        BY <1>6 DEF FailedIdle, OwnerInv, MutexInv
    <2>7. DeliveryInv'
        BY <1>6 DEF FailedIdle, DeliveryInv
    <2>8. PollInv'
        BY <1>6 DEF FailedIdle, PollInv, MutexInv, PhaseInv
    <2> QED BY <2>1, <2>2, <2>3, <2>4, <2>5, <2>6, <2>7, <2>8 DEF Parts
<1>7. CASE FailedReport(g)
    <2>1. MutexInv'
        BY <1>7 DEF FailedReport, MutexInv
    <2>2. FinishInv'
        BY <1>7 DEF FailedReport, FinishInv
    <2>3. FateInv'
        BY <1>7 DEF FailedReport, FateInv
    <2>4. DeliveryInv'
        BY <1>7 DEF FailedReport, DeliveryInv
    <2>5. PollInv'
        BY <1>7 DEF FailedReport, PollInv
    <2>6. PhaseInv' /\ CaptureInv' /\ OwnerInv'
        BY <1>7 DEF FailedReport, PhaseInv, CaptureInv, OwnerInv
    <2> QED BY <2>1, <2>2, <2>3, <2>4, <2>5, <2>6 DEF Parts
<1>8. CASE EmitFinal(g)
    <2>1. MutexInv'
        BY <1>8 DEF EmitFinal, MutexInv
    <2>2. FinishInv'
        BY <1>8 DEF EmitFinal, FinishInv
    <2>3. FateInv'
        BY <1>8 DEF EmitFinal, FateInv
    <2>4. DeliveryInv'
        BY <1>8 DEF EmitFinal, DeliveryInv
    <2>5. PollInv'
        BY <1>8 DEF EmitFinal, PollInv
    <2>6. PhaseInv' /\ CaptureInv' /\ OwnerInv'
        BY <1>8 DEF EmitFinal, PhaseInv, CaptureInv, OwnerInv
    <2> QED BY <2>1, <2>2, <2>3, <2>4, <2>5, <2>6 DEF Parts
<1>9. CASE Inject(g)
    <2>1. MutexInv'
        BY <1>9 DEF Inject, MutexInv
    <2>2. FinishInv'
        BY <1>9 DEF Inject, FinishInv
    <2>3. FateInv'
        BY <1>9 DEF Inject, FateInv
    <2>4. DeliveryInv'
        BY <1>9 DEF Inject, DeliveryInv
    <2>5. PollInv'
        BY <1>9 DEF Inject, PollInv
    <2>6. PhaseInv' /\ CaptureInv' /\ OwnerInv'
        BY <1>9 DEF Inject, PhaseInv, CaptureInv, OwnerInv
    <2> QED BY <2>1, <2>2, <2>3, <2>4, <2>5, <2>6 DEF Parts
<1> QED BY <1>1, <1>2, <1>3, <1>4, <1>5, <1>6, <1>7, <1>8, <1>9 DEF FinishStep

\* Nothing in IInv looks at anything but the variables.
LEMMA PartsStutter == Parts /\ UNCHANGED vars => Parts'
<1> SUFFICES ASSUME Parts, UNCHANGED vars PROVE Parts'
    OBVIOUS
<1>1. MutexInv' /\ PhaseInv' /\ CaptureInv'
    BY DEF Parts, vars, MutexInv, PhaseInv, CaptureInv
<1>2. FinishInv' /\ FateInv'
    BY DEF Parts, vars, FinishInv, FateInv
<1>3. OwnerInv' /\ DeliveryInv' /\ PollInv'
    BY DEF Parts, vars, OwnerInv, DeliveryInv, PollInv
<1> QED BY <1>1, <1>2, <1>3 DEF Parts

\* The inductive step, thread by thread.
LEMMA IInvStep == IInv /\ [Next]_vars => IInv'
<1> SUFFICES ASSUME IInv, [Next]_vars PROVE IInv'
    OBVIOUS
<1>1. /\ TypeOK /\ BoundInv /\ MutexInv /\ PhaseInv /\ CaptureInv
      /\ FinishInv /\ FateInv /\ OwnerInv /\ DeliveryInv /\ PollInv
    BY DEF IInv
<1>2. TypeOK' /\ BoundInv'
    BY <1>1, TypeStep
<1>3. Parts'
    <2>1. CASE Command
        BY <1>1, <2>1, CommandStep
    <2>2. CASE IOStep
        BY <1>1, <2>2, IOStepInv
    <2>3. CASE PollStep
        BY <1>1, <2>3, PollStepInv
    <2>4. ASSUME NEW g \in Gens, FinishStep(g) PROVE Parts'
        BY <1>1, <2>4, FinishStepInv
    <2>5. CASE UNCHANGED vars
        BY <1>1, <2>5, PartsStutter DEF Parts
    <2> QED BY <2>1, <2>2, <2>3, <2>4, <2>5 DEF Next, Terminated
<1> QED BY <1>2, <1>3 DEF IInv, Parts

-----------------------------------------------------------------------------
(* The theorems.                                                           *)

(* IInv holds of every reachable state: the three kinds of threads are     *)
(* together only as its parts say.                                         *)
THEOREM Invariant == Spec => []IInv
<1>1. Init => IInv
    BY TypeInit, PartsInit DEF IInv, Parts
<1> QED BY <1>1, IInvStep, PTL DEF Spec

(* Every variable keeps its type; in particular m_generation stays within  *)
(* its bound, so that no reachable recording is without an entry in fin.   *)
THEOREM TypeCorrect == Spec => []TypeOK
<1>1. IInv => TypeOK
    BY DEF IInv
<1> QED BY <1>1, Invariant, PTL

(* A finish worker that takes the lock always finds its own recording, not *)
(* yet settled: the generation test of completeTranscription never fails.  *)
THEOREM NeverStale == Spec => []FinishNeverStale
<1>1. IInv => FinishNeverStale
    BY DEF IInv, FinishInv, FinishNeverStale
<1> QED BY <1>1, Invariant, PTL

(* The microphone is open exactly while Recording is announced.            *)
THEOREM MicTruthful == Spec => []MicOnlyWhileRecording
<1>1. IInv => MicOnlyWhileRecording
    BY DEF IInv, CaptureInv, MicOnlyWhileRecording
<1> QED BY <1>1, Invariant, PTL

(* No two threads are inside the engine's start, finish or cancel, which   *)
(* join one jthread without a lock of their own.                           *)
THEOREM OneEngineUser == Spec => []EngineExclusive
<1>1. IInv => EngineExclusive
    <2> SUFFICES ASSUME IInv, NEW a \in EngineUsers, NEW b \in EngineUsers
                 PROVE  a = b
        BY DEF EngineExclusive
    <2> USE DEF EngineUsers, IInv, FinishInv, PhaseInv, Gens, TypeOK, IOSteps
    <2>1. CASE io \in {"startEngine", "startAudio", "undoStart", "undoJoin"}
        BY <2>1
    <2>2. CASE io \in {"cancelEngine", "joinPoll"}
        BY <2>2
    <2>3. CASE io \in {"destroyEngine", "joinLast"}
        BY <2>3
    <2>4. CASE io \notin {"startEngine", "startAudio", "undoStart", "undoJoin",
                          "cancelEngine", "joinPoll", "destroyEngine",
                          "joinLast"}
        BY <2>4
    <2> QED BY <2>1, <2>2, <2>3, <2>4
<1> QED BY <1>1, Invariant, PTL

(* The engine is drained, cancelled and destroyed with the microphone shut. *)
THEOREM MicClosed == Spec => []MicClosedBeforeTeardown
<1>1. IInv => MicClosedBeforeTeardown
    BY DEF IInv, CaptureInv, FinishInv, MicClosedBeforeTeardown, EngineUsers
<1> QED BY <1>1, Invariant, PTL

(* What a finish worker still has to deliver goes where its own recording  *)
(* was to go, although m_window may belong to another one by then.         *)
THEOREM WindowKept == Spec => []RightWindow
<1>1. IInv => RightWindow
    BY DEF IInv, DeliveryInv, RightWindow
<1> QED BY <1>1, Invariant, PTL

(* No text is announced twice, typed twice, or typed by the daemon for a   *)
(* recording that a client owns.                                           *)
THEOREM Delivered == Spec => []DeliveredOnce
<1>1. IInv => DeliveredOnce
    <2> SUFFICES ASSUME IInv, NEW g \in Gens
                 PROVE  /\ finals[g] <= 1 /\ typed[g] <= finals[g]
                        /\ typed[g] = 1 => given[g] = NoWindow
        BY DEF DeliveredOnce
    <2> USE DEF IInv, DeliveryInv
    <2>1. CASE fin[g].pc = "inject"
        BY <2>1
    <2>2. CASE fin[g].pc = "done"
        BY <2>2
    <2>3. CASE fin[g].pc \notin {"inject", "done"}
        BY <2>3
    <2> QED BY <2>1, <2>2, <2>3
<1> QED BY <1>1, Invariant, PTL

(* Nothing of a cancelled recording is announced as final or typed.        *)
THEOREM Silent == Spec => []CancelledIsSilent
<1>1. IInv => CancelledIsSilent
    BY DEF IInv, DeliveryInv, CancelledIsSilent
<1> QED BY <1>1, Invariant, PTL

(* When the destructor has returned, every thread of the Session has, and  *)
(* every text it accepted was announced, and typed if that was its task.   *)
THEOREM QuietAfterwards == Spec => []QuietAfterDestruction
<1>1. IInv => QuietAfterDestruction
    <2> SUFFICES ASSUME IInv, io = "gone"
                 PROVE  /\ PollJoined
                        /\ \A g \in Gens :
                             /\ fin[g].pc \in {"none", "done"}
                             /\ fate[g] = "delivered" =>
                                  /\ finals[g] = 1
                                  /\ given[g] = NoWindow => typed[g] = 1
        BY DEF QuietAfterDestruction
    <2>1. PollJoined
        BY DEF IInv, PollInv
    <2>2. ASSUME NEW g \in Gens
          PROVE  /\ fin[g].pc \in {"none", "done"}
                 /\ fate[g] = "delivered" =>
                      finals[g] = 1 /\ (given[g] = NoWindow => typed[g] = 1)
        <3>1. fin[g].pc \in {"none", "done"}
            BY DEF IInv, FinishInv
        <3>2. CASE fin[g].pc = "none"
            BY <3>2 DEF IInv, DeliveryInv
        <3>3. CASE fin[g].pc = "done"
            BY <3>3 DEF IInv, DeliveryInv
        <3> QED BY <3>1, <3>2, <3>3
    <2> QED BY <2>1, <2>2
<1> QED BY <1>1, Invariant, PTL

(* A partial transcript is announced only while its recording is open.     *)
THEOREM PartialsInside == Spec => PartialInsideSession
<1>1. IInv /\ [Next]_vars =>
        [\A g \in Gens : partials'[g] # partials[g] =>
            /\ state # "Idle" /\ finals[g] = 0
            /\ generation = g \/ (generation = g + 1 /\ state = "Cancelled")]_vars
    <2> SUFFICES ASSUME IInv, Next, NEW g \in Gens, partials'[g] # partials[g]
                 PROVE  /\ state # "Idle" /\ finals[g] = 0
                        /\ \/ generation = g
                           \/ generation = g + 1 /\ state = "Cancelled"
        BY SMTT(30)
    <2>1. PartialEmit
        BY DEF Next, Command, IOStep, PollStep, FinishStep, Terminated, vars,
               BeginRecording, StartFinalization, CancelRecording,
               CancelFinalization, Shutdown, StartEngine, StartAudio,
               StartAudioFails, UndoStart, UndoDone, JoinOld, CancelEngine,
               CancelDone, JoinFinish, DestroyEngine, Destroyed, PollWake,
               PollNothing, PollText, PollFails, PartialCheck,
               StreamingErrorStale, StreamingError, StreamingErrorIdle,
               StreamingErrorReport, FinishStop, FinishDrain, FinishDropped,
               CompleteTranscription, FailTranscription, FailedIdle,
               FailedReport, EmitFinal, Inject
    <2>2. poll.pc = "emit" /\ poll.gen = g
        BY <2>1 DEF PartialEmit, IInv, TypeOK
    <2>3. \/ generation = g /\ state = "Recording"
          \/ generation = g /\ fin[g].pc \in {"start", "join"}
          \/ generation = g + 1 /\ io \in Cancelling /\ fin[g].pc = "none"
        BY <2>2 DEF IInv, PollInv
    <2>4. state # "Idle" /\ (generation = g + 1 => state = "Cancelled")
        BY <2>3 DEF IInv, PhaseInv, FinishInv, TypeOK, Gens
    <2>5. fin[g].pc \in {"none", "start", "join"}
        BY <2>3 DEF IInv, FinishInv
    <2>6. finals[g] = 0
        BY <2>5 DEF IInv, DeliveryInv
    <2> QED BY <2>3, <2>4, <2>6 DEF TypeOK, Gens
<1> QED BY <1>1, Invariant, PTL DEF Spec, PartialInsideSession

-----------------------------------------------------------------------------
(* The Session implements Dictation.                                        *)

\* Only the current recording is open, and only where the code has it so.
ActiveInv ==
    /\ io \in Starting \/ state \in {"Recording", "Transcribing", "Error"}
          => generation \in Gens
    /\ \A g \in Gens :
          /\ fate[g] = "recording" =>
                /\ g = generation
                /\ io \in Starting \/ state = "Recording" \/ poll.pc = "erring"
          /\ fate[g] = "draining" =>
                /\ g = generation
                /\ state = "Transcribing" \/ fin[g].pc = "erring"

\* g is the largest recording that has a fate.
IsLast(f, g) == f[g] # "none" /\ \A h \in Gens : h > g => f[h] = "none"

LastInv == (\A g \in Gens : fate[g] = "none") \/ \E g \in Gens : IsLast(fate, g)

SInv == IInv /\ ActiveInv /\ LastInv

-----------------------------------------------------------------------------
(* SInv is inductive.                                                      *)

LEMMA SInvInit == Init => SInv
<1> SUFFICES ASSUME Init PROVE SInv
    OBVIOUS
<1>1. IInv
    BY TypeInit, PartsInit DEF IInv, Parts
<1>2. \A g \in Gens : fate[g] = "none"
    BY DEF Init
<1>3. state = "Idle" /\ io = "ready"
    BY DEF Init
<1> QED BY <1>1, <1>2, <1>3 DEF SInv, ActiveInv, LastInv

\* What a recording that is over says of the state.
LEMMA Quiescent ==
    ASSUME IInv, ActiveInv, state \in {"Idle", "Cancelled"}, io \notin Starting
    PROVE  \A g \in Gens : fate[g] \notin {"recording", "draining"}
<1>1. poll.pc # "erring" /\ \A g \in Gens : fin[g].pc # "erring"
    BY DEF IInv, MutexInv, PhaseInv
<1> QED BY <1>1 DEF ActiveInv

\* The recording that is open is the current one.
LEMMA Open ==
    ASSUME IInv, ActiveInv, NEW g \in Gens, fate[g] \in {"recording", "draining"}
    PROVE  /\ g = generation
           /\ \A h \in Gens : h # g => fate[h] \notin {"recording", "draining"}
           /\ IsLast(fate, g)
<1>1. g = generation
    BY DEF ActiveInv
<1>2. \A h \in Gens : h # g => fate[h] \notin {"recording", "draining"}
    BY <1>1 DEF ActiveInv
<1>3. IsLast(fate, g)
    BY <1>1 DEF IsLast, IInv, FateInv
<1> QED BY <1>1, <1>2, <1>3

LEMMA ActiveStep == IInv /\ ActiveInv /\ [Next]_vars => ActiveInv'
<1> SUFFICES ASSUME IInv, ActiveInv, [Next]_vars PROVE ActiveInv'
    OBVIOUS
<1> USE DEF ActiveInv
<1>0. TypeOK /\ MutexInv /\ PhaseInv /\ FinishInv /\ FateInv
    BY DEF IInv
<1>1. ASSUME NEW w \in Windows \union {NoWindow}, BeginRecording(w)
      PROVE  ActiveInv'
    <2>1. generation' = generation + 1 /\ generation' \in Gens
        BY <1>0, <1>1, SessionAssumption DEF BeginRecording, TypeOK, Gens
    <2>2. \A g \in Gens : fate[g] \notin {"recording", "draining"}
        BY <1>0, <1>1, Quiescent DEF BeginRecording
    <2>3. /\ io' \in Starting
          /\ \A g \in Gens : g # generation' => fate'[g] = fate[g]
          /\ fate'[generation'] # "draining"
        BY <1>0, <1>1, <2>1, <2>2 DEF BeginRecording, TypeOK
    <2> QED BY <2>1, <2>2, <2>3
<1>2. CASE StartFinalization
    BY <1>0, <1>2 DEF StartFinalization, TypeOK, MutexInv, PhaseInv
<1>3. CASE CancelRecording
    BY <1>0, <1>3 DEF CancelRecording, TypeOK, MutexInv, PhaseInv
<1>4. CASE CancelFinalization
    BY <1>0, <1>4 DEF CancelFinalization, TypeOK, MutexInv, PhaseInv
<1>5. CASE Shutdown \/ JoinFinish \/ DestroyEngine \/ Destroyed
    BY <1>0, <1>5 DEF Shutdown, JoinFinish, DestroyEngine, Destroyed, TypeOK,
       PollWorkers
<1>6. CASE StartEngine
    BY <1>0, <1>6 DEF StartEngine, PhaseInv, MutexInv
<1>7. CASE StartAudio
    BY <1>0, <1>7 DEF StartAudio, PhaseInv, MutexInv
<1>8. CASE StartAudioFails \/ UndoStart
    BY <1>0, <1>8 DEF StartAudioFails, UndoStart
<1>9. CASE UndoDone
    BY <1>0, <1>9 DEF UndoDone, TypeOK, PhaseInv, MutexInv
<1>10. CASE JoinOld \/ CancelEngine
    BY <1>0, <1>10 DEF JoinOld, CancelEngine, TypeOK, PollWorkers
<1>11. CASE CancelDone
    BY <1>0, <1>11, Quiescent DEF CancelDone, PhaseInv
<1>12. CASE PollWake \/ PollNothing \/ PollText \/ PollFails \/ PartialCheck
            \/ PartialEmit \/ StreamingErrorStale \/ StreamingErrorReport
    BY <1>0, <1>12 DEF PollWake, PollNothing, PollText, PollFails, PartialCheck,
       PartialEmit, StreamingErrorStale, StreamingErrorReport, TypeOK, PollWorkers
<1>13. CASE StreamingError
    BY <1>0, <1>13 DEF StreamingError, TypeOK, PollWorkers, PhaseInv, MutexInv
<1>14. CASE StreamingErrorIdle
    BY <1>0, <1>14 DEF StreamingErrorIdle, TypeOK, PollWorkers, PhaseInv, MutexInv
<1>15. ASSUME NEW g \in Gens, FinishStep(g) PROVE ActiveInv'
    <2>1. CASE FinishStop(g) \/ FinishDrain(g) \/ FailedReport(g) \/ EmitFinal(g)
               \/ Inject(g)
        BY <1>0, <2>1 DEF FinishStop, FinishDrain, FailedReport, EmitFinal, Inject,
           TypeOK, FinishWorkers, PollWorkers
    <2>2. CASE FinishDropped(g)
        BY <1>0, <2>2 DEF FinishDropped, FinishInv, MutexInv, TypeOK, FinishWorkers
    <2>3. CASE CompleteTranscription(g)
        BY <1>0, <2>3 DEF CompleteTranscription, FinishInv, MutexInv, TypeOK
    <2>4. CASE FailTranscription(g)
        BY <1>0, <2>4 DEF FailTranscription, FinishInv, MutexInv, TypeOK,
           FinishWorkers
    <2>5. CASE FailedIdle(g)
        BY <1>0, <2>5 DEF FailedIdle, FinishInv, MutexInv, PhaseInv, TypeOK,
           FinishWorkers
    <2> QED BY <1>15, <2>1, <2>2, <2>3, <2>4, <2>5 DEF FinishStep
<1>16. CASE UNCHANGED vars
    BY <1>16 DEF vars
<1> QED BY <1>1, <1>2, <1>3, <1>4, <1>5, <1>6, <1>7, <1>8, <1>9, <1>10, <1>11,
           <1>12, <1>13, <1>14, <1>15, <1>16
        DEF Next, Command, IOStep, PollStep, Terminated

-----------------------------------------------------------------------------
(* What a step does to the fates: it begins a recording, or settles or moves *)
(* on the one that is open, or leaves them alone.                           *)

\* The fate of the current recording becomes f, it was e.
Moves(e, f) ==
    /\ generation \in Gens /\ fate[generation] = e
    /\ fate' = [fate EXCEPT ![generation] = f]

LEMMA MovesAre ==
    ASSUME IInv, ActiveInv
    PROVE  /\ UndoDone => Moves("recording", "aborted")
           /\ StartFinalization => Moves("recording", "draining")
           /\ CancelRecording => Moves("recording", "cancelled")
           /\ CancelFinalization => Moves("draining", "cancelled")
           /\ StreamingErrorIdle => Moves("recording", "failed")
           /\ \A g \in Gens :
                 /\ FailedIdle(g) => Moves("draining", "failed")
                 /\ CompleteTranscription(g)
                       => Moves("draining", IF fin[g].out = "empty"
                                            THEN "empty" ELSE "delivered")
<1> USE DEF Moves
<1>0. /\ TypeOK /\ BoundInv /\ MutexInv /\ PhaseInv /\ FinishInv /\ FateInv
      /\ io \in Starting \/ state \in {"Recording", "Transcribing", "Error"}
            => generation \in Gens
    BY DEF IInv, ActiveInv
<1>1. ASSUME UndoDone PROVE Moves("recording", "aborted")
    BY <1>0, <1>1 DEF UndoDone, FateInv
<1>2. ASSUME StartFinalization PROVE Moves("recording", "draining")
    BY <1>0, <1>2 DEF StartFinalization, FateInv
<1>3. ASSUME CancelRecording PROVE Moves("recording", "cancelled")
    BY <1>0, <1>3 DEF CancelRecording, FateInv
<1>4. ASSUME CancelFinalization
      PROVE  Moves("draining", "cancelled")
    BY <1>0, <1>4 DEF CancelFinalization, FateInv
<1>5. ASSUME StreamingErrorIdle
      PROVE  Moves("recording", "failed")
    BY <1>0, <1>5 DEF StreamingErrorIdle, FateInv, PhaseInv, MutexInv
<1>6. ASSUME NEW g \in Gens, FailedIdle(g) PROVE Moves("draining", "failed")
    BY <1>0, <1>6 DEF FailedIdle, FateInv, FinishInv
<1>7. ASSUME NEW g \in Gens, CompleteTranscription(g)
      PROVE  Moves("draining", IF fin[g].out = "empty" THEN "empty"
                                                       ELSE "delivered")
    BY <1>0, <1>7 DEF CompleteTranscription, FateInv, FinishInv
<1> QED BY <1>1, <1>2, <1>3, <1>4, <1>5, <1>6, <1>7

LEMMA FateSteps ==
    ASSUME IInv, ActiveInv, [Next]_vars
    PROVE  \/ UNCHANGED fate
           \/ \E w \in Windows \union {NoWindow} : BeginRecording(w)
           \/ \E e, f \in Fates \ {"none"} : Moves(e, f)
<1> USE DEF Fates
<1>1. CASE UndoDone \/ StartFinalization \/ CancelRecording \/ CancelFinalization
           \/ StreamingErrorIdle
    BY <1>1, MovesAre
<1>2. ASSUME NEW g \in Gens, FailedIdle(g) \/ CompleteTranscription(g)
      PROVE  \E e, f \in Fates \ {"none"} : Moves(e, f)
    BY <1>2, MovesAre
<1>3. CASE Shutdown \/ StartEngine \/ StartAudio \/ StartAudioFails \/ UndoStart
           \/ JoinOld \/ CancelEngine \/ CancelDone \/ JoinFinish
           \/ DestroyEngine \/ Destroyed
    BY <1>3 DEF Shutdown, StartEngine, StartAudio, StartAudioFails, UndoStart,
       JoinOld, CancelEngine, CancelDone, JoinFinish, DestroyEngine, Destroyed
<1>4. CASE PollWake \/ PollNothing \/ PollText \/ PollFails \/ PartialCheck
           \/ PartialEmit \/ StreamingErrorStale \/ StreamingError
           \/ StreamingErrorReport
    BY <1>4 DEF PollWake, PollNothing, PollText, PollFails, PartialCheck,
       PartialEmit, StreamingErrorStale, StreamingError, StreamingErrorReport
<1>5. ASSUME NEW g \in Gens,
             \/ FinishStop(g) \/ FinishDrain(g) \/ FinishDropped(g)
             \/ FailTranscription(g) \/ FailedReport(g) \/ EmitFinal(g) \/ Inject(g)
      PROVE  UNCHANGED fate
    BY <1>5 DEF FinishStop, FinishDrain, FinishDropped, FailTranscription,
       FailedReport, EmitFinal, Inject
<1>6. CASE UNCHANGED vars
    BY <1>6 DEF vars
<1> QED BY <1>1, <1>2, <1>3, <1>4, <1>5, <1>6
        DEF Next, Command, IOStep, PollStep, FinishStep, Terminated

LEMMA LastStep == SInv /\ [Next]_vars => LastInv'
<1> SUFFICES ASSUME SInv, [Next]_vars PROVE LastInv'
    OBVIOUS
<1> USE DEF SInv
<1>0. fate \in [Gens -> Fates] /\ FateInv /\ generation \in 0 .. MaxGen
    BY DEF IInv, TypeOK
<1>1. CASE UNCHANGED fate
    BY <1>1 DEF LastInv, IsLast
<1>2. ASSUME NEW e \in Fates \ {"none"}, NEW f \in Fates \ {"none"}, Moves(e, f)
      PROVE  LastInv'
    <2>1. PICK h \in Gens : IsLast(fate, h)
        BY <1>2 DEF LastInv, Moves
    <2>2. IsLast(fate', h)
        BY <1>0, <1>2, <2>1 DEF IsLast, Moves
    <2> QED BY <2>2 DEF LastInv
<1>3. ASSUME NEW w, BeginRecording(w) PROVE LastInv'
    <2>1. generation + 1 \in Gens
        BY <1>0, <1>3, SessionAssumption DEF BeginRecording, Gens
    <2>2. \A h \in Gens : h > generation => fate[h] = "none"
        BY <1>0 DEF FateInv
    <2>3. \A h \in Gens : h > generation + 1 => h > generation
        BY <1>0, SessionAssumption DEF Gens
    <2>4. fate' = [fate EXCEPT ![generation + 1] = "recording"]
        <3>1. fate[generation + 1] = "none"
            BY <1>0, <2>1, <2>2, SessionAssumption
        <3> QED BY <1>3, <3>1 DEF BeginRecording
    <2>5. \A h \in Gens : h > generation + 1 => fate'[h] = "none"
        BY <1>0, <2>1, <2>2, <2>3, <2>4 DEF Gens
    <2>6. IsLast(fate', generation + 1)
        BY <1>0, <2>1, <2>4, <2>5 DEF IsLast
    <2> QED BY <2>1, <2>6 DEF LastInv
<1> QED BY <1>1, <1>2, <1>3, FateSteps

LEMMA SInvStep == SInv /\ [Next]_vars => SInv'
BY IInvStep, ActiveStep, LastStep DEF SInv

-----------------------------------------------------------------------------
(* The mapping.                                                            *)

LastOf(f) ==
    IF \A g \in Gens : f[g] = "none" THEN 0
    ELSE CHOOSE g \in Gens :
            f[g] # "none" /\ \A h \in Gens : h > g => f[h] = "none"

OutcomeOf(f) ==
    [g \in Gens |-> IF f[g] \in {"recording", "draining"} THEN "none" ELSE f[g]]

LEMMA LastOfIs ==
    ASSUME NEW f, NEW g \in Gens, IsLast(f, g) PROVE LastOf(f) = g
<1>1. \E h \in Gens : IsLast(f, h)
    OBVIOUS
<1>2. LastOf(f) \in Gens /\ IsLast(f, LastOf(f))
    BY <1>1 DEF LastOf, IsLast
<1>3. LastOf(f) \in Nat /\ g \in Nat
    BY <1>2 DEF Gens
<1> QED BY <1>2, <1>3 DEF IsLast

LEMMA Mapped ==
    /\ currentOf = LastOf(fate) /\ currentOf' = LastOf(fate')
    /\ outcomeOf = OutcomeOf(fate) /\ outcomeOf' = OutcomeOf(fate')
BY DEF currentOf, outcomeOf, LastOf, OutcomeOf

\* Changing the fate of a recording that has one does not change which is last.
LEMMA LastStays ==
    ASSUME SInv, NEW e \in Fates \ {"none"}, NEW f \in Fates \ {"none"},
           Moves(e, f)
    PROVE  currentOf' = currentOf
<1>0. fate \in [Gens -> Fates]
    BY DEF SInv, IInv, TypeOK
<1>1. PICK h \in Gens : IsLast(fate, h)
    BY DEF SInv, LastInv, Moves
<1>2. IsLast(fate', h)
    BY <1>0, <1>1 DEF IsLast, Moves
<1> QED BY <1>1, <1>2, LastOfIs, Mapped

\* A recording that is open is the latest.
LEMMA OpenIsLast ==
    ASSUME SInv, NEW g \in Gens, fate[g] \in {"recording", "draining"}
    PROVE  currentOf = g
BY Open, LastOfIs, Mapped DEF SInv

-----------------------------------------------------------------------------
(* Each step of the Session is one of Dictation's, or none.                 *)

\* What Dictation sees besides the fates.
Delivery == <<given, finals, typed>>

LEMMA EndSim ==
    ASSUME SInv, NEW e, NEW f, Moves(e, f), UNCHANGED Delivery,
           state # "Cancelled", state' # "Cancelled",
           \/ e = "recording" /\ f \in {"failed", "aborted"}
           \/ e = "draining" /\ f \in {"delivered", "empty", "failed"}
    PROVE  D!End
<1> USE DEF Moves
<1>0. fate \in [Gens -> Fates] /\ generation \in Gens
    BY DEF SInv, IInv, TypeOK
<1>1. currentOf = generation /\ currentOf' = currentOf
    BY OpenIsLast, LastStays DEF Fates
<1>2. \A h \in Gens : h # generation => fate[h] \notin {"recording", "draining"}
    BY Open DEF SInv
<1>3. phaseOf = IF e = "recording" THEN "listening" ELSE "settling"
    BY <1>0, <1>2 DEF phaseOf
<1>4. phaseOf' = "idle"
    BY <1>0, <1>2 DEF phaseOf
<1>5. outcomeOf' = [outcomeOf EXCEPT ![generation] = f]
    BY <1>0, Mapped DEF OutcomeOf
<1> QED BY <1>1, <1>3, <1>4, <1>5 DEF D!End, Delivery

LEMMA StopSim ==
    ASSUME SInv, Moves("recording", "draining"), UNCHANGED Delivery,
           state # "Cancelled", state' # "Cancelled"
    PROVE  D!Stop
<1> USE DEF Moves
<1>0. fate \in [Gens -> Fates] /\ generation \in Gens
    BY DEF SInv, IInv, TypeOK
<1>1. currentOf' = currentOf
    BY LastStays DEF Fates
<1>2. \A h \in Gens : h # generation => fate[h] \notin {"recording", "draining"}
    BY Open DEF SInv
<1>3. phaseOf = "listening" /\ phaseOf' = "settling"
    BY <1>0, <1>2 DEF phaseOf
<1>4. outcomeOf' = outcomeOf
    BY <1>0, Mapped DEF OutcomeOf
<1> QED BY <1>1, <1>3, <1>4 DEF D!Stop, Delivery

LEMMA CancelSim ==
    ASSUME SInv, NEW e \in {"recording", "draining"}, Moves(e, "cancelled"),
           UNCHANGED Delivery, state # "Cancelled", state' = "Cancelled"
    PROVE  D!Cancel
<1> USE DEF Moves
<1>0. fate \in [Gens -> Fates] /\ generation \in Gens
    BY DEF SInv, IInv, TypeOK
<1>1. currentOf = generation /\ currentOf' = currentOf
    BY OpenIsLast, LastStays DEF Fates
<1>2. phaseOf \in {"listening", "settling"} /\ phaseOf' = "discarding"
    <2>1. \A h \in Gens : h # generation => fate[h] \notin {"recording", "draining"}
        BY Open DEF SInv
    <2>2. phaseOf = IF e = "recording" THEN "listening" ELSE "settling"
        BY <1>0, <2>1 DEF phaseOf
    <2>3. phaseOf \in {"listening", "settling"}
        BY <2>2
    <2>4. \A h \in Gens : fate'[h] \notin {"recording", "draining"}
        BY <1>0, <2>1
    <2>5. phaseOf' = "discarding"
        BY <2>4 DEF phaseOf
    <2> QED BY <2>3, <2>5
<1>3. outcomeOf' = [outcomeOf EXCEPT ![generation] = "cancelled"]
    BY <1>0, Mapped DEF OutcomeOf
<1> QED BY <1>1, <1>2, <1>3 DEF D!Cancel, Delivery

LEMMA DiscardedSim ==
    ASSUME SInv, UNCHANGED <<fate, Delivery>>, state = "Cancelled", state' = "Idle"
    PROVE  D!Discarded
<1>1. \A g \in Gens : fate[g] \notin {"recording", "draining"}
    BY Quiescent DEF SInv, IInv, PhaseInv
<1>2. phaseOf = "discarding" /\ phaseOf' = "idle"
    BY <1>1 DEF phaseOf
<1> QED BY <1>2, Mapped DEF D!Discarded, Delivery

\* The phase is read off the fates as long as nothing is cancelled.
LEMMA PhaseKept ==
    ASSUME UNCHANGED fate, state = "Cancelled" <=> state' = "Cancelled"
    PROVE  phaseOf' = phaseOf /\ currentOf' = currentOf /\ outcomeOf' = outcomeOf
BY Mapped DEF phaseOf

LEMMA StutterSim ==
    ASSUME UNCHANGED <<fate, Delivery>>, state = "Cancelled" <=> state' = "Cancelled"
    PROVE  UNCHANGED D!vars
BY PhaseKept DEF D!vars, Delivery

LEMMA BeginSim ==
    ASSUME SInv, NEW w \in Windows \union {NoWindow}, BeginRecording(w)
    PROVE  D!Begin(generation + 1, w) /\ generation + 1 \in Gens
<1> DEFINE r == generation + 1
<1>0. /\ fate \in [Gens -> Fates] /\ given \in [Gens -> Windows \union {NoWindow}]
      /\ generation \in 0 .. MaxGen /\ FateInv
    BY DEF SInv, IInv, TypeOK
<1>1. r \in Gens /\ \A h \in Gens : h > r => h > generation
    BY <1>0, SessionAssumption DEF BeginRecording, Gens
<1>2. \A h \in Gens : h > generation => fate[h] = "none"
    BY <1>0 DEF FateInv
<1>3. fate[r] = "none"
    BY <1>0, <1>1, <1>2, SessionAssumption
<1>4. fate' = [fate EXCEPT ![r] = "recording"]
    BY <1>3 DEF BeginRecording
<1>5. \A g \in Gens : fate[g] \notin {"recording", "draining"}
    BY Quiescent DEF SInv, BeginRecording
<1>6. phaseOf = "idle"
    BY <1>5 DEF phaseOf, BeginRecording
<1>7. phaseOf' = "listening"
    <2>1. fate'[r] = "recording" /\ state' = "Idle"
        BY <1>0, <1>1, <1>4 DEF BeginRecording
    <2>2. state' # "Cancelled" /\ \E g \in Gens : fate'[g] = "recording"
        BY <1>1, <2>1
    <2>3. \A g \in Gens : fate'[g] # "draining"
        BY <1>0, <1>1, <1>4, <1>5
    <2> HIDE DEF r
    <2> QED BY <2>2, <2>3 DEF phaseOf
<1>8. currentOf' = r
    <2>1. IsLast(fate', r)
        BY <1>0, <1>1, <1>2, <1>4 DEF IsLast
    <2> QED BY <1>1, <2>1, LastOfIs, Mapped
<1>9. r > currentOf
    <2>1. CASE \A g \in Gens : fate[g] = "none"
        BY <1>1, <2>1 DEF currentOf, Gens
    <2>2. CASE \E g \in Gens : fate[g] # "none"
        <3>1. PICK h \in Gens : IsLast(fate, h)
            BY <2>2 DEF SInv, LastInv
        <3>2. ~(h > generation)
            BY <1>2, <3>1 DEF IsLast
        <3> QED BY <1>0, <3>1, <3>2, LastOfIs, Mapped, SessionAssumption DEF Gens
    <2> QED BY <2>1, <2>2
<1>10. outcomeOf' = outcomeOf
    BY <1>0, <1>3, <1>4, Mapped DEF OutcomeOf
<1>11. given' = [given EXCEPT ![r] = w] /\ UNCHANGED <<finals, typed>>
    BY DEF BeginRecording
<1> QED BY <1>1, <1>6, <1>7, <1>8, <1>9, <1>10, <1>11 DEF D!Begin

LEMMA AnnounceSim ==
    ASSUME SInv, NEW g \in Gens, EmitFinal(g) PROVE D!Announce(g)
<1>1. fate[g] = "delivered" /\ finals[g] = 0 /\ finals \in [Gens -> Nat]
    BY DEF SInv, IInv, DeliveryInv, EmitFinal, TypeOK
<1>2. phaseOf' = phaseOf /\ currentOf' = currentOf /\ outcomeOf' = outcomeOf
    BY PhaseKept DEF EmitFinal
<1>3. outcomeOf[g] = "delivered"
    BY <1>1, Mapped DEF OutcomeOf
<1> QED BY <1>1, <1>2, <1>3 DEF D!Announce, EmitFinal

LEMMA TypeSim ==
    ASSUME SInv, NEW g \in Gens, Inject(g) PROVE D!Type(g)
<1>1. finals[g] = 1 /\ typed[g] = 0 /\ given[g] = NoWindow /\ typed \in [Gens -> Nat]
    BY DEF SInv, IInv, DeliveryInv, Inject, TypeOK
<1>2. phaseOf' = phaseOf /\ currentOf' = currentOf /\ outcomeOf' = outcomeOf
    BY PhaseKept DEF Inject
<1> QED BY <1>1, <1>2 DEF D!Type, Inject

LEMMA StepSim == SInv /\ [Next]_vars => [D!Next]_(D!vars)
<1> SUFFICES ASSUME SInv, [Next]_vars PROVE D!Next \/ UNCHANGED D!vars
    OBVIOUS
<1>0. /\ IInv /\ ActiveInv /\ TypeOK /\ MutexInv /\ PhaseInv /\ FinishInv
    BY DEF SInv, IInv
<1>1. ASSUME NEW w \in Windows \union {NoWindow}, BeginRecording(w) PROVE D!Next
    BY <1>1, BeginSim DEF D!Next
<1>2. CASE StartFinalization
    <2>1. Moves("recording", "draining")
        BY <1>0, <1>2, MovesAre
    <2>2. /\ state # "Cancelled" /\ state' # "Cancelled" /\ UNCHANGED Delivery
        BY <1>2 DEF StartFinalization, Delivery
    <2> QED BY <2>1, <2>2, StopSim DEF D!Next
<1>3. CASE CancelRecording \/ CancelFinalization
    <2>1. Moves("recording", "cancelled") \/ Moves("draining", "cancelled")
        BY <1>0, <1>3, MovesAre
    <2>2. /\ state # "Cancelled" /\ state' = "Cancelled" /\ UNCHANGED Delivery
        BY <1>3 DEF CancelRecording, CancelFinalization, Delivery
    <2> QED BY <2>1, <2>2, CancelSim DEF D!Next
<1>4. CASE UndoDone
    <2>1. /\ state # "Cancelled" /\ state' # "Cancelled" /\ UNCHANGED Delivery
        BY <1>0, <1>4 DEF UndoDone, PhaseInv, Delivery
    <2> QED BY <1>0, <1>4, <2>1, MovesAre, EndSim DEF D!Next
<1>5. CASE StreamingErrorIdle
    <2>1. /\ state # "Cancelled" /\ state' # "Cancelled" /\ UNCHANGED Delivery
        BY <1>0, <1>5 DEF StreamingErrorIdle, MutexInv, PhaseInv, Delivery
    <2> QED BY <1>0, <1>5, <2>1, MovesAre, EndSim DEF D!Next
<1>6. CASE CancelDone
    <2>1. state = "Cancelled" /\ state' = "Idle" /\ UNCHANGED <<fate, Delivery>>
        BY <1>0, <1>6 DEF CancelDone, PhaseInv, Delivery
    <2> QED BY <2>1, DiscardedSim DEF D!Next
<1>7. CASE Shutdown \/ StartEngine \/ StartAudio \/ StartAudioFails \/ UndoStart
           \/ JoinOld \/ CancelEngine \/ JoinFinish \/ DestroyEngine \/ Destroyed
    <2>1. UNCHANGED <<fate, Delivery>> /\ (state' = state \/ StartAudio)
        BY <1>7 DEF Shutdown, StartEngine, StartAudio, StartAudioFails,
           UndoStart, JoinOld, CancelEngine, JoinFinish, DestroyEngine,
           Destroyed, Delivery
    <2>2. state = "Cancelled" <=> state' = "Cancelled"
        BY <1>0, <2>1 DEF StartAudio, PhaseInv
    <2> QED BY <2>1, <2>2, StutterSim
<1>8. CASE PollWake \/ PollNothing \/ PollText \/ PollFails \/ PartialCheck
           \/ PartialEmit \/ StreamingErrorStale \/ StreamingErrorReport
    <2>1. UNCHANGED <<state, fate, Delivery>>
        BY <1>8 DEF PollWake, PollNothing, PollText, PollFails, PartialCheck,
           PartialEmit, StreamingErrorStale, StreamingErrorReport, Delivery
    <2> QED BY <2>1, StutterSim
<1>9. CASE StreamingError
    <2>1. /\ UNCHANGED <<fate, Delivery>>
          /\ state # "Cancelled" /\ state' # "Cancelled"
        BY <1>9 DEF StreamingError, Delivery
    <2> QED BY <2>1, StutterSim
<1>10. ASSUME NEW g \in Gens, FinishStep(g) PROVE D!Next \/ UNCHANGED D!vars
    <2>1. CASE FinishStop(g) \/ FinishDrain(g) \/ FailedReport(g)
        <3>1. UNCHANGED <<state, fate, Delivery>>
            BY <2>1 DEF FinishStop, FinishDrain, FailedReport, Delivery
        <3> QED BY <3>1, StutterSim
    <2>2. CASE FinishDropped(g)
        <3>1. state = "Cancelled" /\ state' = "Idle" /\ UNCHANGED <<fate, Delivery>>
            BY <1>0, <2>2 DEF FinishDropped, FinishInv, Delivery
        <3> QED BY <3>1, DiscardedSim DEF D!Next
    <2>3. CASE CompleteTranscription(g)
        <3>1. /\ state # "Cancelled" /\ state' # "Cancelled" /\ UNCHANGED Delivery
            BY <2>3 DEF CompleteTranscription, Delivery
        <3>2. PICK f \in {"delivered", "empty"} : Moves("draining", f)
            BY <1>0, <2>3, MovesAre
        <3> QED BY <3>1, <3>2, EndSim DEF D!Next
    <2>4. CASE FailTranscription(g)
        <3>1. /\ UNCHANGED <<fate, Delivery>>
              /\ state # "Cancelled" /\ state' # "Cancelled"
            BY <2>4 DEF FailTranscription, Delivery
        <3> QED BY <3>1, StutterSim
    <2>5. CASE FailedIdle(g)
        <3>1. /\ state # "Cancelled" /\ state' # "Cancelled" /\ UNCHANGED Delivery
            BY <1>0, <2>5 DEF FailedIdle, MutexInv, PhaseInv, Delivery
        <3> QED BY <1>0, <2>5, <3>1, MovesAre, EndSim DEF D!Next
    <2>6. CASE EmitFinal(g)
        BY <2>6, AnnounceSim DEF D!Next
    <2>7. CASE Inject(g)
        BY <2>7, TypeSim DEF D!Next
    <2> QED BY <1>10, <2>1, <2>2, <2>3, <2>4, <2>5, <2>6, <2>7 DEF FinishStep
<1>11. CASE UNCHANGED vars
    BY <1>11, StutterSim DEF vars, Delivery
<1> QED BY <1>1, <1>2, <1>3, <1>4, <1>5, <1>6, <1>7, <1>8, <1>9, <1>10, <1>11
        DEF Next, Command, IOStep, PollStep, Terminated

LEMMA InitSim == Init => D!Init
BY DEF Init, D!Init, phaseOf, currentOf, outcomeOf

(* Every behaviour of the daemon's threads is one of Dictation: recordings   *)
(* follow one another, and each is announced and typed as its outcome says.  *)
THEOREM Refinement == Spec => RefinesDictation
<1>1. Spec => []SInv
    BY SInvInit, SInvStep, PTL DEF Spec
<1> QED BY <1>1, InitSim, StepSim, PTL DEF Spec, RefinesDictation, D!Spec

-----------------------------------------------------------------------------
(* The System: a text nobody disturbed goes to the window it was meant for. *)

\* No final transcript is among them twice.
Once(es) == \A m, n \in 1 .. Len(es) :
    es[m].event = "final" /\ es[n] = es[m] => m = n

\* A recording that has a text for the plugin unless the engine or somebody
\* says otherwise.
Hopeful(g)  == (Active(g) /\ state # "Error") \/ Emitting(g) \/ Posted(g)

Commands == [cmd : {"start", "stop", "toggle", "cancel"},
             win : Windows \union {NoWindow}]
Events == [event : {"state"}, value : States] \union
          [event : {"final"}, value : Gens]

WireInv ==
    /\ cmds \in Seq(Commands) /\ events \in Seq(Events)
    /\ targetWindow \in Windows \union {NoWindow}
    /\ calmKey \in BOOLEAN

\* From a calm start key on until its command has begun a recording, nothing
\* is pending, and the target is the window the command carries.
KeyInv ==
    calmKey =>
        /\ \A g \in Gens : ~Pending(g)
        /\ ~Says("Error") /\ ~Says("Cancelled")
        /\ \A n \in 1 .. Len(cmds) :
              cmds[n].cmd = "start" => cmds[n].win = targetWindow

\* While a calm recording may have a text, no other may, the target is its
\* window, and nothing is on its way that takes the target away.
CalmInv ==
    \A g \in calm : Hopeful(g) =>
        /\ targetWindow = given[g]
        /\ ~Says("Error") /\ ~Says("Cancelled")
        /\ \A h \in Gens : Pending(h) => h = g

\* A final transcript is announced once, and what was injected was announced.
HistoryInv ==
    /\ \A g \in calm : g \in Gens /\ fate[g] # "none"
    /\ \A i \in injected : /\ i[1] \in Gens /\ fate[i[1]] = "delivered"
                           /\ i[1] \in calm => i[2] = given[i[1]]
    /\ \A g \in Gens : Posted(g) => fate[g] = "delivered" /\ finals[g] # 0
    /\ Once(events)

KeptInv ==
    \A g \in calm :
        fate[g] = "delivered" /\ given[g] # NoWindow =>
            Emitting(g) \/ Posted(g) \/ \E i \in injected : i[1] = g

PlanInv == KeyInv /\ CalmInv /\ HistoryInv /\ KeptInv

SysInv == SInv /\ WireInv /\ PlanInv

-----------------------------------------------------------------------------
(* One event more, or one less.                                            *)

LEMMA Appended ==
    ASSUME events \in Seq(Events), NEW e \in Events, events' = Append(events, e)
    PROVE  /\ events' \in Seq(Events)
           /\ \A s : Says(s)' <=> Says(s) \/ (e.event = "state" /\ e.value = s)
           /\ \A g : Posted(g)' <=> Posted(g) \/ (e.event = "final" /\ e.value = g)
  <1>1. events' \in Seq(Events)
    OBVIOUS
  <1>2. Len(events) \in Nat /\ Len(events') = Len(events) + 1
    OBVIOUS
  <1>3. \A n \in 1 .. Len(events') :
            events'[n] = IF n = Len(events) + 1 THEN e ELSE events[n]
    OBVIOUS
  <1>4. /\ 1 .. Len(events) \subseteq 1 .. Len(events')
        /\ Len(events') \in 1 .. Len(events')
        /\ \A n \in 1 .. Len(events') : n # Len(events) + 1 => n \in 1 .. Len(events)
        /\ \A n \in 1 .. Len(events) : n # Len(events) + 1
    BY <1>2
  <1>5. /\ \A n \in 1 .. Len(events) : events'[n] = events[n]
        /\ events'[Len(events')] = e
    BY <1>2, <1>3, <1>4
  <1>6. \A s : Says(s)' <=> Says(s) \/ (e.event = "state" /\ e.value = s)
    BY <1>2, <1>4, <1>5, Zenon DEF Says
  <1>7. \A g : Posted(g)' <=> Posted(g) \/ (e.event = "final" /\ e.value = g)
    BY <1>2, <1>4, <1>5, Zenon DEF Posted
  <1> QED
    BY <1>1, <1>6, <1>7


LEMMA Handled ==
    ASSUME events \in Seq(Events), events # <<>>, events' = Tail(events)
    PROVE  /\ events' \in Seq(Events) /\ Head(events) \in Events
           /\ \A s : Says(s) <=> \/ Says(s)'
                                 \/ Head(events).event = "state" /\ Head(events).value = s
           /\ \A g : Posted(g) <=> \/ Posted(g)'
                                   \/ Head(events).event = "final" /\ Head(events).value = g
  <1>1. events' \in Seq(Events) /\ Head(events) \in Events
    OBVIOUS
  <1>2. Len(events) \in Nat \ {0} /\ Len(events') = Len(events) - 1
    OBVIOUS
  <1>3. events[1] = Head(events) /\ \A n \in 1 .. Len(events') : events'[n] = events[n + 1]
    OBVIOUS
  <1>4. /\ 1 \in 1 .. Len(events)
        /\ \A n \in 1 .. Len(events') : n + 1 \in 1 .. Len(events)
        /\ \A n \in 1 .. Len(events) : n = 1 \/ \E m \in 1 .. Len(events') : n = m + 1
    <2>1. \A n \in 1 .. Len(events) : n = 1 \/ (n - 1 \in 1 .. Len(events') /\ n = (n - 1) + 1)
      BY <1>2
    <2> QED
      BY <1>2, <2>1
  <1>5. ASSUME NEW s
        PROVE  Says(s) <=> Says(s)' \/ (Head(events).event = "state"
                                  /\ Head(events).value = s)
    <2>1. ASSUME Says(s)' PROVE Says(s)
      <3>1. PICK n \in 1 .. Len(events') :
                events'[n].event = "state" /\ events'[n].value = s
        BY <2>1 DEF Says
      <3> QED
        BY <1>3, <1>4, <3>1 DEF Says
    <2>2. ASSUME Head(events).event = "state", Head(events).value = s PROVE Says(s)
      BY <1>3, <1>4, <2>2 DEF Says
    <2>3. ASSUME Says(s) PROVE Says(s)' \/ (Head(events).event = "state"
                                   /\ Head(events).value = s)
      <3>1. PICK n \in 1 .. Len(events) :
                events[n].event = "state" /\ events[n].value = s
        BY <2>3 DEF Says
      <3>2. CASE n = 1
        BY <1>3, <3>1, <3>2
      <3>3. ASSUME NEW m \in 1 .. Len(events'), n = m + 1 PROVE Says(s)'
        BY <1>3, <3>1, <3>3 DEF Says
      <3> QED
        BY <1>4, <3>2, <3>3
    <2> QED
      BY <2>1, <2>2, <2>3
  <1>6. ASSUME NEW g
        PROVE  Posted(g) <=> Posted(g)' \/ (Head(events).event = "final"
                                  /\ Head(events).value = g)
    <2>1. ASSUME Posted(g)' PROVE Posted(g)
      <3>1. PICK n \in 1 .. Len(events') :
                events'[n].event = "final" /\ events'[n].value = g
        BY <2>1 DEF Posted
      <3> QED
        BY <1>3, <1>4, <3>1 DEF Posted
    <2>2. ASSUME Head(events).event = "final", Head(events).value = g PROVE Posted(g)
      BY <1>3, <1>4, <2>2 DEF Posted
    <2>3. ASSUME Posted(g) PROVE Posted(g)' \/ (Head(events).event = "final"
                                   /\ Head(events).value = g)
      <3>1. PICK n \in 1 .. Len(events) :
                events[n].event = "final" /\ events[n].value = g
        BY <2>3 DEF Posted
      <3>2. CASE n = 1
        BY <1>3, <3>1, <3>2
      <3>3. ASSUME NEW m \in 1 .. Len(events'), n = m + 1 PROVE Posted(g)'
        BY <1>3, <3>1, <3>3 DEF Posted
      <3> QED
        BY <1>4, <3>2, <3>3
    <2> QED
      BY <2>1, <2>2, <2>3
  <1> QED
    BY <1>1, <1>5, <1>6


LEMMA OnceMore ==
    ASSUME events \in Seq(Events), NEW e \in Events, events' = Append(events, e),
           Once(events), e.event = "final" => ~Posted(e.value)
    PROVE  Once(events')
  <1>1. Len(events) \in Nat /\ Len(events') = Len(events) + 1
    OBVIOUS
  <1>2. \A n \in 1 .. Len(events') :
            \/ n = Len(events) + 1 /\ events'[n] = e
            \/ n \in 1 .. Len(events) /\ events'[n] = events[n]
    OBVIOUS
  <1>3. ASSUME NEW m \in 1 .. Len(events), e.event = "final", events[m] = e
        PROVE  FALSE
    BY <1>3 DEF Posted
  <1> SUFFICES ASSUME NEW m \in 1 .. Len(events'), NEW n \in 1 .. Len(events'),
                      events'[m].event = "final", events'[n] = events'[m]
               PROVE  m = n
    BY DEF Once
  <1>4. CASE m \in 1 .. Len(events) /\ n \in 1 .. Len(events)
    <2>1. events'[m] = events[m] /\ events'[n] = events[n]
      BY <1>4
    <2> QED
      BY <1>4, <2>1, Zenon DEF Once
  <1>5. CASE m = Len(events) + 1 /\ n = Len(events) + 1
    BY <1>5
  <1>6. CASE m \in 1 .. Len(events) /\ events'[n] = e /\ events'[m] = events[m]
    BY <1>3, <1>6
  <1>7. CASE n \in 1 .. Len(events) /\ events'[m] = e /\ events'[n] = events[n]
    BY <1>3, <1>7
  <1> QED
    BY <1>2, <1>4, <1>5, <1>6, <1>7


LEMMA OnceLess ==
    ASSUME events \in Seq(Events), events # <<>>, events' = Tail(events), Once(events)
    PROVE  /\ Once(events')
           /\ \A g : Head(events).event = "final" /\ Head(events).value = g
                        => ~Posted(g)'
  <1>1. Len(events) \in Nat \ {0} /\ Len(events') = Len(events) - 1
    OBVIOUS
  <1>2. events[1] = Head(events) /\ \A n \in 1 .. Len(events') : events'[n] = events[n + 1]
    OBVIOUS
  <1>3. /\ 1 \in 1 .. Len(events)
        /\ \A n \in 1 .. Len(events') : n + 1 \in 1 .. Len(events) /\ n + 1 # 1
    BY <1>1
  <1>4. Once(events')
    <2> SUFFICES ASSUME NEW m \in 1 .. Len(events'), NEW n \in 1 .. Len(events'),
                        events'[m].event = "final", events'[n] = events'[m]
                 PROVE  m = n
      BY DEF Once
    <2>1. m + 1 = n + 1
      BY <1>2, <1>3, Zenon DEF Once
    <2> QED
      BY <2>1
  <1>5. ASSUME NEW g, Head(events).event = "final", Head(events).value = g,
               Posted(g)'
        PROVE  FALSE
    <2>1. PICK n \in 1 .. Len(events') :
              events'[n].event = "final" /\ events'[n].value = g
      BY <1>5 DEF Posted
    <2>2. events[n + 1] \in Events /\ events[1] \in Events
      BY <1>3
    <2>3. events[n + 1].event = "final" /\ events[1].event = "final"
          /\ events[n + 1].value = events[1].value
      BY <1>2, <1>5, <2>1
    <2>4. events[n + 1] = events[1]
      BY <2>2, <2>3 DEF Events
    <2> QED
      BY <1>3, <2>3, <2>4, Zenon DEF Once
  <1> QED
    BY <1>4, <1>5


(* What Announce appends.                                                  *)
LEMMA News ==
    ASSUME events \in Seq(Events), Announce, finals \in [Gens -> Nat]
    PROVE  /\ finals' = finals /\ state' = state => events' = events
           /\ finals' = finals /\ state' # state
                 => events' = Append(events, StateChanged(state'))
           /\ \A g \in Gens :
                 state' = state /\ finals' = [finals EXCEPT ![g] = @ + 1]
                     => events' = Append(events, Final(g))
  <1>1. ASSUME finals' = finals, state' = state PROVE events' = events
    <2>1. events' = events \o <<>> \o <<>>
      BY <1>1 DEF Announce
    <2> QED
      BY <2>1
  <1>2. ASSUME finals' = finals, state' # state
        PROVE  events' = Append(events, StateChanged(state'))
    <2> DEFINE e == StateChanged(state')
    <2>1. events' = events \o <<e>> \o <<>>
      BY <1>2 DEF Announce
    <2> HIDE DEF e
    <2>2. events \o <<e>> = Append(events, e) /\ events \o <<e>> \in Seq(Events \union {e})
      OBVIOUS
    <2>3. events' = Append(events, e)
      BY <2>1, <2>2
    <2> QED
      BY <2>3 DEF e
  <1>3. ASSUME NEW g \in Gens, state' = state, finals' = [finals EXCEPT ![g] = @ + 1]
        PROVE  events' = Append(events, Final(g))
    <2>1. finals'[g] # finals[g] /\ \A h \in Gens : finals'[h] # finals[h] => h = g
      BY <1>3
    <2>2. finals' # finals
      BY <2>1
    <2>3. (CHOOSE h \in Gens : finals'[h] # finals[h]) = g
      BY <2>1
    <2>4. events' = events \o <<>> \o <<Final(g)>>
      BY <1>3, <2>2, <2>3 DEF Announce
    <2> DEFINE e == Final(g)
    <2> HIDE DEF e
    <2>5. events \o <<>> = events /\ events \o <<e>> = Append(events, e)
      OBVIOUS
    <2> QED
      BY <2>4, <2>5 DEF e
  <1> QED
    BY <1>1, <1>2, <1>3


-----------------------------------------------------------------------------
(* The daemon under the System.                                            *)

Orders == \/ \E w \in Windows \union {NoWindow} : BeginRecording(w)
          \/ StartFinalization \/ CancelRecording \/ CancelFinalization
DaemonMoves == Orders \/ IOStep \/ PollStep \/ \E g \in Gens : FinishStep(g)

LEMMA MovesAreNext == DaemonMoves => Next
  BY DEF DaemonMoves, Orders, Next, Command


\* What a step of the daemon means to the System, other than beginning a
\* recording: it moves on or ends the one that is open,
Goes ==
    /\ UNCHANGED <<finals, given>>
    /\ \A g \in Gens : /\ Emitting(g)' <=> Emitting(g)
                       /\ fate'[g] = "delivered" <=> fate[g] = "delivered"
                       /\ fate[g] # "none" => fate'[g] # "none"
                       /\ Active(g)' => Active(g)
                       /\ Active(g)' /\ state = "Error" => state' = "Error"
    /\ state' = "Error" /\ state # "Error" => \E g \in Gens : Active(g)
    /\ state' = "Cancelled" /\ state # "Cancelled" =>
          \E g \in Gens : Active(g) /\ ~Active(g)'

\* or accepts its text,
Accepts(g) ==
    /\ UNCHANGED <<finals, given>>
    /\ state = "Transcribing" /\ state' = "Idle"
    /\ Active(g) /\ fate'[g] = "delivered" /\ Emitting(g)'
    /\ \A h \in Gens \ {g} : fate'[h] = fate[h] /\ (Emitting(h)' <=> Emitting(h))

\* or announces it.
Emits(g) ==
    /\ UNCHANGED <<state, fate, given>>
    /\ finals' = [finals EXCEPT ![g] = @ + 1]
    /\ fate[g] = "delivered" /\ Emitting(g)
    /\ \A h \in Gens : Emitting(h)' <=> Emitting(h) /\ h # g

\* A fate that moves without a delivery.
LEMMA MovesGoes ==
    ASSUME SInv, NEW e \in {"recording", "draining"},
           NEW f \in Fates \ {"delivered", "none"}, Moves(e, f)
    PROVE  /\ \A g \in Gens : /\ fate'[g] = "delivered" <=> fate[g] = "delivered"
                              /\ fate[g] # "none" => fate'[g] # "none"
                              /\ Active(g)' => Active(g)
                              /\ f \notin {"recording", "draining"} => ~Active(g)'
           /\ \E g \in Gens : Active(g)
  <1>0. fate \in [Gens -> Fates] /\ IInv /\ ActiveInv
    BY DEF SInv, IInv, TypeOK
  <1>1. \A g \in Gens : g # generation => fate'[g] = fate[g] /\ ~Active(g)
    BY <1>0 DEF Moves, Active, ActiveInv
  <1>2. generation \in Gens /\ fate[generation] = e /\ fate'[generation] = f
    BY <1>0 DEF Moves
  <1> QED
    BY <1>1, <1>2 DEF Active


LEMMA DaemonStepIs ==
    ASSUME SInv, DaemonMoves
    PROVE  \/ \E w \in Windows \union {NoWindow} : BeginRecording(w)
           \/ Goes
           \/ \E g \in Gens : Accepts(g) \/ Emits(g)
  <1>0. /\ TypeOK /\ BoundInv /\ MutexInv /\ PhaseInv /\ FinishInv /\ FateInv
        /\ DeliveryInv /\ IInv /\ ActiveInv
        /\ state \in {"Recording", "Transcribing", "Error"} => generation \in Gens
    BY DEF SInv, IInv, ActiveInv
  <1>2. CASE StartFinalization
    <2>1. Moves("recording", "draining")
      BY <1>0, <1>2, MovesAre
    <2>2. \A g \in Gens : Emitting(g)' <=> Emitting(g)
      BY <1>0, <1>2 DEF StartFinalization, Emitting, FinishInv, TypeOK, FinishWorkers
    <2>3. UNCHANGED <<finals, given>> /\ state = "Recording" /\ state' = "Transcribing"
      BY <1>2 DEF StartFinalization
    <2> QED
      BY <2>1, <2>2, <2>3, MovesGoes DEF Goes, Fates
  <1>3. CASE CancelRecording
    <2>1. Moves("recording", "cancelled")
      BY <1>0, <1>3, MovesAre
    <2>2. UNCHANGED <<fin, finals, given>> /\ state = "Recording" /\ state' = "Cancelled"
      BY <1>3 DEF CancelRecording
    <2> QED
      BY <1>3, <2>1, <2>2, MovesGoes DEF Goes, Fates, Emitting
  <1>4. CASE CancelFinalization
    <2>1. Moves("draining", "cancelled")
      BY <1>0, <1>4, MovesAre
    <2>2. UNCHANGED <<fin, finals, given>> /\ state = "Transcribing" /\ state' = "Cancelled"
      BY <1>4 DEF CancelFinalization
    <2> QED
      BY <1>4, <2>1, <2>2, MovesGoes DEF Goes, Fates, Emitting
  <1>5. CASE UndoDone
    <2>1. Moves("recording", "aborted")
      BY <1>0, <1>5, MovesAre
    <2>2. UNCHANGED <<fin, finals, given, state>> /\ state = "Idle"
      BY <1>0, <1>5 DEF UndoDone, PhaseInv
    <2> QED
      BY <2>1, <2>2, MovesGoes DEF Goes, Fates, Emitting
  <1>6. CASE StreamingErrorIdle
    <2>1. Moves("recording", "failed")
      BY <1>0, <1>6, MovesAre
    <2>2. UNCHANGED <<fin, finals, given>> /\ state' = "Idle"
      BY <1>6 DEF StreamingErrorIdle
    <2> QED
      BY <2>1, <2>2, MovesGoes DEF Goes, Fates, Emitting
  <1>7. CASE \/ StartEngine \/ StartAudioFails \/ UndoStart \/ JoinOld
             \/ CancelEngine \/ JoinFinish \/ DestroyEngine \/ Destroyed
             \/ PollWake \/ PollNothing \/ PollText \/ PollFails \/ PartialCheck
             \/ PartialEmit \/ StreamingErrorReport \/ StreamingErrorStale
    <2>1. UNCHANGED <<state, fate, fin, finals, given>>
      BY <1>7 DEF StartEngine, StartAudioFails, UndoStart, JoinOld,
         CancelEngine, JoinFinish, DestroyEngine, Destroyed, PollWake,
         PollNothing, PollText, PollFails, PartialCheck, PartialEmit,
         StreamingErrorReport, StreamingErrorStale
    <2> QED
      BY <2>1 DEF Goes, Active, Emitting
  <1>8. CASE StartAudio \/ CancelDone \/ StreamingError
    <2>1. UNCHANGED <<fate, fin, finals, given>>
      BY <1>8 DEF StartAudio, CancelDone, StreamingError
    <2>2. state # "Error" /\ state' # "Cancelled"
      BY <1>0, <1>8 DEF StartAudio, CancelDone, StreamingError, PhaseInv
    <2>3. state' = "Error" => \E g \in Gens : Active(g)
      BY <1>0, <1>8 DEF StartAudio, CancelDone, StreamingError, FateInv, Active
    <2> QED
      BY <2>1, <2>2, <2>3 DEF Goes, Active, Emitting
  <1>9. ASSUME NEW g \in Gens, FinishStep(g)
        PROVE  Goes \/ Accepts(g) \/ Emits(g)
    <2>1. CASE FinishStop(g) \/ FinishDrain(g) \/ FailedReport(g) \/ Inject(g)
      <3>1. UNCHANGED <<state, fate, finals, given>>
        BY <2>1 DEF FinishStop, FinishDrain, FailedReport, Inject
      <3>2. \A h \in Gens : Emitting(h)' <=> Emitting(h)
        BY <1>0, <2>1, ZenonT(60) DEF FinishStop, FinishDrain, FailedReport, Inject, Emitting,
           TypeOK, FinishWorkers
      <3> QED
        BY <3>1, <3>2 DEF Goes, Active
    <2>2. CASE FinishDropped(g)
      <3>1. UNCHANGED <<fate, finals, given>> /\ state = "Cancelled" /\ state' = "Idle"
        BY <1>0, <2>2 DEF FinishDropped, FinishInv
      <3>2. \A h \in Gens : Emitting(h)' <=> Emitting(h)
        BY <1>0, <2>2 DEF FinishDropped, Emitting, TypeOK, FinishWorkers
      <3> QED
        BY <3>1, <3>2 DEF Goes, Active
    <2>3. CASE CompleteTranscription(g) /\ fin[g].out = "empty"
      <3>1. Moves("draining", "empty")
        BY <1>0, <2>3, MovesAre
      <3>2. UNCHANGED <<finals, given>> /\ state' = "Idle"
        BY <2>3 DEF CompleteTranscription
      <3>3. \A h \in Gens : Emitting(h)' <=> Emitting(h)
        BY <1>0, <2>3 DEF CompleteTranscription, Emitting, TypeOK, FinishWorkers
      <3> QED
        BY <3>1, <3>2, <3>3, MovesGoes DEF Goes, Fates
    <2>4. CASE CompleteTranscription(g) /\ fin[g].out # "empty"
      <3>1. Moves("draining", "delivered") /\ g = generation
        BY <1>0, <2>4, MovesAre DEF CompleteTranscription
      <3>2. UNCHANGED <<finals, given>> /\ state' = "Idle" /\ state = "Transcribing"
        BY <1>0, <2>4 DEF CompleteTranscription, FinishInv
      <3>3. Emitting(g)' /\ \A h \in Gens \ {g} : Emitting(h)' <=> Emitting(h)
        BY <1>0, <2>4 DEF CompleteTranscription, Emitting, TypeOK, FinishWorkers
      <3>4. Active(g) /\ fate'[g] = "delivered"
            /\ \A h \in Gens \ {g} : fate'[h] = fate[h]
        BY <1>0, <3>1 DEF Moves, Active, TypeOK
      <3> QED
        BY <3>2, <3>3, <3>4 DEF Accepts
    <2>5. CASE FailTranscription(g)
      <3>1. /\ UNCHANGED <<fate, finals, given>> /\ state' = "Error"
            /\ g = generation /\ state = "Transcribing"
        BY <1>0, <2>5 DEF FailTranscription, FinishInv
      <3>2. \A h \in Gens : Emitting(h)' <=> Emitting(h)
        BY <1>0, <2>5 DEF FailTranscription, Emitting, TypeOK, FinishWorkers
      <3>3. Active(g)
        BY <1>0, <3>1 DEF FateInv, Active
      <3> QED
        BY <3>1, <3>2, <3>3 DEF Goes, Active
    <2>6. CASE FailedIdle(g)
      <3>1. Moves("draining", "failed")
        BY <1>0, <2>6, MovesAre
      <3>2. UNCHANGED <<finals, given>> /\ state' = "Idle"
        BY <2>6 DEF FailedIdle
      <3>3. \A h \in Gens : Emitting(h)' <=> Emitting(h)
        BY <1>0, <2>6 DEF FailedIdle, Emitting, TypeOK, FinishWorkers
      <3> QED
        BY <3>1, <3>2, <3>3, MovesGoes DEF Goes, Fates
    <2>7. CASE EmitFinal(g)
      <3>1. UNCHANGED <<state, fate, given>> /\ finals' = [finals EXCEPT ![g] = @ + 1]
        BY <2>7 DEF EmitFinal
      <3>2. fate[g] = "delivered" /\ Emitting(g)
        BY <1>0, <2>7 DEF EmitFinal, DeliveryInv, Emitting
      <3>3. \A h \in Gens : Emitting(h)' <=> Emitting(h) /\ h # g
        BY <1>0, <2>7 DEF EmitFinal, Emitting, TypeOK, FinishWorkers
      <3> QED
        BY <3>1, <3>2, <3>3 DEF Emits
    <2> QED
      BY <1>9, <2>1, <2>2, <2>3, <2>4, <2>5, <2>6, <2>7 DEF FinishStep
  <1> QED
    BY <1>2, <1>3, <1>4, <1>5, <1>6, <1>7, <1>8, <1>9, Zenon
       DEF DaemonMoves, Orders, IOStep, PollStep


\* No thread cancels or begins a recording by itself.
LEMMA OnlyOnOrder ==
    ASSUME SInv, IOStep \/ PollStep \/ \E g \in Gens : FinishStep(g)
    PROVE  /\ ~CancelRecording /\ ~CancelFinalization
           /\ \A w \in Windows \union {NoWindow} : ~BeginRecording(w)
  <1>1. generation' = generation /\ (state' = "Cancelled" => state = "Cancelled")
    <2>1. CASE IOStep
      BY <2>1 DEF IOStep, StartEngine, StartAudio, StartAudioFails, UndoStart,
         UndoDone, JoinOld, CancelEngine, CancelDone, JoinFinish, DestroyEngine,
         Destroyed
    <2>2. CASE PollStep
      BY <2>2 DEF PollStep, PollWake, PollNothing, PollText, PollFails,
         PartialCheck, PartialEmit, StreamingErrorStale, StreamingError,
         StreamingErrorIdle, StreamingErrorReport
    <2>3. ASSUME NEW g \in Gens, FinishStep(g)
          PROVE  generation' = generation /\ (state' = "Cancelled" => state = "Cancelled")
      BY <2>3 DEF FinishStep, FinishStop, FinishDrain, FinishDropped,
         CompleteTranscription, FailTranscription, FailedIdle, FailedReport,
         EmitFinal, Inject
    <2> QED
      BY <2>1, <2>2, <2>3
  <1>2. generation \in Nat
    BY DEF SInv, IInv, TypeOK
  <1> QED
    BY <1>1, <1>2 DEF CancelRecording, CancelFinalization, BeginRecording


-----------------------------------------------------------------------------
(* The daemon's steps keep the plan.                                       *)

OldCommands == \A n \in 1 .. Len(cmds') :
                   \E m \in 1 .. Len(cmds) : cmds'[n] = cmds[m]
PluginWaits == UNCHANGED <<mirror, targetWindow, injected>>

LEMMA DeliveredToo ==
    ASSUME SysInv, NEW g \in Gens
    PROVE  /\ Emitting(g) => fate[g] = "delivered" /\ finals[g] = 0
           /\ Active(g) => ~Emitting(g) /\ ~Posted(g)
  <1>1. Emitting(g) => fate[g] = "delivered" /\ finals[g] = 0
    BY DEF SysInv, SInv, IInv, DeliveryInv, Emitting
  <1>2. Posted(g) => fate[g] = "delivered"
    BY DEF SysInv, PlanInv, HistoryInv
  <1> QED
    BY <1>1, <1>2 DEF Active

LEMMA GoesKeeps ==
    ASSUME SysInv, Goes, Announce, PluginWaits, OldCommands, UNCHANGED calmness,
           state' \in States
    PROVE  events' \in Seq(Events) /\ PlanInv'
  <1>0. /\ WireInv /\ KeyInv /\ CalmInv /\ HistoryInv /\ KeptInv
        /\ finals \in [Gens -> Nat] /\ events \in Seq(Events)
    BY DEF SysInv, PlanInv, SInv, IInv, TypeOK, WireInv
  <1>1. /\ events' \in Seq(Events) /\ Once(events')
        /\ \A s : Says(s)' <=> Says(s) \/ (state' # state /\ s = state')
        /\ \A g : Posted(g)' <=> Posted(g)
    <2>1. CASE state' = state
      <3>1. events' = events
        BY <1>0, <2>1, News DEF Goes
      <3> QED
        BY <1>0, <2>1, <3>1 DEF HistoryInv, Says, Posted
    <2>2. CASE state' # state
      <3> DEFINE e == StateChanged(state')
      <3>1. events' = Append(events, e)
        BY <1>0, <2>2, News DEF Goes
      <3>2. e \in Events /\ e.event = "state" /\ e.value = state'
        BY DEF Events, StateChanged
      <3> HIDE DEF e
      <3>3. events' \in Seq(Events) /\ (\A s : Says(s)' <=> Says(s) \/ e.value = s)
            /\ (\A g : Posted(g)' <=> Posted(g))
        BY <1>0, <3>1, <3>2, Appended
      <3>4. Once(events')
        BY <1>0, <3>1, <3>2, OnceMore DEF HistoryInv
      <3> QED
        BY <2>2, <3>2, <3>3, <3>4
    <2> QED
      BY <2>1, <2>2
  <1>2. \A g \in Gens : /\ Pending(g)' => Pending(g)
                        /\ Hopeful(g)' => Hopeful(g)
                        /\ Hopeful(g) => Pending(g)
                        /\ Emitting(g)' <=> Emitting(g)
    BY <1>1 DEF Goes, Pending, Hopeful
  <1>3. given' = given /\ finals' = finals /\ targetWindow' = targetWindow
        /\ injected' = injected /\ calmKey' = calmKey /\ calm' = calm
    BY DEF Goes, PluginWaits, calmness
  <1>4. KeyInv'
    <2> SUFFICES ASSUME calmKey
                 PROVE  /\ \A g \in Gens : ~Pending(g)'
                        /\ ~Says("Error")' /\ ~Says("Cancelled")'
                        /\ \A n \in 1 .. Len(cmds') :
                              cmds'[n].cmd = "start" => cmds'[n].win = targetWindow
      BY <1>3 DEF KeyInv
    <2>1. /\ \A g \in Gens : ~Pending(g) /\ ~Active(g)
          /\ ~Says("Error") /\ ~Says("Cancelled")
      BY <1>0 DEF KeyInv, Pending
    <2>2. ~Says("Error")' /\ ~Says("Cancelled")'
      BY <1>1, <2>1 DEF Goes
    <2>3. \A n \in 1 .. Len(cmds') :
              cmds'[n].cmd = "start" => cmds'[n].win = targetWindow
      BY <1>0 DEF KeyInv, OldCommands
    <2> QED
      BY <1>2, <2>1, <2>2, <2>3
  <1>5. CalmInv'
    <2> SUFFICES ASSUME NEW g \in calm, Hopeful(g)'
                 PROVE  /\ targetWindow = given[g]
                        /\ ~Says("Error")' /\ ~Says("Cancelled")'
                        /\ \A h \in Gens : Pending(h)' => h = g
      BY <1>3 DEF CalmInv
    <2>1. g \in Gens
      BY <1>0 DEF HistoryInv
    <2>2. /\ targetWindow = given[g] /\ ~Says("Error") /\ ~Says("Cancelled")
          /\ \A h \in Gens : Pending(h) => h = g
      BY <1>0, <1>2, <2>1 DEF CalmInv
    <2>3. ASSUME Active(g), ~Active(g)' \/ state' = "Error" PROVE FALSE
      <3>1. Emitting(g) \/ Posted(g)
        BY <1>1, <1>2, <2>1, <2>3 DEF Hopeful
      <3> QED
        BY <2>1, <2>3, <3>1, DeliveredToo
    <2>4. \A h \in Gens : Active(h) => h = g
      BY <2>2 DEF Pending
    <2>5. ~(state' = "Error" /\ state # "Error")
      BY <2>3, <2>4 DEF Goes
    <2>6. ~(state' = "Cancelled" /\ state # "Cancelled")
      BY <2>3, <2>4 DEF Goes
    <2> QED
      BY <1>1, <1>2, <2>2, <2>5, <2>6
  <1>6. HistoryInv'
    BY <1>0, <1>1, <1>3 DEF HistoryInv, Goes
  <1>7. KeptInv'
    <2>1. \A g \in calm : g \in Gens
      BY <1>0 DEF HistoryInv
    <2> QED
      BY <1>0, <1>1, <1>2, <1>3, <2>1 DEF KeptInv, Goes
  <1> QED
    BY <1>1, <1>4, <1>5, <1>6, <1>7 DEF PlanInv

LEMMA AcceptsKeeps ==
    ASSUME SysInv, NEW g \in Gens, Accepts(g), Announce, PluginWaits, OldCommands,
           UNCHANGED calmness
    PROVE  events' \in Seq(Events) /\ PlanInv'
  <1>0. /\ WireInv /\ KeyInv /\ CalmInv /\ HistoryInv /\ KeptInv
        /\ finals \in [Gens -> Nat] /\ events \in Seq(Events)
    BY DEF SysInv, PlanInv, SInv, IInv, TypeOK, WireInv
  <1>1. /\ events' \in Seq(Events) /\ Once(events')
        /\ \A s : Says(s)' <=> Says(s) \/ s = "Idle"
        /\ \A h : Posted(h)' <=> Posted(h)
    <2> DEFINE e == StateChanged(state')
    <2>1. events' = Append(events, e)
      BY <1>0, News DEF Accepts
    <2>2. e \in Events /\ e.event = "state" /\ e.value = "Idle"
      BY DEF Events, StateChanged, Accepts, States
    <2> HIDE DEF e
    <2>3. events' \in Seq(Events) /\ (\A s : Says(s)' <=> Says(s) \/ e.value = s)
          /\ (\A h : Posted(h)' <=> Posted(h))
      BY <1>0, <2>1, <2>2, Appended
    <2>4. Once(events')
      BY <1>0, <2>1, <2>2, OnceMore DEF HistoryInv
    <2> QED
      BY <2>2, <2>3, <2>4
  <1>2. \A h \in Gens : /\ Pending(h)' => Pending(h)
                        /\ Hopeful(h)' => Hopeful(h)
                        /\ Emitting(h) => Emitting(h)'
                        /\ fate'[h] = "delivered" <=> fate[h] = "delivered" \/ h = g
                        /\ fate[h] # "none" => fate'[h] # "none"
    BY <1>1 DEF Accepts, Pending, Hopeful, Active
  <1>3. given' = given /\ finals' = finals /\ targetWindow' = targetWindow
        /\ injected' = injected /\ calmKey' = calmKey /\ calm' = calm
    BY DEF Accepts, PluginWaits, calmness
  <1>4. KeyInv'
    BY <1>0, <1>1, <1>2, <1>3, ZenonT(60) DEF KeyInv, OldCommands
  <1>5. \A h \in calm : h \in Gens
    BY <1>0 DEF HistoryInv
  <1>6. CalmInv'
    BY <1>0, <1>1, <1>2, <1>3, <1>5 DEF CalmInv
  <1>7. HistoryInv'
    BY <1>0, <1>1, <1>2, <1>3 DEF HistoryInv
  <1>8. KeptInv'
    BY <1>0, <1>1, <1>2, <1>3, <1>5 DEF KeptInv, Accepts
  <1> QED
    BY <1>1, <1>4, <1>6, <1>7, <1>8 DEF PlanInv

LEMMA EmitsKeeps ==
    ASSUME SysInv, NEW g \in Gens, Emits(g), Announce, PluginWaits, OldCommands,
           UNCHANGED calmness
    PROVE  events' \in Seq(Events) /\ PlanInv'
  <1>0. /\ WireInv /\ KeyInv /\ CalmInv /\ HistoryInv /\ KeptInv
        /\ finals \in [Gens -> Nat] /\ events \in Seq(Events)
    BY DEF SysInv, PlanInv, SInv, IInv, TypeOK, WireInv
  <1>1. /\ events' \in Seq(Events) /\ Once(events')
        /\ \A s : Says(s)' <=> Says(s)
        /\ \A h : Posted(h)' <=> Posted(h) \/ h = g
    <2> DEFINE e == Final(g)
    <2>1. events' = Append(events, e)
      BY <1>0, News DEF Emits
    <2>2. e \in Events /\ e.event = "final" /\ e.value = g
      BY DEF Events, Final
    <2> HIDE DEF e
    <2>3. events' \in Seq(Events) /\ (\A s : Says(s)' <=> Says(s))
          /\ (\A h : Posted(h)' <=> Posted(h) \/ e.value = h)
      BY <1>0, <2>1, <2>2, Appended
    <2>4. ~Posted(g)
      BY <1>0, DeliveredToo DEF HistoryInv, Emits
    <2>5. Once(events')
      BY <1>0, <2>1, <2>2, <2>4, OnceMore DEF HistoryInv
    <2> QED
      BY <2>2, <2>3, <2>5
  <1>2. \A h \in Gens : /\ Pending(h)' => Pending(h)
                        /\ Hopeful(h)' => Hopeful(h)
                        /\ Emitting(h) => Emitting(h)' \/ Posted(h)'
    BY <1>1 DEF Emits, Pending, Hopeful, Active
  <1>3. given' = given /\ fate' = fate /\ targetWindow' = targetWindow
        /\ injected' = injected /\ calmKey' = calmKey /\ calm' = calm
    BY DEF Emits, PluginWaits, calmness
  <1>4. KeyInv'
    BY <1>0, <1>1, <1>2, <1>3 DEF KeyInv, OldCommands
  <1>5. \A h \in calm : h \in Gens
    BY <1>0 DEF HistoryInv
  <1>6. CalmInv'
    BY <1>0, <1>1, <1>2, <1>3, <1>5 DEF CalmInv
  <1>7. HistoryInv'
    <2>1. \A h \in Gens : finals[h] # 0 => finals'[h] # 0
      BY <1>0 DEF Emits
    <2>2. finals'[g] # 0 /\ fate[g] = "delivered"
      BY <1>0 DEF Emits
    <2> QED
      BY <1>0, <1>1, <1>3, <2>1, <2>2 DEF HistoryInv
  <1>8. KeptInv'
    BY <1>0, <1>1, <1>2, <1>3, <1>5 DEF KeptInv
  <1> QED
    BY <1>1, <1>4, <1>6, <1>7, <1>8 DEF PlanInv

\* A recording begins: the calm ones that stay calm are over, and if it is
\* calm itself, the target is its window.
LEMMA BeginKeeps ==
    ASSUME SysInv, NEW w \in Windows \union {NoWindow}, BeginRecording(w), Announce,
           PluginWaits, NEW asked \in BOOLEAN, Disturb(asked),
           asked => /\ calmKey /\ cmds # <<>>
                    /\ Head(cmds).cmd = "start" /\ Head(cmds).win = w
    PROVE  events' \in Seq(Events) /\ PlanInv'
  <1> DEFINE new == generation + 1
  <1>0. /\ WireInv /\ KeyInv /\ HistoryInv /\ KeptInv
        /\ finals \in [Gens -> Nat] /\ events \in Seq(Events) /\ TypeOK
        /\ FateInv
    BY DEF SysInv, PlanInv, SInv, IInv, TypeOK, WireInv
  <1>1. /\ new \in Gens /\ fate[new] = "none" /\ generation' = new
        /\ UNCHANGED <<state, fin, finals>>
        /\ given' = [given EXCEPT ![new] = w]
        /\ fate' = [fate EXCEPT ![new] = "recording"]
        /\ io' = "startEngine"
    <2>1. generation \in 0 .. MaxGen /\ MaxGen \in Nat
      BY <1>0, SessionAssumption DEF TypeOK
    <2>2. generation + 2 <= MaxGen
      BY DEF BeginRecording
    <2>3. new \in Gens /\ new > generation
      BY <2>1, <2>2 DEF Gens
    <2>4. fate[new] = "none"
      BY <1>0, <2>3 DEF FateInv
    <2> QED
      BY <2>3, <2>4 DEF BeginRecording, Settle
  <1> HIDE DEF new
  <1>2. /\ calmKey' = FALSE
        /\ calm' = Undisturbed \union (IF asked THEN {new} ELSE {})
    BY <1>1 DEF Disturb
  <1>3. events' = events /\ targetWindow' = targetWindow /\ injected' = injected
    BY <1>0, <1>1, News DEF PluginWaits
  <1>4. /\ \A s : Says(s)' <=> Says(s)
        /\ \A g : Posted(g)' <=> Posted(g)
    BY <1>3, Zenon DEF Says, Posted
  <1>5. /\ given'[new] = w /\ fate'[new] = "recording"
        /\ \A g \in Gens \ {new} : given'[g] = given[g] /\ fate'[g] = fate[g]
        /\ \A g \in Gens : Emitting(g)' <=> Emitting(g)
        /\ \A g \in Gens \ {new} : Pending(g)' <=> Pending(g)
    <2>1. given'[new] = w /\ fate'[new] = "recording"
          /\ \A g \in Gens \ {new} : given'[g] = given[g] /\ fate'[g] = fate[g]
      BY <1>0, <1>1 DEF TypeOK
    <2>2. \A g \in Gens : Emitting(g)' <=> Emitting(g)
      BY <1>1 DEF Emitting
    <2>3. \A g \in Gens \ {new} : Pending(g)' <=> Pending(g)
      BY <1>4, <2>1, <2>2 DEF Pending, Active
    <2> QED
      BY <2>1, <2>2, <2>3
  <1>6. \A g \in Undisturbed : g \in calm /\ g \in Gens \ {new} /\ ~Pending(g)
    BY <1>0, <1>1 DEF Undisturbed, HistoryInv
  <1>7. \A g \in Gens : Hopeful(g)' => Pending(g)'
    BY DEF Hopeful, Pending
  <1>8. KeyInv'
    BY <1>2 DEF KeyInv
  <1>9. CalmInv'
    <2> SUFFICES ASSUME NEW g \in calm', Hopeful(g)'
                 PROVE  /\ targetWindow' = given'[g]
                        /\ ~Says("Error")' /\ ~Says("Cancelled")'
                        /\ \A h \in Gens : Pending(h)' => h = g
      BY DEF CalmInv
    <2>1. g = new /\ asked
      BY <1>1, <1>2, <1>5, <1>6, <1>7
    <2>2. /\ \A h \in Gens : ~Pending(h)
          /\ ~Says("Error") /\ ~Says("Cancelled")
      BY <1>0, <2>1 DEF KeyInv
    <2>3. 1 \in 1 .. Len(cmds) /\ cmds[1] = Head(cmds)
      BY <1>0, <2>1 DEF WireInv
    <2>4. targetWindow = w
      BY <1>0, <2>1, <2>3 DEF KeyInv
    <2> QED
      BY <1>3, <1>4, <1>5, <2>1, <2>2, <2>4
  <1>10. HistoryInv'
    <2>1. Once(events')
      BY <1>0, <1>3 DEF HistoryInv
    <2>2. \A g \in calm' : g \in Gens /\ fate'[g] # "none"
      BY <1>0, <1>1, <1>2, <1>5, <1>6 DEF HistoryInv
    <2>3. \A i \in injected : i[1] \in Gens \ {new} /\ fate[i[1]] = "delivered"
      BY <1>0, <1>1 DEF HistoryInv
    <2>4. \A i \in injected : i[1] \in calm' => i[1] \in calm
      BY <1>2, <1>6, <2>3
    <2>5. \A i \in injected' : /\ i[1] \in Gens /\ fate'[i[1]] = "delivered"
                               /\ i[1] \in calm' => i[2] = given'[i[1]]
      BY <1>0, <1>3, <1>5, <2>3, <2>4 DEF HistoryInv
    <2>6. \A g \in Gens : Posted(g)' => fate'[g] = "delivered" /\ finals'[g] # 0
      BY <1>0, <1>1, <1>4, <1>5 DEF HistoryInv
    <2> QED
      BY <2>1, <2>2, <2>5, <2>6 DEF HistoryInv
  <1>11. KeptInv'
    <2> SUFFICES ASSUME NEW g \in calm', fate'[g] = "delivered", given'[g] # NoWindow
                 PROVE  \E i \in injected' : i[1] = g
      BY DEF KeptInv
    <2>1. g \in Undisturbed
      BY <1>2, <1>5
    <2>2. fate[g] = "delivered" /\ given[g] # NoWindow /\ g \in calm /\ ~Pending(g)
      BY <1>5, <1>6, <2>1
    <2> QED
      BY <1>0, <1>3, <2>2 DEF KeptInv, Pending
  <1> QED
    BY <1>0, <1>3, <1>8, <1>9, <1>10, <1>11 DEF PlanInv

-----------------------------------------------------------------------------
(* The plugin's steps.                                                     *)

LEMMA EventKeeps ==
    ASSUME SysInv, ReceiveEvent
    PROVE  WireInv' /\ PlanInv'
  <1> DEFINE e == Head(events)
  <1>0. /\ WireInv /\ KeyInv /\ CalmInv /\ HistoryInv /\ KeptInv
        /\ events \in Seq(Events)
    BY DEF SysInv, PlanInv, WireInv
  <1>1. /\ events # <<>> /\ events' = Tail(events) /\ cmds' = cmds
        /\ UNCHANGED <<state, fate, fin, finals, given, calmKey, calm>>
    BY DEF ReceiveEvent, vars, users, calmness
  <1>2. /\ events' \in Seq(Events) /\ e \in Events
        /\ \A s : Says(s) <=> Says(s)' \/ (e.event = "state" /\ e.value = s)
        /\ \A g : Posted(g) <=> Posted(g)' \/ (e.event = "final" /\ e.value = g)
    BY <1>0, <1>1, Handled
  <1>3. /\ Once(events')
        /\ \A g : e.event = "final" /\ e.value = g => ~Posted(g)'
    BY <1>0, <1>1, OnceLess DEF HistoryInv
  <1> HIDE DEF e
  <1>4. \/ e.event = "state" /\ e.value \in States /\ OnDaemonState(e.value)
        \/ e.event = "final" /\ e.value \in Gens /\ OnFinalTranscript(e.value)
    BY <1>2 DEF ReceiveEvent, e, Events
  <1>5. targetWindow' \in {targetWindow, NoWindow}
    BY <1>4 DEF OnDaemonState, OnFinalTranscript
  <1>6. WireInv'
    BY <1>0, <1>1, <1>2, <1>5 DEF WireInv
  <1>7. \A g \in Gens : /\ Pending(g)' => Pending(g)
                        /\ Hopeful(g)' => Hopeful(g)
                        /\ Hopeful(g) => Pending(g)
                        /\ Emitting(g)' <=> Emitting(g)
    BY <1>1, <1>2 DEF Pending, Hopeful, Active, Emitting
  <1>8. ASSUME e.event = "state", ~Says("Error"), ~Says("Cancelled")
        PROVE  targetWindow' = targetWindow
    BY <1>2, <1>4, <1>8 DEF OnDaemonState
  <1>9. ASSUME NEW g \in Gens, e.event = "final", e.value = g
        PROVE  Hopeful(g) /\ ~Hopeful(g)' /\ fate[g] = "delivered"
    <2>1. Posted(g) /\ ~Posted(g)'
      BY <1>2, <1>3, <1>9
    <2>2. fate[g] = "delivered" /\ finals[g] # 0
      BY <1>0, <2>1 DEF HistoryInv
    <2>3. ~Active(g) /\ ~Emitting(g)
      BY <2>1, <2>2, DeliveredToo
    <2>4. ~Active(g)' /\ ~Emitting(g)'
      BY <1>1, <2>3 DEF Active, Emitting
    <2> QED
      BY <2>1, <2>2, <2>4 DEF Hopeful
  <1>10. \A g \in calm : g \in Gens
    BY <1>0 DEF HistoryInv
  <1>11. KeyInv'
    <2> SUFFICES ASSUME calmKey
                 PROVE  /\ \A g \in Gens : ~Pending(g)'
                        /\ ~Says("Error")' /\ ~Says("Cancelled")'
                        /\ \A n \in 1 .. Len(cmds) :
                              cmds[n].cmd = "start" => cmds[n].win = targetWindow'
      BY <1>1 DEF KeyInv
    <2>1. /\ \A g \in Gens : ~Pending(g)
          /\ ~Says("Error") /\ ~Says("Cancelled")
          /\ \A n \in 1 .. Len(cmds) :
                cmds[n].cmd = "start" => cmds[n].win = targetWindow
      BY <1>0 DEF KeyInv
    <2>2. e.event # "final"
      BY <1>4, <1>7, <1>9, <2>1
    <2>3. targetWindow' = targetWindow
      BY <1>4, <1>8, <2>1, <2>2
    <2> QED
      BY <1>2, <1>7, <2>1, <2>3
  <1>12. CalmInv'
    <2> SUFFICES ASSUME NEW g \in calm, Hopeful(g)'
                 PROVE  /\ targetWindow' = given[g]
                        /\ ~Says("Error")' /\ ~Says("Cancelled")'
                        /\ \A h \in Gens : Pending(h)' => h = g
      BY <1>1 DEF CalmInv
    <2>1. /\ targetWindow = given[g] /\ ~Says("Error") /\ ~Says("Cancelled")
          /\ \A h \in Gens : Pending(h) => h = g
      BY <1>0, <1>7, <1>10 DEF CalmInv
    <2>2. e.event # "final"
      <3>1. \A h \in Gens : Hopeful(h) => h = g
        BY <1>7, <2>1
      <3> QED
        BY <1>4, <1>9, <3>1
    <2>3. targetWindow' = targetWindow
      BY <1>4, <1>8, <2>1, <2>2
    <2> QED
      BY <1>2, <1>7, <2>1, <2>3
  <1>13. HistoryInv'
    <2>1. \A i \in injected' : i \in injected \/
              (e.event = "final" /\ i = <<e.value, targetWindow>>)
      BY <1>4 DEF OnDaemonState, OnFinalTranscript
    <2>2. ASSUME NEW g \in Gens, e.event = "final", e.value = g
          PROVE  fate[g] = "delivered" /\ (g \in calm => targetWindow = given[g])
      BY <1>0, <1>9, <2>2 DEF CalmInv
    <2>3. e.event = "final" => e.value \in Gens
      BY <1>4
    <2>4. \A i \in injected' : /\ i[1] \in Gens /\ fate[i[1]] = "delivered"
                               /\ i[1] \in calm => i[2] = given[i[1]]
      BY <1>0, <2>1, <2>2, <2>3 DEF HistoryInv
    <2> QED
      BY <1>0, <1>1, <1>2, <1>3, <2>4 DEF HistoryInv
  <1>14. KeptInv'
    <2> SUFFICES ASSUME NEW g \in calm, fate[g] = "delivered", given[g] # NoWindow
                 PROVE  Emitting(g)' \/ Posted(g)' \/ \E i \in injected' : i[1] = g
      BY <1>1 DEF KeptInv
    <2>1. Emitting(g) \/ Posted(g) \/ \E i \in injected : i[1] = g
      BY <1>0 DEF KeptInv
    <2>2. injected \subseteq injected'
      BY <1>4 DEF OnDaemonState, OnFinalTranscript
    <2>3. ASSUME Posted(g), ~Posted(g)' PROVE \E i \in injected' : i[1] = g
      <3>1. e.event = "final" /\ e.value = g
        BY <1>2, <2>3
      <3>2. targetWindow = given[g]
        BY <1>0, <1>9, <1>10, <3>1 DEF CalmInv
      <3>3. <<g, targetWindow>> \in injected'
        BY <1>4, <3>1, <3>2 DEF OnFinalTranscript
      <3> QED
        BY <3>3
    <2> QED
      BY <1>7, <1>10, <2>1, <2>2, <2>3
  <1> QED
    BY <1>6, <1>11, <1>12, <1>13, <1>14 DEF PlanInv

\* A key that leaves everything alone but the command it sends, or that gives
\* up what is under way.
LEMMA DispatchKeeps ==
    ASSUME SysInv, Dispatch
    PROVE  WireInv' /\ PlanInv'
  <1>0. /\ WireInv /\ KeyInv /\ CalmInv /\ HistoryInv /\ KeptInv
        /\ events \in Seq(Events) /\ cmds \in Seq(Commands)
    BY DEF SysInv, PlanInv, WireInv
  <1>1. UNCHANGED <<state, fate, fin, finals, given, events, injected>>
    BY DEF Dispatch, vars
  <1>2. \A s : Says(s)' <=> Says(s)
    BY <1>1, Zenon DEF Says
  <1>3. \A g : Posted(g)' <=> Posted(g)
    BY <1>1, Zenon DEF Posted
  <1>4. \A g : (Active(g)' <=> Active(g)) /\ (Emitting(g)' <=> Emitting(g))
    BY <1>1, Zenon DEF Active, Emitting
  <1>5. \A g : Pending(g)' <=> Pending(g)
    BY <1>3, <1>4, Zenon DEF Pending
  <1>6. \A g : Hopeful(g)' <=> Hopeful(g)
    BY <1>1, <1>3, <1>4, Zenon DEF Hopeful
  <1>7. \A g : Hopeful(g) => Pending(g)
    BY DEF Hopeful, Pending
  <1>8. ASSUME NEW c \in Commands, cmds' = Append(cmds, c)
        PROVE  /\ cmds' \in Seq(Commands)
               /\ \A n \in 1 .. Len(cmds') :
                     cmds'[n] = c \/ (n \in 1 .. Len(cmds) /\ cmds'[n] = cmds[n])
    BY <1>0, <1>8
  <1>9. ASSUME calm' = Undisturbed PROVE CalmInv' /\ HistoryInv' /\ KeptInv'
    <2>1. \A g \in calm' : g \in calm /\ g \in Gens /\ ~Pending(g)
      BY <1>0, <1>9 DEF HistoryInv, Undisturbed
    <2>2. CalmInv'
      BY <1>6, <1>7, <2>1, Zenon DEF CalmInv
    <2>3. HistoryInv'
      <3>1. \A i \in injected' : /\ i[1] \in Gens /\ fate'[i[1]] = "delivered"
                                 /\ i[1] \in calm' => i[2] = given'[i[1]]
        BY <1>0, <1>1, <2>1 DEF HistoryInv
      <3>2. \A g \in Gens : Posted(g)' => fate'[g] = "delivered" /\ finals'[g] # 0
        BY <1>0, <1>1, <1>3 DEF HistoryInv
      <3>3. Once(events') /\ \A g \in calm' : g \in Gens /\ fate'[g] # "none"
        BY <1>0, <1>1, <2>1 DEF HistoryInv
      <3> QED
        BY <3>1, <3>2, <3>3 DEF HistoryInv
    <2>4. KeptInv'
      BY <1>0, <1>1, <1>3, <1>4, <2>1 DEF KeptInv
    <2> QED
      BY <2>2, <2>3, <2>4
  <1>10. ASSUME NEW w \in Windows \union {NoWindow}, Capture(w)
         PROVE  WireInv' /\ PlanInv'
    <2> DEFINE c == [cmd |-> "start", win |-> w]
    <2>1. targetWindow' = w /\ cmds' = Append(cmds, c) /\ calmKey' = Over
          /\ calm' = Undisturbed
      BY <1>10 DEF Capture, Send
    <2>2. c \in Commands /\ c.cmd = "start" /\ c.win = w
      BY DEF Commands
    <2> HIDE DEF c
    <2>3. Over \in BOOLEAN
      BY DEF Over
    <2>4. WireInv'
      BY <1>0, <1>1, <1>8, <2>1, <2>2, <2>3 DEF WireInv
    <2>5. KeyInv'
      <3> SUFFICES ASSUME Over
                   PROVE  /\ \A g \in Gens : ~Pending(g)'
                          /\ ~Says("Error")' /\ ~Says("Cancelled")'
                          /\ \A n \in 1 .. Len(cmds') :
                                cmds'[n].cmd = "start" => cmds'[n].win = targetWindow'
        BY <2>1 DEF KeyInv
      <3>1. /\ \A g \in Gens : ~Pending(g)
            /\ \A n \in 1 .. Len(cmds) : cmds[n].cmd # "start"
            /\ ~Says("Error") /\ ~Says("Cancelled")
        BY DEF Over
      <3>2. \A n \in 1 .. Len(cmds') :
                cmds'[n].cmd = "start" => cmds'[n].win = targetWindow'
        BY <1>8, <2>1, <2>2, <3>1
      <3> QED
        BY <1>2, <1>5, <3>1, <3>2
    <2> QED
      BY <1>9, <2>1, <2>4, <2>5 DEF PlanInv
  <1>11. ASSUME NEW k \in {"stop", "toggle"}, Send(k, NoWindow),
                UNCHANGED <<targetWindow, calmness>>
         PROVE  WireInv' /\ PlanInv'
    <2> DEFINE c == [cmd |-> k, win |-> NoWindow]
    <2>1. c \in Commands /\ c.cmd # "start" /\ cmds' = Append(cmds, c)
      BY <1>11 DEF Commands, Send
    <2> HIDE DEF c
    <2>2. targetWindow' = targetWindow /\ calmKey' = calmKey /\ calm' = calm
      BY <1>11 DEF calmness
    <2>3. WireInv'
      BY <1>0, <1>1, <1>8, <2>1, <2>2 DEF WireInv
    <2>4. KeyInv'
      <3>1. calmKey => \A n \in 1 .. Len(cmds') :
                cmds'[n].cmd = "start" => cmds'[n].win = targetWindow
        BY <1>0, <1>8, <2>1 DEF KeyInv
      <3> QED
        BY <1>0, <1>2, <1>5, <2>2, <3>1 DEF KeyInv
    <2>5. CalmInv'
      BY <1>0, <1>1, <1>2, <1>5, <1>6, <2>2, Zenon DEF CalmInv
    <2>6. HistoryInv'
      BY <1>0, <1>1, <1>3, <2>2 DEF HistoryInv
    <2>7. KeptInv'
      BY <1>0, <1>1, <1>3, <1>4, <2>2, Zenon DEF KeptInv
    <2> QED
      BY <2>3, <2>4, <2>5, <2>6, <2>7 DEF PlanInv
  <1>12. ASSUME DispatchCancel PROVE WireInv' /\ PlanInv'
    <2> DEFINE c == [cmd |-> "cancel", win |-> NoWindow]
    <2>1. c \in Commands /\ cmds' = Append(cmds, c) /\ targetWindow' = NoWindow
          /\ calmKey' = FALSE /\ calm' = Undisturbed
      BY <1>12 DEF Commands, Send, DispatchCancel
    <2> HIDE DEF c
    <2>2. WireInv'
      BY <1>0, <1>1, <1>8, <2>1 DEF WireInv
    <2>3. KeyInv'
      BY <2>1 DEF KeyInv
    <2> QED
      BY <1>9, <2>1, <2>2, <2>3 DEF PlanInv
  <1>13. ASSUME NEW w \in Windows \union {NoWindow}, DispatchToggle(w)
         PROVE  WireInv' /\ PlanInv'
    BY <1>10, <1>11, <1>13 DEF DispatchToggle
  <1>14. ASSUME DispatchPttUp PROVE WireInv' /\ PlanInv'
    BY <1>11, <1>14 DEF DispatchPttUp
  <1> QED
    BY <1>10, <1>12, <1>13, <1>14 DEF Dispatch, DispatchPttDown

-----------------------------------------------------------------------------
(* All steps.                                                              *)

LEMMA SysInit == SystemInit => SysInv
  <1> SUFFICES ASSUME SystemInit PROVE SysInv
    OBVIOUS
  <1>1. /\ Init /\ cmds = <<>> /\ events = <<>>
        /\ targetWindow = NoWindow /\ injected = {} /\ calmKey = FALSE /\ calm = {}
    BY DEF SystemInit
  <1>2. SInv
    BY <1>1, SInvInit
  <1>3. WireInv
    <2>1. cmds \in Seq(Commands) /\ events \in Seq(Events)
      BY <1>1
    <2> QED
      BY <1>1, <2>1 DEF WireInv
  <1>4. \A g : ~Posted(g)
    BY <1>1 DEF Posted
  <1>5. PlanInv
    BY <1>1, <1>4 DEF PlanInv, KeyInv, CalmInv, HistoryInv, KeptInv, Once
  <1> QED
    BY <1>2, <1>3, <1>5 DEF SysInv

\* asked: a start command of a calm key was at the head of the commands.
LEMMA DaemonKeeps ==
    ASSUME SysInv, DaemonMoves \/ UNCHANGED vars, Announce, PluginWaits, OldCommands,
           cmds' \in Seq(Commands), NEW asked \in BOOLEAN,
           \A w \in Windows \union {NoWindow} :
               BeginRecording(w) =>
                   /\ Disturb(asked)
                   /\ asked => /\ calmKey /\ cmds # <<>>
                               /\ Head(cmds).cmd = "start" /\ Head(cmds).win = w,
           \/ \E w \in Windows \union {NoWindow} : BeginRecording(w)
           \/ UNCHANGED calmness
    PROVE  SysInv'
  <1>1. SInv /\ WireInv
    BY DEF SysInv
  <1>2. SInv'
    BY <1>1, MovesAreNext, SInvStep
  <1>3. state' \in States
    BY <1>2 DEF SInv, IInv, TypeOK
  <1>4. ASSUME NEW w \in Windows \union {NoWindow}, BeginRecording(w)
        PROVE  events' \in Seq(Events) /\ PlanInv'
    BY <1>4, BeginKeeps
  <1>5. ASSUME ~\E w \in Windows \union {NoWindow} : BeginRecording(w)
        PROVE  events' \in Seq(Events) /\ PlanInv'
    <2>1. ASSUME UNCHANGED vars PROVE Goes
      <3>1. UNCHANGED <<state, fate, fin, finals, given>>
        BY <2>1 DEF vars, lifecycle, threads, history
      <3> QED
        BY <3>1 DEF Goes, Active, Emitting
    <2>2. ASSUME Goes PROVE events' \in Seq(Events) /\ PlanInv'
      BY <1>3, <1>5, <2>2, GoesKeeps
    <2>3. ASSUME NEW g \in Gens, Accepts(g) \/ Emits(g)
          PROVE  events' \in Seq(Events) /\ PlanInv'
      BY <1>5, <2>3, AcceptsKeeps, EmitsKeeps
    <2> QED
      BY <1>1, <1>5, <2>1, <2>2, <2>3, DaemonStepIs
  <1>6. WireInv'
    <2>1. calmKey' \in BOOLEAN
      <3>1. ASSUME NEW w \in Windows \union {NoWindow}, BeginRecording(w)
            PROVE  calmKey' = FALSE
        BY <3>1 DEF BeginRecording, Disturb
      <3> QED
        BY <1>1, <3>1 DEF WireInv, calmness
    <2> QED
      BY <1>1, <1>4, <1>5, <2>1 DEF WireInv, PluginWaits
  <1> QED
    BY <1>2, <1>4, <1>5, <1>6 DEF SysInv

\* A command begins a recording, or it moves another way or is ignored, and
\* then the history is left alone.
LEMMA HandleIs ==
    ASSUME NEW c \in Commands, Handle(c), NEW asked, Disturb(asked)
    PROVE  /\ DaemonMoves \/ UNCHANGED vars
           /\ \A w \in Windows \union {NoWindow} :
                 BeginRecording(w) => c.cmd \in {"start", "toggle"} /\ c.win = w
           /\ \/ \E w \in Windows \union {NoWindow} : BeginRecording(w)
              \/ UNCHANGED calmness
  <1>1. c.win \in Windows \union {NoWindow} /\ io = "ready"
    BY DEF Commands, Handle
  <1>2. CASE c.cmd \in {"start", "toggle"} /\ BeginRecording(c.win)
    <2>1. \A w \in Windows \union {NoWindow} : BeginRecording(w) => c.win = w
      BY <1>2 DEF BeginRecording
    <2> QED
      BY <1>1, <1>2, <2>1 DEF DaemonMoves, Orders
  <1>3. CASE StartFinalization \/ CancelRecording \/ CancelFinalization
    <2>1. io' # "startEngine"
      BY <1>1, <1>3 DEF StartFinalization, CancelRecording, CancelFinalization, threads
    <2>2. \A w \in Windows \union {NoWindow} : ~BeginRecording(w)
      BY <2>1 DEF BeginRecording
    <2> QED
      BY <1>3, <2>1, <2>2 DEF DaemonMoves, Orders, Disturb
  <1>4. CASE UNCHANGED vars
    <2>1. io' # "startEngine"
      BY <1>1, <1>4 DEF vars, threads
    <2>2. \A w \in Windows \union {NoWindow} : ~BeginRecording(w)
      BY <2>1 DEF BeginRecording
    <2> QED
      BY <1>4, <2>1, <2>2 DEF Disturb
  <1> QED
    BY <1>2, <1>3, <1>4 DEF Handle

LEMMA SysStep ==
    ASSUME SysInv, [SystemNext]_systemVars
    PROVE  SysInv'
  <1>0. SInv /\ WireInv /\ cmds \in Seq(Commands) /\ calmKey \in BOOLEAN
    BY DEF SysInv, WireInv
  <1>1. CASE DaemonStep
    <2>1. (IOStep \/ PollStep \/ \E g \in Gens : FinishStep(g)) /\ Announce /\ PluginWaits
          /\ cmds' = cmds /\ UNCHANGED calmness
      BY <1>1 DEF DaemonStep, PluginWaits, plugin, users
    <2>2. OldCommands
      BY <2>1 DEF OldCommands
    <2>3. \A w \in Windows \union {NoWindow} : ~BeginRecording(w)
      BY <1>0, <2>1, OnlyOnOrder
    <2>4. DaemonMoves
      BY <2>1 DEF DaemonMoves
    <2> QED
      BY <1>0, <2>1, <2>2, <2>3, <2>4, DaemonKeeps
  <1>2. CASE ReceiveCommand
    <2> DEFINE c == Head(cmds)
               asked == calmKey /\ c.cmd = "start"
    <2>1. cmds # <<>> /\ Handle(c) /\ cmds' = Tail(cmds) /\ Announce /\ PluginWaits
          /\ Disturb(asked)
      BY <1>2 DEF ReceiveCommand, PluginWaits, plugin
    <2>2. c \in Commands /\ cmds' \in Seq(Commands)
      BY <1>0, <2>1
    <2>3. \A n \in 1 .. Len(cmds') : n + 1 \in 1 .. Len(cmds) /\ cmds'[n] = cmds[n + 1]
      BY <1>0, <2>1
    <2>4. OldCommands
      BY <2>3 DEF OldCommands
    <2>5. asked \in BOOLEAN /\ (asked => calmKey /\ Head(cmds).cmd = "start")
      BY <1>0
    <2> HIDE DEF asked
    <2>6. /\ DaemonMoves \/ UNCHANGED vars
          /\ \A w \in Windows \union {NoWindow} : BeginRecording(w) => Head(cmds).win = w
          /\ \/ \E w \in Windows \union {NoWindow} : BeginRecording(w)
             \/ UNCHANGED calmness
      BY <2>1, <2>2, HandleIs
    <2> QED
      BY <1>0, <2>1, <2>2, <2>4, <2>5, <2>6, DaemonKeeps
  <1>3. CASE CliCommand
    <2>1. PICK k \in {"toggle", "start", "stop", "cancel"} :
              Handle([cmd |-> k, win |-> NoWindow])
      BY <1>3 DEF CliCommand
    <2> DEFINE c == [cmd |-> k, win |-> NoWindow]
    <2>2. Announce /\ PluginWaits /\ Disturb(FALSE) /\ cmds' = cmds
      BY <1>3 DEF CliCommand, PluginWaits, plugin
    <2>3. OldCommands
      BY <2>2 DEF OldCommands
    <2>4. c \in Commands /\ Handle(c)
      BY <2>1 DEF Commands
    <2> HIDE DEF c
    <2>5. /\ DaemonMoves \/ UNCHANGED vars
          /\ \/ \E w \in Windows \union {NoWindow} : BeginRecording(w)
             \/ UNCHANGED calmness
      BY <2>2, <2>4, HandleIs
    <2> QED
      BY <1>0, <2>2, <2>3, <2>5, DaemonKeeps
  <1>4. CASE ReceiveEvent \/ Dispatch
    <2>1. WireInv' /\ PlanInv'
      BY <1>4, EventKeeps, DispatchKeeps
    <2>2. UNCHANGED vars
      BY <1>4 DEF ReceiveEvent, Dispatch
    <2>3. SInv'
      BY <1>0, <2>2, SInvStep
    <2> QED
      BY <2>1, <2>3 DEF SysInv
  <1>5. CASE UNCHANGED systemVars
    <2>1. UNCHANGED <<vars, cmds, events, mirror, targetWindow, injected, calmness>>
      BY <1>5 DEF systemVars, channels, plugin, users
    <2>2. Announce /\ PluginWaits /\ OldCommands
      <3>1. UNCHANGED <<state, finals>>
        BY <2>1 DEF vars, lifecycle, history
      <3>2. events \in Seq(Events)
        BY <1>0 DEF WireInv
      <3>3. events = events \o <<>> \o <<>>
        BY <3>2
      <3> QED
        BY <2>1, <3>1, <3>3 DEF Announce, PluginWaits, OldCommands
    <2>3. \A w \in Windows \union {NoWindow} : ~BeginRecording(w)
      <3>1. io' = io
        BY <2>1 DEF vars, threads
      <3> QED
        BY <3>1 DEF BeginRecording
    <2> QED
      BY <1>0, <2>1, <2>2, <2>3, DaemonKeeps
  <1> QED
    BY <1>1, <1>2, <1>3, <1>4, <1>5 DEF SystemNext, Rest

THEOREM SystemInvariant == SystemSpec => []SysInv
  <1>1. SystemInit => SysInv
    BY SysInit
  <1>2. SysInv /\ [SystemNext]_systemVars => SysInv'
    BY SysStep
  <1> QED
    BY <1>1, <1>2, PTL DEF SystemSpec

(* README: the text goes to the original target window.  Whatever keys are *)
(* pressed and whatever the command line does, the text of a recording     *)
(* that nobody disturbed goes to no window but the one captured with its   *)
(* own start key.                                                          *)
THEOREM SystemOwnTarget == SystemSpec => []OwnTarget
  <1>1. SysInv => OwnTarget
    BY DEF SysInv, PlanInv, HistoryInv, OwnTarget
  <1> QED
    BY <1>1, SystemInvariant, PTL

(* README: stopping injects the final text.  The text of such a recording  *)
(* is on its way to the plugin until it has been given to the injector.    *)
THEOREM TextsKept == SystemSpec => []NoTextLost
  <1>1. SysInv => NoTextLost
    BY DEF SysInv, PlanInv, KeptInv, NoTextLost, Pending
  <1> QED
    BY <1>1, SystemInvariant, PTL
=============================================================================
